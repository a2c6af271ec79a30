CONSTANTS
  Escaping = {"malloc"}
  Functions <- MCFunctions
  Programs <- MCPrograms
  Orders <- MCOrders
SPECIFICATION FairSpec
INVARIANTS TypeOK UseListsExact SameProgram Complete
PROPERTY Terminates
CHECK_DEADLOCK FALSE
