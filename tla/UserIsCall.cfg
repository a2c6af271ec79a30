CONSTANTS
  Escaping = {"malloc"}
  Functions <- MCFunctions
  Programs <- MCPrograms
  Orders <- MCOrders
SPECIFICATION Spec
INVARIANT UserIsCall
CHECK_DEADLOCK FALSE
