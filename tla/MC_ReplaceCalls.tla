-------------------------- MODULE MC_ReplaceCalls --------------------------
EXTENDS ReplaceCalls

CONSTANT Escaping       \* functions whose address a program may take

MCFunctions == Wrapped \cup {"g"}

(* what the n-th instruction may be given: the result of another, or data *)
Values(n) == {Data} \cup {Result(id) : id \in 1..(n - 1)}

(* The four functions take no functions; g may, and a store, NoCall, too.  *)
Instructions(n) ==
  [callee : {"malloc", "free"}, args : {<<v>> : v \in Values(n)}]
    \cup [callee : {"realloc"}, args : {<<v, Data>> : v \in Values(n)}]
    \cup [callee : {"g", NoCall},
          args : {<<v>> : v \in Values(n) \cup {Address(f) : f \in Escaping}}]

MCPrograms ==
  {<<i, j, k>> : i \in Instructions(1), j \in Instructions(2), k \in Instructions(3)}

(* declarations before and after the definitions that use them *)
MCOrders == {<<"malloc", "g", "realloc", "free">>, <<"free", "g", "malloc", "realloc">>}
=============================================================================
