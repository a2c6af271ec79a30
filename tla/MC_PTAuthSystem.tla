--------------------------- MODULE MC_PTAuthSystem ---------------------------
EXTENDS PTAuthSystem, MCBytes, TLC

(* Low nibbles 1, 3 and 5: no two ids sign alike, nor like the tombstone.  *)
DrawnIds == <<100000001, 100000019, 100000037>>
MCIds == [t \in 0..MaxObjects |-> DrawnIds[t + 1]]

MainSymmetry == Permutations(Main)
=============================================================================
