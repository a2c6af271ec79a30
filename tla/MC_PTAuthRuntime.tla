------------------------- MODULE MC_PTAuthRuntime -------------------------
EXTENDS PTAuthRuntime, MCBytes, TLC

(* Low nibbles 1, 3 and 5: no two ids sign alike, nor like Data below.     *)
DistinctIds == <<100000001, 100000019, 100000037, 100000051>>
MCDistinctIds == [t \in 0..MaxObjects |-> DistinctIds[t + 1]]

(* The runs with one allocation a second take these ids.                   *)
ASSUME DistinctIdsSignApart == ~SameSecond => IdsSignApart

(* Ids that collide: with the word 2 of a freed object, with the low byte  *)
(* of the first object's address (signature 0), and with each other.       *)
CollidingIds == <<100000002, 100000008, 100000258, 100000514>>
MCCollidingIds == [t \in 0..MaxObjects |-> CollidingIds[t + 1]]

VarsSymmetry == Permutations(Vars)
=============================================================================
