------------------------ MODULE MC_ValidatePointer ------------------------
(* Pointers into, at the edges of and beyond one object, in memories that  *)
(* hold its id, a freed object's word, look-alikes, or nothing mapped.     *)
EXTENDS ValidatePointer, MCBytes

Meta == 5120                        \* metadata of the object
Id == 123456789                     \* low byte 0x15
OtherId == 123456790                \* low byte 0x16

(* Distances of the pointer from the metadata: the base of the object,     *)
(* aligned and unaligned interior, and both sides of the threshold.        *)
Distances == {1, 8, 9, 15, 16, 17, 24, 40, 1008, 1016, 1023, 1024, 1025, 1040}

MCPointers ==
  { [sig |-> s, addr |-> Meta + d] :
      s \in {0, Signature(Meta + 8, Id)}, d \in Distances }

(* A word at a, 16-aligned, that vouches for a pointer signed with Id by   *)
(* the object at Meta, although it is not the id of that object.           *)
LookAlike(a) == 256 + ByteXor(Low(a + 8), Signature(Meta + 8, Id))

MCWords ==
  { [a \in {Meta} |-> Id], [a \in {Meta} |-> 2], [a \in {Meta} |-> 0],
    [a \in {Meta, Meta - 16} |-> IF a = Meta THEN Id ELSE OtherId],
    [a \in {Meta, Meta - 16} |-> IF a = Meta THEN OtherId ELSE LookAlike(a)],
    [a \in {Meta, Meta + 16} |-> IF a = Meta THEN 2 ELSE LookAlike(a)],
    [a \in {Meta, Meta + 1000} |-> IF a = Meta THEN Id ELSE OtherId],
    [a \in {Meta, Meta + 9} |-> Id] }

MCMemories ==
  { [bottom |-> b, words |-> w] :
      b \in {0, Meta - 608, Meta, Meta + 16}, w \in MCWords }
=============================================================================
