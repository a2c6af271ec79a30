-------------------------------- MODULE PAC --------------------------------
(***************************************************************************)
(* The software pointer authentication of pacinst.c, in the build that     *)
(* config.h selects: PACENABLED 0, TOPBYTEIGNORE 1 (SHIFT 56, MASK7BITS    *)
(* 0xff).  A 64-bit pointer is a record: the top byte, where a signature   *)
(* lives, and the address that MASKLOWBIT keeps.  Bits 48..55 are zero in  *)
(* every user-space address and stay so: no operation below sets them.     *)
(***************************************************************************)
EXTENDS Integers

CONSTANT ByteXor(_, _)      \* C's ^ on two bytes

Byte == 0..255

Pointer == [sig : Byte, addr : Nat]

NULL == [sig |-> 0, addr |-> 0]

(* What the proofs use of exclusive or. *)
ASSUME ByteXorAssumption ==
  \A a, b \in Byte : /\ ByteXor(a, b) \in Byte
                     /\ ByteXor(a, b) = ByteXor(b, a)
                     /\ ByteXor(a, ByteXor(a, b)) = b

(* x & MASK7BITS *)
Low(x) == x % 256

(* The signature of an address under an id: their low bytes, xor-ed. *)
Signature(addr, id) == ByteXor(Low(addr), Low(id))

(* __xpac: strip the signature. *)
xpac(ptr) == [ptr EXCEPT !.sig = 0]

(***************************************************************************)
(* __pacia: or the signature into the top byte.  Every caller passes a     *)
(* pointer whose top byte is zero, so the "or" is an assignment.           *)
(***************************************************************************)
pacia(ptr, id) == [ptr EXCEPT !.sig = Signature(ptr.addr, id)]

(* __autia: the stripped pointer when the signature verifies, else NULL.   *)
autiaAnyway(ptr, id) == xpac(ptr)                                 \* mutant
autia(ptr, id) ==
  IF ptr.sig = pacia(xpac(ptr), id).sig THEN xpac(ptr) ELSE NULL

(***************************************************************************)
(* The test "id != 0 && __autia(...)" that validatePointer makes on the    *)
(* word in front of a pointer and backward_search on every candidate: does *)
(* the word id in front of address addr vouch for the signature sig?       *)
(***************************************************************************)
Vouches(sig, addr, id) ==
  id # 0 /\ autia([sig |-> sig, addr |-> addr], id) # NULL
=============================================================================
