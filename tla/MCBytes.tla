------------------------------ MODULE MCBytes ------------------------------
(* Exclusive or on bytes, bit by bit: what the runs substitute for ByteXor. *)
EXTENDS Integers

Bit(x, k) == (x \div 2^k) % 2

XorBit(a, b, k) == IF Bit(a, k) = Bit(b, k) THEN 0 ELSE 2^k

Xor(a, b) ==
  XorBit(a, b, 0) + XorBit(a, b, 1) + XorBit(a, b, 2) + XorBit(a, b, 3) +
  XorBit(a, b, 4) + XorBit(a, b, 5) + XorBit(a, b, 6) + XorBit(a, b, 7)

(* A table, which TLC fills once. *)
XorTable == [a \in 0..255 |-> [b \in 0..255 |-> Xor(a, b)]]

MCByteXor(a, b) == XorTable[a][b]
=============================================================================
