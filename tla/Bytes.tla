--------------------------------- MODULE Bytes ---------------------------------
(***************************************************************************)
(* Bytes and the operations of C on their bits, for the modules that       *)
(* follow the cipher and the hash byte by byte.                            *)
(***************************************************************************)
EXTENDS Loops

Byte == 0 .. 255

(* Operations on bits: of two bits the exclusive or is what their sum leaves,
   the conjunction what it carries.  Bytes are taken by their halves, k is the
   weight of a bit. *)
Bit(a, k) == (a \div k) % 2

XorHalf == [a \in 0 .. 15 |-> [b \in 0 .. 15 |->
    LET x(k) == (Bit(a, k) + Bit(b, k)) % 2 IN 8 * x(8) + 4 * x(4) + 2 * x(2) + x(1)]]
AndHalf == [a \in 0 .. 15 |-> [b \in 0 .. 15 |->
    LET x(k) == (Bit(a, k) + Bit(b, k)) \div 2 IN 8 * x(8) + 4 * x(4) + 2 * x(2) + x(1)]]

xor(a, b) == 16 * XorHalf[a \div 16][b \div 16] + XorHalf[a % 16][b % 16]
and8(a, b) == 16 * AndHalf[a \div 16][b \div 16] + AndHalf[a % 16][b % 16]

(* Sequences of bytes, place by place. *)
XorBytes(p, q) == Tabulated([i \in DOMAIN p |-> xor(p[i], q[i])])
==============================================================================
