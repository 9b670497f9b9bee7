-------------------------------- MODULE Words --------------------------------
(***************************************************************************)
(* Words of n bits as natural numbers: what the operators of C do to them. *)
(***************************************************************************)
EXTENDS Numerals

WordOf(n) == 0 .. 2^n - 1

Bit(w, k) == (w \div 2^k) % 2

\* The word of n bits whose bit k is bit(k), 0 or 1.
FromBits(bit(_), n) ==
    LET v[k \in 0 .. n] == IF k = 0 THEN 0 ELSE v[k - 1] + bit(k - 1) * 2^(k - 1)
    IN  v[n]

Xor(a, b, n) == LET bit(k) == (Bit(a, k) + Bit(b, k)) % 2 IN FromBits(bit, n)
And(a, b, n) == LET bit(k) == Bit(a, k) * Bit(b, k) IN FromBits(bit, n)

ShiftLeft(w, k, n) == (w * 2^k) % 2^n
ShiftRight(w, k) == w \div 2^k

\* The signed number that the word stands for, in two's complement.
Signed(w, n) == IF w < 2^(n - 1) THEN w ELSE w - 2^n
=============================================================================
