------------------------------ MODULE Numerals ------------------------------
(***************************************************************************)
(* Numbers in positional notation: what the digits of the codecs and of    *)
(* the texts stand for.                                                    *)
(***************************************************************************)
EXTENDS Integers

\* What becomes of the number a when the digits f[m + 1] .. f[n] to the base b
\* are written after it.
Continued(a, f, b, m, n) ==
    LET v[i \in m .. n] == IF i = m THEN a ELSE v[i - 1] * b + f[i]
    IN  v[n]

\* The number that these digits stand for.
Numeral(f, b, m, n) == Continued(0, f, b, m, n)

\* b^0, ..., b^k are the powers of b.  The provers know nothing of ^, so what
\* they may use of it is stated as an assumption, which TLC evaluates.
PowersTo(b, k) == b^0 = 1 /\ \A n \in 0 .. k - 1 : b^(n + 1) = b * b^n
=============================================================================
