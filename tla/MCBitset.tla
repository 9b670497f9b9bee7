------------------------------ MODULE MCBitset ------------------------------
(***************************************************************************)
(* Bitset with words of two bits and arrays of two words at first.         *)
(***************************************************************************)
EXTENDS Bitset, TLC

\* Calls of bitset_new2 that allocate at least DefaultLength words; bitset_new.
LargeCalls  == {[nbits |-> n, sticky |-> TRUE] : n \in {3, 4, 6}}
DefaultCall == {[nbits |-> WordBits, sticky |-> FALSE]}

Symmetry == Permutations(Handles)
=============================================================================
