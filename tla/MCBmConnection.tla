--------------------------- MODULE MCBmConnection ---------------------------
(***************************************************************************)
(* BmConnection on three descriptor numbers: one for epoll and one for     *)
(* each of two connections, or for what the rest of the program opens in   *)
(* the place of one that was closed.                                       *)
(***************************************************************************)
EXTENDS BmConnection, TLC

\* Descriptor numbers and addresses are interchangeable.  Used where no
\* liveness property is checked.
Symmetry == Permutations(Fds) \cup Permutations(Records)
=============================================================================
