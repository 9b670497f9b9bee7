----------------------------- MODULE MCBmQueue -----------------------------
(***************************************************************************)
(* BmQueue on small sets of threads, nodes and data, which BmQueue.cfg     *)
(* gives: a producer that may be preempted anywhere in a push, and two     *)
(* consumers, so that one can take what the other was woken for.           *)
(***************************************************************************)
EXTENDS BmQueue
=============================================================================
