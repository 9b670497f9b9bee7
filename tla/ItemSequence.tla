---------------------------- MODULE ItemSequence ----------------------------
(***************************************************************************)
(* What string-list.c promises: a sequence of texts that grows at its end, *)
(* tells its length, its texts in their order and its first text, and goes *)
(* as a whole.                                                             *)
(***************************************************************************)
EXTENDS Integers, Sequences

CONSTANT Items

VARIABLES items,
          told,     \* the texts told last
          size      \* the length told last

sequenceVars == <<items, told, size>>

Init == items = <<>> /\ told = <<>> /\ size = 0

\* What was told may be forgotten before anything is done.
Forget == told' = <<>> /\ size' = 0

Add == \E x \in Items : items' = Append(items, x) /\ UNCHANGED <<told, size>>
Ask == Forget /\ UNCHANGED items
TellAll == told' = items /\ UNCHANGED <<items, size>>
TellFirst == items # <<>> /\ told' = <<Head(items)>> /\ UNCHANGED <<items, size>>
TellSize == size' = Len(items) /\ UNCHANGED <<items, told>>
Empty == items' = <<>> /\ Forget

Next == Add \/ Ask \/ TellAll \/ TellFirst \/ TellSize \/ Empty

Spec == Init /\ [][Next]_sequenceVars
=============================================================================
