-------------------------------- MODULE Heap --------------------------------
(***************************************************************************)
(* The heap of malloc and free, shared by all threads: the blocks that are *)
(* allocated, each with what was written into it.  What is in a block that *)
(* was freed is lost, and any thread may be given it next.                 *)
(***************************************************************************)
EXTENDS FiniteSets, Functions

CONSTANTS Blocks,   \* bound: the addresses that malloc may give
          Null

ASSUME NullAssumption == Null \notin Blocks

VARIABLES heap,         \* what is in the allocated blocks
          freedTwice    \* free was called for a block that was not allocated

Allocated == DOMAIN heap

\* The bytes of a text.
Text(t) == [text |-> t]

\* What malloc may give; a thread waits while there is nothing.
Fresh == Blocks \ Allocated

With(b, content) == [c \in Allocated \cup {b} |-> IF c = b THEN content ELSE heap[c]]

Malloc(b, content) ==
    /\ b \in Fresh
    /\ heap' = With(b, content)
    /\ UNCHANGED freedTwice

Store(b, content) ==
    /\ heap' = [heap EXCEPT ![b] = content]
    /\ UNCHANGED freedTwice

\* free, of all blocks of a set.
Free(gone) ==
    /\ heap' = Restrict(heap, Allocated \ gone)
    /\ freedTwice' = (freedTwice \/ ~(gone \subseteq Allocated))
=============================================================================
