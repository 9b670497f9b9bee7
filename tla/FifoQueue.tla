----------------------------- MODULE FifoQueue -----------------------------
(***************************************************************************)
(* What bm_queue promises its callers, without its list, its heap or its   *)
(* lock: producers append data, each consumer repeatedly asks for the      *)
(* oldest datum, and once the queue is closed a consumer that finds it     *)
(* empty is refused.  Whatever is left when every consumer has been        *)
(* refused may only be discarded.                                          *)
(***************************************************************************)
EXTENDS Sequences

CONSTANTS Consumers,  \* threads that pop
          Data,       \* what can be queued
          Nothing,    \* a pop in progress has no result yet
          Refused     \* the result of a pop on a closed, empty queue

VARIABLES items,      \* queued data, oldest first
          closed,     \* the queue is closed
          result      \* result of the last pop of each consumer

absVars == <<items, closed, result>>

Init ==
    /\ items = <<>>
    /\ closed = FALSE
    /\ result = [c \in Consumers |-> Nothing]

\* A consumer asks again; it does not after having been refused.
Ask(c) ==
    /\ result[c] \in Data
    /\ result' = [result EXCEPT ![c] = Nothing]
    /\ UNCHANGED <<items, closed>>

Enqueue ==
    /\ \E d \in Data : items' = Append(items, d)
    /\ UNCHANGED <<closed, result>>

Dequeue(c) ==
    /\ items # <<>>
    /\ result[c] = Nothing
    /\ result' = [result EXCEPT ![c] = Head(items)]
    /\ items' = Tail(items)
    /\ UNCHANGED closed

Refuse(c) ==
    /\ closed
    /\ items = <<>>
    /\ result[c] = Nothing
    /\ result' = [result EXCEPT ![c] = Refused]
    /\ UNCHANGED <<items, closed>>

Close ==
    /\ closed' = TRUE
    /\ UNCHANGED <<items, result>>

Discard ==
    /\ items # <<>>
    /\ \A c \in Consumers : result[c] = Refused
    /\ items' = Tail(items)
    /\ UNCHANGED <<closed, result>>

Next ==
    \/ Enqueue
    \/ Close
    \/ Discard
    \/ \E c \in Consumers : Ask(c) \/ Dequeue(c) \/ Refuse(c)

Spec == Init /\ [][Next]_absVars
=============================================================================
