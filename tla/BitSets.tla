------------------------------ MODULE BitSets ------------------------------
(***************************************************************************)
(* What bitset.h promises: each handle is a growing set of bit indices, a  *)
(* clone starts equal to its original and is independent of it.            *)
(***************************************************************************)
CONSTANTS Handles,   \* the bitsets a program may hold at a time
          Indices    \* the bit indices it uses

VARIABLES exists,    \* the handles in use
          members    \* the indices set in each handle

absVars == <<exists, members>>

Init ==
    /\ exists = {}
    /\ members = [h \in Handles |-> {}]

New(h) ==
    /\ h \notin exists
    /\ exists' = exists \cup {h}
    /\ UNCHANGED members

Set(h, i) ==
    /\ h \in exists
    /\ members' = [members EXCEPT ![h] = @ \cup {i}]
    /\ UNCHANGED exists

Clone(h, g) ==
    /\ h \in exists
    /\ g \notin exists
    /\ exists' = exists \cup {g}
    /\ members' = [members EXCEPT ![g] = members[h]]

Free(h) ==
    /\ h \in exists
    /\ exists' = exists \ {h}
    /\ members' = [members EXCEPT ![h] = {}]

Next ==
    \E h \in Handles :
        \/ New(h)
        \/ Free(h)
        \/ \E i \in Indices : Set(h, i)
        \/ \E g \in Handles : Clone(h, g)

Spec == Init /\ [][Next]_absVars
=============================================================================
