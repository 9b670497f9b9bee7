--------------------------- MODULE BmConversation ---------------------------
(***************************************************************************)
(* What two nodes promise each other: each hears what the other said, in   *)
(* order and nothing else, and answers a version with a verack and a ping  *)
(* with a pong in the moment it hears it.                                  *)
(***************************************************************************)
EXTENDS Naturals, Sequences

CONSTANTS Nodes,                \* the two ends of a connection
          Peer(_),              \* the other end
          Says,                 \* what a node may say of its own accord
          Meaning(_)            \* what the other end makes of it

VARIABLES said, heard

vars == <<said, heard>>

\* The answer a message calls for: none of the answers calls for another.
Answered == [version |-> "verack", ping |-> "pong"]

Answers(m) ==
    IF m.command \in DOMAIN Answered THEN <<[command |-> Answered[m.command]]>>
    ELSE <<>>

Init ==
    /\ said = [n \in Nodes |-> <<>>]
    /\ heard = [n \in Nodes |-> <<>>]

Say(n, m) ==
    /\ said' = [said EXCEPT ![n] = Append(@, m)]
    /\ UNCHANGED heard

Hear(n) ==
    /\ Len(heard[n]) < Len(said[Peer(n)])
    /\ LET m == said[Peer(n)][Len(heard[n]) + 1] IN
          /\ heard' = [heard EXCEPT ![n] = Append(@, Meaning(m))]
          /\ said' = [said EXCEPT ![n] = @ \o Answers(m)]

Next == \E n \in Nodes : Hear(n) \/ \E m \in Says : Say(n, m)

Spec == Init /\ [][Next]_vars
=============================================================================
