------------------------------ MODULE StringList ------------------------------
(***************************************************************************)
(* string-list.c: a list of nodes, each with a block of its own for its    *)
(* text, as a thread builds, walks and frees it.                           *)
(***************************************************************************)
EXTENDS Heap, Integers, Sequences

CONSTANTS Items,        \* the texts
          MaxItems      \* bound: the length of a list

VARIABLES list,         \* the caller's pointer to the first node
          listPc,       \* the function that runs, or a place in it
          item,         \* str
          tmp,          \* the node that is looked at
          count,        \* what string_list_size counts
          seen,         \* what func was called with
          copy,         \* what string_list_element gave to the caller
          nodes         \* auxiliary: the nodes, in their order

listVars == <<list, listPc, item, tmp, count, seen, copy, nodes>>

ListInit ==
    /\ list = Null /\ listPc = "none" /\ item = Null /\ tmp = Null
    /\ count = 0 /\ seen = <<>> /\ copy = Null /\ nodes = <<>>

\* The texts, and the nodes that point to them.
Texts == [text : Items]
Nodes == [str : Blocks \cup {Null}, next : Blocks \cup {Null}]

-----------------------------------------------------------------------------
\* Slips a change to this code could make.

UnendedNode(str) == [str |-> str, next |-> "junk"]  \* without last->next = NULL
SecondNode == IF list = Null THEN Null ELSE heap[list].next
NoString(b) == {}                                   \* without free(tmp->str)

-----------------------------------------------------------------------------
(* string_list_add, string_list_get_last_node *)

\* A node that nothing follows.
Node(str) == [str |-> str, next |-> Null]

\* What the last call told is forgotten by the next.
Forget == count' = 0 /\ seen' = <<>>

CallAdd ==
    /\ listPc = "none" /\ Len(nodes) < MaxItems
    /\ item' \in Items
    /\ tmp' = list
    /\ listPc' = "add"
    /\ Forget
    /\ UNCHANGED <<heap, freedTwice, list, copy, nodes>>

GetLastNode ==
    /\ listPc = "add" /\ tmp # Null /\ heap[tmp].next # Null
    /\ tmp' = heap[tmp].next
    /\ UNCHANGED <<heap, freedTwice, list, listPc, item, count, seen, copy, nodes>>

AddFirst ==
    /\ listPc = "add" /\ tmp = Null
    /\ \E b \in Fresh : Malloc(b, Node(Null)) /\ list' = b /\ tmp' = b /\ nodes' = <<b>>
    /\ listPc' = "string"
    /\ UNCHANGED <<item, count, seen, copy>>

AddLast ==
    /\ listPc = "add" /\ tmp # Null /\ heap[tmp].next = Null
    /\ \E b \in Fresh :
          /\ heap' = [With(b, Node(Null)) EXCEPT ![tmp].next = b]
          /\ tmp' = b
          /\ nodes' = Append(nodes, b)
    /\ listPc' = "string"
    /\ UNCHANGED <<freedTwice, list, item, count, seen, copy>>

AddString ==
    /\ listPc = "string"
    /\ \E b \in Fresh : heap' = [With(b, Text(item)) EXCEPT ![tmp].str = b]
    /\ listPc' = "none" /\ item' = Null /\ tmp' = Null
    /\ UNCHANGED <<freedTwice, list, count, seen, copy, nodes>>

-----------------------------------------------------------------------------
(* string_list_size, string_list_foreach, string_list_element *)

FirstNode == list

CallWalk ==
    /\ listPc = "none" /\ copy = Null
    /\ listPc' \in {"size", "foreach"}
    /\ tmp' = FirstNode
    /\ Forget
    /\ UNCHANGED <<heap, freedTwice, list, item, copy, nodes>>

WalkOn ==
    /\ listPc \in {"size", "foreach"} /\ tmp # Null
    /\ IF listPc = "size" THEN count' = count + 1 /\ UNCHANGED seen
       ELSE seen' = Append(seen, heap[heap[tmp].str].text) /\ UNCHANGED count
    /\ tmp' = heap[tmp].next
    /\ UNCHANGED <<heap, freedTwice, list, listPc, item, copy, nodes>>

WalkEnd ==
    /\ listPc \in {"size", "foreach"} /\ tmp = Null
    /\ listPc' = "none"
    /\ UNCHANGED <<heap, freedTwice, list, item, tmp, count, seen, copy, nodes>>

CallElement ==
    /\ listPc = "none" /\ list # Null /\ copy = Null
    /\ \E b \in Fresh : Malloc(b, heap[heap[list].str]) /\ copy' = b
    /\ Forget
    /\ UNCHANGED <<list, listPc, item, tmp, nodes>>

\* The caller reads what it was given, and frees it.
UseElement ==
    /\ listPc = "none" /\ copy # Null
    /\ seen' = <<heap[copy].text>>
    /\ Free({copy})
    /\ copy' = Null
    /\ UNCHANGED <<list, listPc, item, tmp, count, nodes>>

-----------------------------------------------------------------------------
(* string_list_free *)

StringOf(b) == {heap[b].str}

CallFree ==
    /\ listPc = "none" /\ list # Null /\ copy = Null
    /\ tmp' = list
    /\ list' = Null
    /\ listPc' = "free"
    /\ Forget
    /\ UNCHANGED <<heap, freedTwice, item, copy, nodes>>

FreeString ==
    /\ listPc = "free" /\ tmp # Null
    /\ Free(StringOf(tmp))
    /\ listPc' = "free node"
    /\ UNCHANGED <<list, item, tmp, count, seen, copy, nodes>>

FreeNode ==
    /\ listPc = "free node"
    /\ tmp' = heap[tmp].next
    /\ Free({tmp})
    /\ nodes' = Tail(nodes)
    /\ listPc' = "free"
    /\ UNCHANGED <<list, item, count, seen, copy>>

FreeEnd ==
    /\ listPc = "free" /\ tmp = Null
    /\ listPc' = "none"
    /\ UNCHANGED <<heap, freedTwice, list, item, tmp, count, seen, copy, nodes>>

ListNext ==
    \/ CallAdd \/ GetLastNode \/ AddFirst \/ AddLast \/ AddString
    \/ CallWalk \/ WalkOn \/ WalkEnd \/ CallElement \/ UseElement
    \/ CallFree \/ FreeString \/ FreeNode \/ FreeEnd

-----------------------------------------------------------------------------
(* Properties *)

ListTypeOK ==
    /\ {list, tmp, copy} \subseteq Blocks \cup {Null}
    /\ listPc \in {"none", "add", "string", "size", "foreach", "free", "free node"}
    /\ nodes \in Seq(Blocks)
    /\ \A i \in 1 .. Len(nodes) : nodes[i] \in Allocated /\ heap[nodes[i]] \in Nodes
    /\ count \in Nat /\ count <= Len(nodes)
    /\ seen \in Seq(Items) /\ item \in Items \cup {Null}

Freeing == listPc \in {"free", "free node"}

\* The first node is in list, or is the next that is freed; each node leads to
\* the one behind it, at every step of adding and of freeing.
ListLinked ==
    /\ (IF Freeing THEN tmp ELSE list) = IF nodes = <<>> THEN Null ELSE nodes[1]
    /\ Freeing => list = Null
    /\ \A i \in 1 .. Len(nodes) :
          heap[nodes[i]].next = IF i = Len(nodes) THEN Null ELSE nodes[i + 1]

\* The node that is just being made has no text yet, the one that is just being
\* freed has none any more.
Texted == Range(nodes) \ (IF listPc \in {"string", "free node"} THEN {tmp} ELSE {})
Strings == {heap[b].str : b \in Texted}

\* What the thread has to free one day: the nodes, their texts and the copy of
\* one.  They are different blocks, and no two nodes share a text.
ListOwned == Range(nodes) \cup Strings \cup ({copy} \ {Null})
ListApart ==
    /\ IsInjective(nodes)
    /\ \A b, c \in Texted : heap[b].str = heap[c].str => b = c
    /\ Range(nodes) \cap Strings = {}
    /\ copy \notin Range(nodes) \cup Strings

\* A list is a sequence: whatever it was built from and however the blocks were
\* used before, an item is at the end of it as soon as it has a text, every walk
\* meets all of them in order, and freeing takes them all at once.
Length == IF Freeing THEN 0 ELSE IF listPc = "string" THEN Len(nodes) - 1 ELSE Len(nodes)
Contents == [i \in 1 .. Length |-> heap[heap[nodes[i]].str].text]

Sequence ==
    INSTANCE ItemSequence WITH items <- Contents,
        told <- IF listPc = "foreach" THEN <<>> ELSE seen,
        size <- IF listPc = "size" THEN 0 ELSE count
ImplementsSequence == Sequence!Spec
=============================================================================
