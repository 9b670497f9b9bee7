------------------------------ MODULE SharedHeap ------------------------------
(***************************************************************************)
(* Two threads of a program that uses the library: one keeps a list of     *)
(* texts, the other parses packets.  They share nothing but the heap, and  *)
(* that is enough: the parser reads tokens of a line that it has freed.    *)
(***************************************************************************)
EXTENDS StringList, EpspParser

vars == <<heap, freedTwice, listVars, parserVars>>

Init ==
    /\ heap = <<>> /\ freedTwice = FALSE
    /\ ListInit /\ ParserInit

ListStep   == ListNext   /\ UNCHANGED parserVars
ParserStep == ParserNext /\ UNCHANGED listVars

Next == parserPc # "crashed" /\ (ListStep \/ ParserStep)

Spec == Init /\ [][Next]_vars

-----------------------------------------------------------------------------
(* Properties *)

\* Every variable and everything in a block has its type.
TypeOK == Allocated \subseteq Blocks /\ ListTypeOK /\ ParserTypeOK

\* Every allocated block has one owner, at every step of every function: nothing
\* leaks and nothing is freed twice, although parsing frees its caller's packet
\* when it fails, and although whether it fails may be a matter of chance; no two
\* nodes share a text, and no block that one thread still uses is the other's.
OneOwner ==
    /\ ~freedTwice
    /\ Allocated = ListOwned \cup ParserOwned
    /\ ListOwned \cap ParserOwned = {}
    /\ ListLinked /\ ListApart
    /\ PacketsLinked /\ PacketsApart
=============================================================================
