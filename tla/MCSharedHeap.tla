----------------------------- MODULE MCSharedHeap -----------------------------
(***************************************************************************)
(* SharedHeap with room for six blocks: a list of two texts, a packet and  *)
(* a line; a list of one, its copy and three packets; a chain of three and *)
(* a packet that fails; every block comes to both threads in every role.   *)
(***************************************************************************)
EXTENDS SharedHeap, TLC

\* Lines of too few, of one, two and three, and of too many tokens.
SomeLines ==
    {<<>>, <<"number">>, <<"number", "number">>, <<"word", "number", "word">>,
     <<"number", "number", "word", "word">>}

\* An address is as good as any other.
BlockSymmetry == Permutations(Blocks)
=============================================================================
