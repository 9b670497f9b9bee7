------------------------------ MODULE StringArray ------------------------------
(***************************************************************************)
(* string_array_split: a text cut into tokens, each copied into an array   *)
(* that grows.  Any allocation may fail, and then everything that was      *)
(* allocated before has to be freed again.                                 *)
(*                                                                         *)
(* What is allocated is a set of blocks: the copy of the text, the array,  *)
(* the result and the copies of the tokens, numbered from 0 as in the code.*)
(* A token that is written behind the array hits something else or nothing:*)
(* badWrite notes it, and the call goes on as if nothing had been hit.     *)
(***************************************************************************)
EXTENDS Calls, FiniteSets

CONSTANTS Initial,      \* the slots of a new array: 10
          Growth,       \* the slots it grows by: 3
          TokenCounts   \* the numbers of tokens of the texts that are split

ASSUME TokenCountsAssumption ==
    /\ Initial \in Nat /\ Growth \in Nat \ {0}
    /\ TokenCounts \subseteq Nat

VARIABLES blocks,       \* what is allocated
          badFree,      \* something was freed that was not allocated
          badWrite,     \* something was written where the array has no slot
          slots,        \* the slots that the array was last allocated with
          count, capacity, \* the counters of the code
          failed        \* the allocation that failed, or "none"

arrayVars == <<blocks, badFree, badWrite, slots, count, capacity, failed>>

ArrayCalls == {[f |-> "string_array_split", tokens |-> n] : n \in TokenCounts}

ArrayIdle ==
    /\ blocks = {} /\ badFree = FALSE /\ badWrite = FALSE
    /\ slots = 0 /\ count = 0 /\ capacity = 0
    /\ failed = "none"

\* The blocks.
Work  == <<"work", 0>>
Array == <<"array", 0>>
Datum == <<"data", 0>>
Copy(k) == <<"copy", k>>
Copies(n) == {Copy(k) : k \in 0 .. n - 1}
Stray == <<"stray", 0>>     \* what else memory that is not the array's may hold

-----------------------------------------------------------------------------
\* Slips a change to this code could make.

AllButWork == {Array} \cup Copies(count)   \* an error path without free(work)

-----------------------------------------------------------------------------
MustGrow == count > capacity

Everything == {Work, Array} \cup Copies(count)

Free(gone) ==
    /\ blocks' = blocks \ gone
    /\ badFree' = (badFree \/ ~(gone \subseteq blocks))

\* NULL is returned; why is for the properties to tell.
FailWith(why, gone) ==
    /\ Free(gone)
    /\ failed' = why
    /\ Return

BeginSplit ==
    /\ Called("string_array_split")
    /\ \/ /\ blocks' = {Work, Array}
          /\ slots' = Initial
          /\ capacity' = Initial
          /\ pc' = "split"
          /\ UNCHANGED <<badFree, failed>>
       \/ FailWith("work", {}) /\ UNCHANGED <<slots, capacity>>
    /\ UNCHANGED <<call, badWrite, count>>

\* malloc of the array fails when the copy is already there.
BeginFails ==
    /\ Called("string_array_split")
    /\ failed' = "array"
    /\ Return
    /\ UNCHANGED <<call, blocks, badFree, badWrite, slots, count, capacity>>

\* One more slot is needed, and there is no memory for it: the copies that the
\* array holds stay allocated.
GrowFails ==
    /\ pc = "split" /\ count < call.tokens /\ MustGrow
    /\ FailWith("growth", {Work, Array})
    /\ UNCHANGED <<call, badWrite, slots, count, capacity>>

CopyToken ==
    /\ pc = "split" /\ count < call.tokens
    /\ capacity' = IF MustGrow THEN capacity + Growth ELSE capacity
    /\ slots' = IF MustGrow THEN capacity' ELSE slots
    /\ badWrite' = (badWrite \/ count >= slots')
    /\ \/ /\ blocks' = blocks \cup {Copy(count)}
          /\ count' = count + 1
          /\ UNCHANGED <<pc, badFree, failed>>
       \/ FailWith("copy", Everything) /\ UNCHANGED count
    /\ UNCHANGED call

\* The array is cut, in place, to one slot less than there are tokens.
TrimArray ==
    /\ pc = "split" /\ count = call.tokens /\ count > 1
    /\ \/ /\ slots' = count - 1
          /\ pc' = "trimmed"
          /\ UNCHANGED <<blocks, badFree, failed>>
       \/ FailWith("trim", Everything) /\ UNCHANGED slots
    /\ UNCHANGED <<call, badWrite, count, capacity>>

\* realloc to no bytes at all frees the array; its NULL is taken for a failure.
TrimToNothing ==
    /\ pc = "split" /\ count = call.tokens /\ count <= 1
    /\ blocks' = blocks \ {Array, Work}
    /\ failed' = "nothing left"
    /\ pc' = "undo"
    /\ UNCHANGED <<call, badFree, badWrite, slots, count, capacity>>

\* The exit reads the only token's copy out of the freed array, which need not
\* hold it any more, frees what it finds and then frees the array again.  The
\* allocator may notice either and end the program, or not.
FreeAgain ==
    /\ pc = "undo"
    /\ \E found \in Copies(count) \cup {Stray} : blocks' = blocks \ {found}
    /\ badFree' = TRUE
    /\ pc' \in {"return", "crashed"}
    /\ UNCHANGED <<call, badWrite, slots, count, capacity, failed>>

Deliver ==
    /\ pc = "trimmed"
    /\ blocks' = (blocks \cup {Datum}) \ {Work}
    /\ Return
    /\ UNCHANGED <<call, badFree, badWrite, slots, count, capacity, failed>>

\* malloc of the result fails.  The exit reads the last copy from behind the trimmed
\* array, where something else may stand by now, and frees what it finds.
DeliverFails ==
    /\ pc = "trimmed"
    /\ failed' = "data"
    /\ \E found \in {Copy(count - 1), Stray} :
          Free({Work, Array, found} \cup Copies(count - 1))
    /\ pc' \in {"return"} \cup (IF badFree' THEN {"crashed"} ELSE {})
    /\ UNCHANGED <<call, badWrite, slots, count, capacity>>

ArrayNext == BeginSplit \/ BeginFails \/ GrowFails \/ CopyToken \/ TrimArray
             \/ TrimToNothing \/ FreeAgain \/ Deliver \/ DeliverFails

-----------------------------------------------------------------------------
(* Properties *)

\* Every variable has its type.
ArrayTypeOK ==
    /\ blocks \subseteq {Work, Array, Datum} \cup Copies(count)
    /\ badFree \in BOOLEAN /\ badWrite \in BOOLEAN
    /\ slots \in Nat /\ count \in Nat /\ capacity \in Nat
    /\ failed \in {"none", "work", "array", "growth", "copy", "trim", "nothing left", "data"}

\* A split that fails frees all that it had allocated, whichever allocation it is
\* that fails; only when the array cannot grow do the copies stay behind.  Nothing
\* is freed that is not allocated and the program does not end, but at the two exits
\* that look for a copy where the array is no more: that of a text of fewer than two
\* tokens, which frees the array twice, and that without memory for the result.
\* Either may leave the last copy behind.  A split that succeeds leaves the result,
\* the array and the copies.
SplitFreesAll ==
    /\ badFree => failed = "data" \/ (failed = "nothing left" /\ call.tokens < 2)
    /\ (call.f = "string_array_split" /\ pc = "crashed") => badFree
    /\ Returned("string_array_split") =>
          CASE failed = "none"         -> blocks = {Datum, Array} \cup Copies(count)
            [] failed = "growth"       -> blocks = Copies(count)
            [] failed = "nothing left" -> blocks \subseteq Copies(count)
            [] failed = "data"         -> blocks = IF badFree THEN {Copy(count - 1)} ELSE {}
            [] OTHER                   -> blocks = {}

\* The first Initial tokens are written within the array.  It is not asked to grow
\* before it is full, and then one token late: that token is written into the slot
\* behind what was asked for, never further.  Of the trimmed array exactly the last
\* slot is missing.
SplitInBounds ==
    /\ badWrite => call.tokens > Initial
    /\ pc = "split" => count <= slots + 1
    /\ Returned("string_array_split") /\ failed = "none" => count = slots + 1
=============================================================================
