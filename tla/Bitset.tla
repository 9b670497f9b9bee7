------------------------------- MODULE Bitset -------------------------------
(***************************************************************************)
(* bitset.c: sets of bit indices in growing arrays of words.               *)
(*                                                                         *)
(* The array has two lengths that the code keeps apart: what was really    *)
(* allocated (alloc) and what set->wordsLength says.  A word is the set of *)
(* its bits.  Words beyond the allocation hold whatever the heap holds.    *)
(***************************************************************************)
EXTENDS Naturals, FiniteSets, FiniteSetsExt

CONSTANTS
    Handles,         \* the bitsets the program may hold at a time
    Indices,         \* the bit indices it uses
    NewCalls,        \* how it makes them: [nbits, sticky], see below
    WordBits,        \* BITS_PER_WORD: 64
    DefaultLength,   \* the wordsLength that initWords assumes: 8
    ReallocMayFail,  \* can realloc return NULL?
    NULL

ASSUME SizesAssumption ==
    /\ WordBits \in Nat \ {0}
    /\ DefaultLength \in Nat \ {0}
    /\ Indices \subseteq Nat
    /\ \E last \in Indices : \A i \in Indices : last >= i
    /\ NewCalls \subseteq [nbits : Nat \ {0}, sticky : BOOLEAN]
    /\ ReallocMayFail \in BOOLEAN

VARIABLE sets    \* what each handle points to, NULL if nothing

Bits     == 0..(WordBits - 1)
wordIndex(bitIndex) == bitIndex \div WordBits
\* The words a bitset can ever look at: one past the last index.
Words    == 0..(wordIndex(Max(Indices)) + 1)
Garbage  == {{}, {0}}            \* what a word nobody allocated may hold

\* The fields of a bitset, and what was allocated for its words.
BitsetFields ==
    [alloc : Nat, wordsLength : Nat, wordsInUse : Nat,
     sizeIsSticky : BOOLEAN, words : [Words -> SUBSET Bits]]

ASSUME NullAssumption == NULL \notin BitsetFields

-----------------------------------------------------------------------------
\* Slips a change to this code could make, one for each property below.

BitUnmasked(bitIndex) == bitIndex            \* the bit is not reduced to its word
growKeepsJunk(old, length, request, junk) ==      \* realloc without memset
    [w \in Words |-> IF w < length THEN old[w] ELSE junk]
trimKeepsLength(s, junk) ==                       \* wordsLength is not reduced
    [s EXCEPT !.alloc = s.wordsInUse,
              !.words = [w \in Words |-> IF w < s.wordsInUse THEN s.words[w] ELSE junk]]
allocatedWordsShort(nbits) == wordIndex(nbits - 1)    \* calloc forgets the + 1

-----------------------------------------------------------------------------
\* 1L << bitIndex: the processor takes the shift modulo the word.
Bit(bitIndex) == bitIndex % WordBits

allocatedWords(nbits) == wordIndex(nbits - 1) + 1

\* calloc of the words, but wordsLength is always DefaultLength.
initWords(nbits, sticky, junk) ==
    [alloc |-> allocatedWords(nbits), wordsLength |-> DefaultLength,
     wordsInUse |-> 0, sizeIsSticky |-> sticky,
     words |-> [w \in Words |-> IF w < allocatedWords(nbits) THEN {} ELSE junk]]

\* The words after realloc to request words and memset of the new ones.
grow(old, length, request, junk) ==
    [w \in Words |-> IF w < length THEN old[w]
                     ELSE IF w < request THEN {} ELSE junk]

Larger(a, b) == IF a > b THEN a ELSE b

\* ensureCapacity; nothing changes when realloc fails.
ensureCapacity(s, wordsRequired, junk, fails) ==
    LET request == Larger(2 * s.wordsLength, wordsRequired) IN
    IF s.wordsLength >= wordsRequired \/ fails THEN s
    ELSE [s EXCEPT !.alloc = request, !.wordsLength = request,
                   !.sizeIsSticky = FALSE,
                   !.words = grow(s.words, s.wordsLength, request, junk)]

expandTo(s, index, junk, fails) ==
    IF s.wordsInUse >= index + 1 THEN s
    ELSE [ensureCapacity(s, index + 1, junk, fails) EXCEPT !.wordsInUse = index + 1]

bitset_set(s, bitIndex, junk, fails) ==
    LET index == wordIndex(bitIndex) IN
    [expandTo(s, index, junk, fails) EXCEPT !.words[index] = @ \cup {Bit(bitIndex)}]

bitset_get(s, bitIndex) ==
    LET index == wordIndex(bitIndex) IN
    index < s.wordsInUse /\ Bit(bitIndex) \in s.words[index]

\* A fresh array of exactly the words in use (the old one is not freed).
trim(s, junk) ==
    [s EXCEPT !.alloc = s.wordsInUse, !.wordsLength = s.wordsInUse,
              !.words = [w \in Words |-> IF w < s.wordsInUse THEN s.words[w] ELSE junk]]

trimToSize(s, junk) ==
    IF s.wordsInUse = s.wordsLength THEN s ELSE trim(s, junk)

\* The clone gets its own array of wordsLength words.
dolly(s, junk) ==
    [s EXCEPT !.alloc = s.wordsLength,
              !.words = [w \in Words |-> IF w < s.wordsLength THEN s.words[w] ELSE junk]]

-----------------------------------------------------------------------------
Init == sets = [h \in Handles |-> NULL]

\* bitset_new() is the call [WordBits, FALSE], bitset_new2(n) is [n, TRUE].
New(h, call) ==
    /\ sets[h] = NULL
    /\ \E junk \in Garbage :
          sets' = [sets EXCEPT ![h] = initWords(call.nbits, call.sticky, junk)]

Set(h, bitIndex) ==
    /\ sets[h] # NULL
    /\ \E junk \in Garbage, fails \in {FALSE, ReallocMayFail} :
          sets' = [sets EXCEPT ![h] = bitset_set(sets[h], bitIndex, junk, fails)]

\* bitset_clone trims the original unless its size is sticky, then copies it.
Clone(h, g) ==
    /\ sets[h] # NULL
    /\ sets[g] = NULL
    /\ \E junk \in Garbage :
          LET s == IF sets[h].sizeIsSticky THEN sets[h] ELSE trimToSize(sets[h], junk)
          IN  sets' = [sets EXCEPT ![h] = s, ![g] = dolly(s, junk)]

\* bitset_free; the program drops the handle.
Free(h) ==
    /\ sets[h] # NULL
    /\ sets' = [sets EXCEPT ![h] = NULL]

Next ==
    \E h \in Handles :
        \/ \E call \in NewCalls : New(h, call)
        \/ \E i \in Indices : Set(h, i)
        \/ \E g \in Handles : Clone(h, g)
        \/ Free(h)

Spec == Init /\ [][Next]_sets

-----------------------------------------------------------------------------
(* Properties *)

InUse == {h \in Handles : sets[h] # NULL}

\* Every bitset has its type: a word holds bits of a word only.
TypeOK == sets \in [Handles -> BitsetFields \cup {NULL}]

\* No operation touches a word outside the allocation: whatever the sequence of
\* set, clone and set again, the words in use are within wordsLength and
\* wordsLength is within what was allocated.
InBounds ==
    \A h \in InUse : sets[h].wordsInUse <= sets[h].wordsLength
                        /\ sets[h].wordsLength <= sets[h].alloc

\* The three assertions of checkInvariants hold after every operation.
AssertionsHold ==
    \A h \in InUse :
        LET s == sets[h] IN
        /\ s.wordsInUse = 0 \/ s.words[s.wordsInUse - 1] # {}
        /\ s.wordsInUse <= s.wordsLength
        /\ s.wordsInUse = s.wordsLength \/ s.words[s.wordsInUse] = {}

\* Seen through bitset_get the arrays are sets of indices: a set adds its index
\* and no other, and growing, trimming and cloning lose and invent nothing.
AbstractSets == INSTANCE BitSets
    WITH exists  <- InUse,
         members <- [h \in Handles |->
                       IF sets[h] = NULL THEN {}
                       ELSE {i \in Indices : bitset_get(sets[h], i)}]

ImplementsSets == AbstractSets!Spec
=============================================================================
