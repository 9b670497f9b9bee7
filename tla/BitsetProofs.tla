---------------------------- MODULE BitsetProofs ----------------------------
(***************************************************************************)
(* Proofs about Bitset, for words of any size, any indices and any calls   *)
(* that allocate the words initWords claims, while memory lasts.           *)
(***************************************************************************)
EXTENDS Bitset, TLAPS

\* bitset_new2(n) with n so large that initWords allocates what it claims.
EnoughWords == \A call \in NewCalls : allocatedWords(call.nbits) >= DefaultLength

LastWord == wordIndex(Max(Indices))

\* The words in use exist, and are those that the indices need.
Fits(s) ==
    /\ s.wordsInUse <= s.wordsLength
    /\ s.wordsLength <= s.alloc
    /\ s.wordsInUse <= LastWord + 1

LastUsed(s) == s.wordsInUse = 0 \/ s.words[s.wordsInUse - 1] # {}

\* Words that exist but are not in use are empty: they come into use as they are.
RestEmpty(s) ==
    \A w \in Words : (s.wordsInUse <= w /\ w < s.wordsLength) => s.words[w] = {}

WellFormed == {s \in BitsetFields : Fits(s) /\ LastUsed(s) /\ RestEmpty(s)}

Inv == sets \in [Handles -> WellFormed \cup {NULL}]

USE SizesAssumption

-----------------------------------------------------------------------------
\* A number is its word and its bit: no two indices share both.
THEOREM IndexIsWordAndBit ==
    ASSUME NEW i \in Nat
    PROVE  /\ wordIndex(i) \in Nat
           /\ Bit(i) \in Bits
           /\ i = WordBits * wordIndex(i) + Bit(i)
  BY DEF wordIndex, Bit, Bits

LEMMA WordIndexMonotone ==
    ASSUME NEW i \in Nat, NEW k \in Nat, i <= k
    PROVE  wordIndex(i) <= wordIndex(k)
  BY DEF wordIndex

LEMMA LastWordFacts ==
    /\ LastWord \in Nat
    /\ Words = 0 .. LastWord + 1
    /\ \A i \in Indices : wordIndex(i) \in 0 .. LastWord
<1>1. PICK last \in Indices : \A i \in Indices : last >= i
  OBVIOUS
<1>2. Max(Indices) \in Indices /\ \A i \in Indices : Max(Indices) >= i
  BY <1>1 DEF Max
<1>3. \A i \in Indices : wordIndex(i) \in Nat /\ wordIndex(i) <= LastWord
  BY <1>2, IndexIsWordAndBit, WordIndexMonotone DEF LastWord
<1>4. LastWord \in Nat
  BY <1>2, IndexIsWordAndBit DEF LastWord
<1>5. Words = 0 .. LastWord + 1
  BY DEF LastWord, Words
<1> QED
  BY <1>3, <1>4, <1>5

LEMMA FieldTypes ==
    ASSUME NEW s \in BitsetFields
    PROVE  /\ s.alloc \in Nat /\ s.wordsLength \in Nat /\ s.wordsInUse \in Nat
           /\ s.sizeIsSticky \in BOOLEAN
           /\ s.words \in [Words -> SUBSET Bits]
  BY DEF BitsetFields

LEMMA GarbageIsWord == ASSUME NEW junk \in Garbage PROVE junk \in SUBSET Bits
  BY DEF Garbage, Bits

-----------------------------------------------------------------------------
(* the operations *)

LEMMA NewWellFormed ==
    ASSUME EnoughWords, NEW call \in NewCalls, NEW junk \in Garbage
    PROVE  /\ initWords(call.nbits, call.sticky, junk) \in WellFormed
           /\ initWords(call.nbits, call.sticky, junk).wordsInUse = 0
<1> DEFINE t == initWords(call.nbits, call.sticky, junk)
           ws == [w \in Words |-> IF w < allocatedWords(call.nbits) THEN {} ELSE junk]
<1>1. call.nbits \in Nat \ {0} /\ call.sticky \in BOOLEAN
  OBVIOUS
<1>2. allocatedWords(call.nbits) \in Nat
  BY <1>1, IndexIsWordAndBit DEF allocatedWords
<1>3. ws \in [Words -> SUBSET Bits]
  BY GarbageIsWord
<1>4. t = [alloc |-> allocatedWords(call.nbits), wordsLength |-> DefaultLength,
           wordsInUse |-> 0, sizeIsSticky |-> call.sticky, words |-> ws]
  BY DEF initWords
<1>5. t \in BitsetFields
  BY <1>1, <1>2, <1>3, <1>4 DEF BitsetFields
<1>6. Fits(t) /\ LastUsed(t)
  BY <1>2, <1>4, LastWordFacts DEF Fits, LastUsed, EnoughWords
<1>7. RestEmpty(t)
  BY <1>2, <1>4, LastWordFacts DEF RestEmpty, EnoughWords
<1> QED
  BY <1>4, <1>5, <1>6, <1>7 DEF WellFormed

LEMMA EnsuredCapacity ==
    ASSUME NEW s \in WellFormed, NEW required \in Nat, NEW junk \in Garbage,
           NEW fails \in BOOLEAN, ~fails, NEW c, c = ensureCapacity(s, required, junk, fails)
    PROVE  /\ c \in BitsetFields
           /\ c.wordsInUse = s.wordsInUse
           /\ required <= c.wordsLength /\ c.wordsLength <= c.alloc
           /\ s.wordsLength <= c.wordsLength
           /\ \A w \in Words : w < s.wordsInUse => c.words[w] = s.words[w]
           /\ RestEmpty(c)
<1>1. s \in BitsetFields /\ Fits(s) /\ RestEmpty(s)
  BY DEF WellFormed
<1>0. s.alloc \in Nat /\ s.wordsLength \in Nat /\ s.wordsInUse \in Nat
  BY <1>1, FieldTypes
<1>2. CASE s.wordsLength >= required
  <2>1. c = s
    BY <1>2 DEF ensureCapacity
  <2> QED
    BY <1>0, <1>1, <1>2, <2>1 DEF Fits, RestEmpty
<1>3. CASE ~(s.wordsLength >= required)
  <2> DEFINE request == Larger(2 * s.wordsLength, required)
             ws == grow(s.words, s.wordsLength, request, junk)
  <2>1. c = [s EXCEPT !.alloc = request, !.wordsLength = request,
                      !.sizeIsSticky = FALSE, !.words = ws]
    BY <1>3 DEF ensureCapacity
  <2>2. request \in Nat /\ request >= required /\ request > s.wordsLength
    BY <1>0, <1>3 DEF Larger
  <2>3. ws \in [Words -> SUBSET Bits]
    BY <1>1, FieldTypes, GarbageIsWord DEF grow
  <2>4. /\ c.alloc = request /\ c.wordsLength = request /\ c.words = ws
        /\ c.wordsInUse = s.wordsInUse
        /\ c \in BitsetFields
    <3> HIDE DEF request, ws
    <3> QED BY <1>1, <2>1, <2>2, <2>3 DEF BitsetFields
  <2>5. \A w \in Words : ws[w] = IF w < s.wordsLength THEN s.words[w]
                                 ELSE IF w < request THEN {} ELSE junk
    BY DEF grow
  <2>6. \A w \in Words : w < s.wordsInUse => c.words[w] = s.words[w]
    <3> HIDE DEF request, ws
    <3> QED BY <1>0, <1>1, <2>4, <2>5, LastWordFacts DEF Fits
  <2>7. RestEmpty(c)
    <3> HIDE DEF request, ws
    <3> QED BY <1>0, <1>1, <2>2, <2>4, <2>5, LastWordFacts DEF Fits, RestEmpty
  <2> HIDE DEF request, ws
  <2> QED BY <1>0, <1>1, <2>2, <2>4, <2>6, <2>7
<1> QED
  BY <1>2, <1>3

LEMMA Expanded ==
    ASSUME NEW s \in WellFormed, NEW index \in 0 .. LastWord, NEW junk \in Garbage,
           NEW fails \in BOOLEAN, ~fails, NEW e, e = expandTo(s, index, junk, fails)
    PROVE  /\ e \in BitsetFields
           /\ Fits(e)
           /\ e.wordsInUse = Larger(s.wordsInUse, index + 1)
           /\ RestEmpty(e)
           /\ \A w \in Words : w < s.wordsInUse => e.words[w] = s.words[w]
           /\ \A w \in Words : (s.wordsInUse <= w /\ w < e.wordsLength) => e.words[w] = {}
<1>1. s \in BitsetFields /\ Fits(s) /\ RestEmpty(s)
  BY DEF WellFormed
<1>0. s.alloc \in Nat /\ s.wordsLength \in Nat /\ s.wordsInUse \in Nat
  BY <1>1, FieldTypes
<1>2. index \in Nat /\ index + 1 \in Nat /\ index <= LastWord /\ LastWord \in Nat
  BY LastWordFacts
<1>3. CASE s.wordsInUse >= index + 1
  <2>1. e = s
    BY <1>3 DEF expandTo
  <2> QED
    BY <1>0, <1>1, <1>2, <1>3, <2>1 DEF Larger, RestEmpty
<1>4. CASE ~(s.wordsInUse >= index + 1)
  <2> DEFINE c == ensureCapacity(s, index + 1, junk, fails)
  <2>1. e = [c EXCEPT !.wordsInUse = index + 1]
    BY <1>4 DEF expandTo
  <2>2. /\ c \in BitsetFields /\ c.wordsInUse = s.wordsInUse
        /\ index + 1 <= c.wordsLength /\ c.wordsLength <= c.alloc
        /\ \A w \in Words : w < s.wordsInUse => c.words[w] = s.words[w]
        /\ RestEmpty(c)
    BY <1>2, EnsuredCapacity
  <2> HIDE DEF c
  <2>3. /\ e \in BitsetFields /\ e.wordsInUse = index + 1
        /\ e.wordsLength = c.wordsLength /\ e.alloc = c.alloc /\ e.words = c.words
    BY <1>2, <2>1, <2>2 DEF BitsetFields
  <2>4. \A w \in Words : (s.wordsInUse <= w /\ w < e.wordsLength) => e.words[w] = {}
    BY <2>2, <2>3 DEF RestEmpty
  <2>5. RestEmpty(e)
    BY <1>0, <1>1, <1>2, <1>4, <2>3, <2>4, LastWordFacts DEF RestEmpty
  <2>6. Fits(e) /\ e.wordsInUse = Larger(s.wordsInUse, index + 1)
    BY <1>0, <1>1, <1>2, <1>4, <2>2, <2>3 DEF Fits, Larger
  <2> QED
    BY <2>2, <2>3, <2>4, <2>5, <2>6
<1> QED
  BY <1>3, <1>4

LEMMA SetWellFormed ==
    ASSUME NEW s \in WellFormed, NEW b \in Indices, NEW junk \in Garbage,
           NEW fails \in BOOLEAN, ~fails, NEW t, t = bitset_set(s, b, junk, fails)
    PROVE  /\ t \in WellFormed
           /\ \A i \in Indices : bitset_get(t, i) <=> (i = b \/ bitset_get(s, i))
<1> DEFINE index == wordIndex(b)
           e == expandTo(s, index, junk, fails)
<1>1. /\ s \in BitsetFields /\ RestEmpty(s) /\ s.wordsInUse \in Nat
      /\ s.words \in [Words -> SUBSET Bits]
  BY FieldTypes DEF WellFormed
<1>2. index \in 0 .. LastWord /\ index \in Words /\ LastWord \in Nat
  BY LastWordFacts
<1>3. /\ e \in BitsetFields
      /\ Fits(e)
      /\ e.wordsInUse = Larger(s.wordsInUse, index + 1)
      /\ RestEmpty(e)
      /\ \A w \in Words : w < s.wordsInUse => e.words[w] = s.words[w]
      /\ \A w \in Words : (s.wordsInUse <= w /\ w < e.wordsLength) => e.words[w] = {}
  BY <1>2, Expanded
<1>4. t = [e EXCEPT !.words[index] = @ \cup {Bit(b)}]
  BY DEF bitset_set
<1> HIDE DEF e
<1>5. Bit(b) \in Bits
  BY IndexIsWordAndBit
<1>6. /\ e.alloc \in Nat /\ e.wordsLength \in Nat /\ e.wordsInUse \in Nat
      /\ e.words \in [Words -> SUBSET Bits]
  BY <1>3, FieldTypes
<1>7. /\ t \in BitsetFields
      /\ t.alloc = e.alloc /\ t.wordsLength = e.wordsLength /\ t.wordsInUse = e.wordsInUse
      /\ t.words = [e.words EXCEPT ![index] = @ \cup {Bit(b)}]
  BY <1>2, <1>3, <1>4, <1>5 DEF BitsetFields
<1> HIDE DEF index
<1>8. /\ t.words[index] = e.words[index] \cup {Bit(b)}
      /\ \A w \in Words : w # index => t.words[w] = e.words[w]
  BY <1>2, <1>6, <1>7
<1>9. index < t.wordsInUse /\ s.wordsInUse <= t.wordsInUse
      /\ t.wordsInUse \in {s.wordsInUse, index + 1}
  BY <1>1, <1>2, <1>3, <1>7 DEF Larger
<1>10. Fits(t)
  BY <1>3, <1>7 DEF Fits
<1>11. RestEmpty(t)
  <2> SUFFICES ASSUME NEW w \in Words, t.wordsInUse <= w, w < t.wordsLength
               PROVE  t.words[w] = {}
    BY DEF RestEmpty
  <2>1. w # index
    BY <1>2, <1>6, <1>7, <1>9, LastWordFacts
  <2>2. e.words[w] = {}
    BY <1>3, <1>7 DEF RestEmpty
  <2> QED
    BY <1>8, <2>1, <2>2
<1>12. LastUsed(t)
  <2>1. CASE t.wordsInUse = index + 1
    BY <1>2, <1>8, <2>1 DEF LastUsed
  <2>2. CASE t.wordsInUse = s.wordsInUse /\ t.wordsInUse # index + 1
    <3>1. s.wordsInUse - 1 \in Words /\ s.wordsInUse - 1 # index /\ s.wordsInUse - 1 < s.wordsInUse
      BY <1>1, <1>2, <1>7, <1>9, <1>10, <2>2, LastWordFacts DEF Fits
    <3>2. t.words[t.wordsInUse - 1] = s.words[s.wordsInUse - 1]
      BY <1>3, <1>8, <2>2, <3>1
    <3> QED
      BY <1>2, <1>9, <2>2, <3>2 DEF WellFormed, LastUsed
  <2> QED
    BY <1>9, <2>1, <2>2
<1>13. ASSUME NEW i \in Indices
       PROVE  bitset_get(t, i) <=> (i = b \/ bitset_get(s, i))
  <2>1. /\ wordIndex(i) \in Words /\ wordIndex(i) \in Nat
        /\ i = WordBits * wordIndex(i) + Bit(i)
        /\ b = WordBits * index + Bit(b)
    BY LastWordFacts, IndexIsWordAndBit DEF index
  <2>2. i = b <=> (wordIndex(i) = index /\ Bit(i) = Bit(b))
    BY <2>1 DEF index
  <2>3. wordIndex(i) < s.wordsInUse => e.words[wordIndex(i)] = s.words[wordIndex(i)]
    BY <1>3, <2>1
  <2>4. (wordIndex(i) < t.wordsInUse /\ ~(wordIndex(i) < s.wordsInUse)) => e.words[wordIndex(i)] = {}
    BY <1>1, <1>3, <1>6, <1>7, <2>1 DEF Fits
  <2>5. CASE wordIndex(i) = index
    <3>1. bitset_get(t, i) <=> (Bit(i) = Bit(b) \/ Bit(i) \in e.words[index])
      BY <1>8, <1>9, <2>5 DEF bitset_get
    <3>2. Bit(i) \in e.words[index] <=> bitset_get(s, i)
      BY <1>9, <2>3, <2>4, <2>5 DEF bitset_get
    <3> QED
      BY <2>2, <2>5, <3>1, <3>2
  <2>6. CASE wordIndex(i) # index
    <3>1. bitset_get(t, i) <=> (wordIndex(i) < t.wordsInUse /\ Bit(i) \in e.words[wordIndex(i)])
      BY <1>8, <2>1, <2>6 DEF bitset_get
    <3>2. (wordIndex(i) < t.wordsInUse /\ Bit(i) \in e.words[wordIndex(i)]) <=> bitset_get(s, i)
      BY <1>1, <1>6, <1>7, <1>9, <2>1, <2>3, <2>4 DEF bitset_get
    <3> QED
      BY <2>2, <2>6, <3>1, <3>2
  <2> QED
    BY <2>5, <2>6
<1> QED
  BY <1>7, <1>10, <1>11, <1>12, <1>13 DEF WellFormed

\* What can be read of two bitsets with the same words in use is the same.
LEMMA SameBits ==
    ASSUME NEW s, NEW t, t.wordsInUse = s.wordsInUse,
           \A w \in Words : w < s.wordsInUse => t.words[w] = s.words[w]
    PROVE  \A i \in Indices : bitset_get(t, i) <=> bitset_get(s, i)
<1> TAKE i \in Indices
<1>1. wordIndex(i) \in Words
  BY LastWordFacts
<1>2. wordIndex(i) < s.wordsInUse => t.words[wordIndex(i)] = s.words[wordIndex(i)]
  BY <1>1
<1> QED
  BY <1>2 DEF bitset_get

\* The first n words of s in an array of their own.
Copied(s, n, junk) ==
    [s EXCEPT !.alloc = n, !.wordsLength = n,
              !.words = [w \in Words |-> IF w < n THEN s.words[w] ELSE junk]]

LEMMA CopyWellFormed ==
    ASSUME NEW s \in WellFormed, NEW junk \in Garbage, NEW n \in Nat,
           s.wordsInUse <= n, n <= s.wordsLength
    PROVE  /\ Copied(s, n, junk) \in WellFormed
           /\ \A i \in Indices : bitset_get(Copied(s, n, junk), i) <=> bitset_get(s, i)
<1> DEFINE t == Copied(s, n, junk)
           ws == [w \in Words |-> IF w < n THEN s.words[w] ELSE junk]
<1>1. /\ s \in BitsetFields /\ Fits(s) /\ RestEmpty(s) /\ LastUsed(s) /\ s.wordsInUse \in Nat
      /\ s.wordsLength \in Nat /\ s.words \in [Words -> SUBSET Bits]
  BY FieldTypes DEF WellFormed
<1>2. ws \in [Words -> SUBSET Bits]
  BY <1>1, GarbageIsWord
<1>3. \A w \in Words : w < n => ws[w] = s.words[w]
  OBVIOUS
<1> HIDE DEF ws
<1>4. t = [s EXCEPT !.alloc = n, !.wordsLength = n, !.words = ws]
  BY DEF ws, Copied
<1> HIDE DEF t
<1>5. /\ t \in BitsetFields
      /\ t.alloc = n /\ t.wordsLength = n /\ t.wordsInUse = s.wordsInUse /\ t.words = ws
  BY <1>1, <1>2, <1>4 DEF BitsetFields
<1>6. \A w \in Words : w < s.wordsInUse => t.words[w] = s.words[w]
  BY <1>1, <1>3, <1>5, LastWordFacts
<1>7. Fits(t)
  BY <1>1, <1>5 DEF Fits
<1>8. RestEmpty(t)
  BY <1>1, <1>3, <1>5, LastWordFacts DEF RestEmpty
<1>9. LastUsed(t)
  <2>1. CASE s.wordsInUse = 0
    BY <1>5, <2>1 DEF LastUsed
  <2>2. CASE s.wordsInUse # 0
    <3>1. s.wordsInUse - 1 \in Words /\ s.wordsInUse - 1 < s.wordsInUse
      BY <1>1, <2>2, LastWordFacts DEF Fits
    <3>2. t.words[s.wordsInUse - 1] = s.words[s.wordsInUse - 1]
      BY <1>6, <3>1
    <3> QED
      BY <1>1, <1>5, <2>2, <3>2 DEF LastUsed
  <2> QED
    BY <2>1, <2>2
<1>10. \A i \in Indices : bitset_get(t, i) <=> bitset_get(s, i)
  <2>1. t.wordsInUse = s.wordsInUse
    BY <1>5
  <2> QED
    BY <1>6, <2>1, SameBits
<1> QED
  BY <1>5, <1>7, <1>8, <1>9, <1>10 DEF WellFormed, t

LEMMA TrimWellFormed ==
    ASSUME NEW s \in WellFormed, NEW junk \in Garbage
    PROVE  /\ trimToSize(s, junk) \in WellFormed
           /\ \A i \in Indices : bitset_get(trimToSize(s, junk), i) <=> bitset_get(s, i)
<1>1. CASE s.wordsInUse = s.wordsLength
  BY <1>1 DEF trimToSize
<1>2. CASE s.wordsInUse # s.wordsLength
  <2>1. trimToSize(s, junk) = Copied(s, s.wordsInUse, junk)
    BY <1>2 DEF trimToSize, trim, Copied
  <2>2. s.wordsInUse \in Nat /\ s.wordsInUse <= s.wordsInUse /\ s.wordsInUse <= s.wordsLength
    BY FieldTypes DEF WellFormed, Fits
  <2> QED
    BY <2>1, <2>2, CopyWellFormed
<1> QED
  BY <1>1, <1>2

LEMMA DollyWellFormed ==
    ASSUME NEW s \in WellFormed, NEW junk \in Garbage
    PROVE  /\ dolly(s, junk) \in WellFormed
           /\ \A i \in Indices : bitset_get(dolly(s, junk), i) <=> bitset_get(s, i)
<1>1. /\ s \in BitsetFields /\ s.wordsLength \in Nat
      /\ s.wordsInUse <= s.wordsLength /\ s.wordsLength <= s.wordsLength
  BY FieldTypes DEF WellFormed, Fits
<1>2. dolly(s, junk) = Copied(s, s.wordsLength, junk)
  BY <1>1 DEF dolly, Copied, BitsetFields
<1> QED
  BY <1>1, <1>2, CopyWellFormed

-----------------------------------------------------------------------------
(* the specification *)

USE NullAssumption

LEMMA NotNull == NULL \notin WellFormed
  BY DEF WellFormed

LEMMA InvStep ==
    ASSUME EnoughWords, ReallocMayFail = FALSE, Inv, Next
    PROVE  Inv'
<1>1. ASSUME NEW h \in Handles, NEW call \in NewCalls, New(h, call)
      PROVE  Inv'
  BY <1>1, NewWellFormed DEF New, Inv
<1>2. ASSUME NEW h \in Handles, NEW b \in Indices, Set(h, b)
      PROVE  Inv'
  <2>1. PICK junk \in Garbage, fails \in BOOLEAN :
          ~fails /\ sets' = [sets EXCEPT ![h] = bitset_set(sets[h], b, junk, fails)]
    BY <1>2 DEF Set
  <2>2. sets[h] \in WellFormed
    BY <1>2 DEF Set, Inv
  <2>3. bitset_set(sets[h], b, junk, fails) \in WellFormed
    BY <2>1, <2>2, SetWellFormed
  <2> QED
    BY <2>1, <2>3 DEF Inv
<1>3. ASSUME NEW h \in Handles, NEW g \in Handles, Clone(h, g)
      PROVE  Inv'
  <2> DEFINE trimmed(junk) == IF sets[h].sizeIsSticky THEN sets[h] ELSE trimToSize(sets[h], junk)
  <2>1. PICK junk \in Garbage :
          sets' = [sets EXCEPT ![h] = trimmed(junk), ![g] = dolly(trimmed(junk), junk)]
    BY <1>3 DEF Clone
  <2> DEFINE s == trimmed(junk)
  <2>2. sets[h] \in WellFormed
    BY <1>3 DEF Clone, Inv
  <2>3. s \in WellFormed
    BY <2>1, <2>2, TrimWellFormed
  <2> QED
    BY <2>1, <2>3, DollyWellFormed DEF Inv
<1>4. ASSUME NEW h \in Handles, Free(h)
      PROVE  Inv'
  BY <1>4 DEF Free, Inv
<1> QED
  BY <1>1, <1>2, <1>3, <1>4 DEF Next

\* Every bitset is well formed after every operation of the code.
THEOREM Invariance ==
    ASSUME EnoughWords, ReallocMayFail = FALSE
    PROVE  Spec => []Inv
<1>1. Init => Inv
  BY DEF Init, Inv
<1>2. Inv /\ [Next]_sets => Inv'
  <2> SUFFICES ASSUME Inv, [Next]_sets PROVE Inv'
    OBVIOUS
  <2>1. CASE Next
    BY <2>1, InvStep
  <2>2. CASE UNCHANGED sets
    BY <2>2 DEF Inv
  <2> QED
    BY <2>1, <2>2
<1> QED
  BY <1>1, <1>2, PTL DEF Spec

LEMMA InUseWellFormed ==
    ASSUME Inv, NEW h \in InUse
    PROVE  sets[h] \in WellFormed
  BY DEF Inv, InUse

\* The fields of a bitset keep their types, and a word holds bits of a word.
THEOREM TypeCorrect ==
    ASSUME EnoughWords, ReallocMayFail = FALSE
    PROVE  Spec => []TypeOK
<1>1. Inv => TypeOK
  BY DEF Inv, TypeOK, WellFormed
<1> QED
  BY <1>1, Invariance, PTL

\* No operation leaves the allocated words.
THEOREM InBoundsCorrect ==
    ASSUME EnoughWords, ReallocMayFail = FALSE
    PROVE  Spec => []InBounds
<1>1. Inv => InBounds
  BY InUseWellFormed DEF InBounds, WellFormed, Fits
<1> QED
  BY <1>1, Invariance, PTL

\* checkInvariants never stops the program.
THEOREM AssertionsCorrect ==
    ASSUME EnoughWords, ReallocMayFail = FALSE
    PROVE  Spec => []AssertionsHold
<1>1. Inv => AssertionsHold
  <2> SUFFICES ASSUME Inv, NEW h \in InUse
               PROVE  LET s == sets[h] IN
                      /\ s.wordsInUse = 0 \/ s.words[s.wordsInUse - 1] # {}
                      /\ s.wordsInUse <= s.wordsLength
                      /\ s.wordsInUse = s.wordsLength \/ s.words[s.wordsInUse] = {}
    BY DEF AssertionsHold
  <2> DEFINE s == sets[h]
  <2>1. /\ s.wordsInUse \in Nat /\ s.wordsLength \in Nat
        /\ Fits(s) /\ LastUsed(s) /\ RestEmpty(s)
    BY InUseWellFormed, FieldTypes DEF WellFormed
  <2> HIDE DEF s
  <2>2. s.wordsInUse \in Words
    BY <2>1, LastWordFacts DEF Fits
  <2>3. s.wordsInUse < s.wordsLength => s.words[s.wordsInUse] = {}
    BY <2>1, <2>2 DEF RestEmpty
  <2>4. /\ s.wordsInUse = 0 \/ s.words[s.wordsInUse - 1] # {}
        /\ s.wordsInUse <= s.wordsLength
        /\ s.wordsInUse = s.wordsLength \/ s.words[s.wordsInUse] = {}
    BY <2>1, <2>3 DEF Fits, LastUsed
  <2> QED
    BY <2>4 DEF s
<1> QED
  BY <1>1, Invariance, PTL

-----------------------------------------------------------------------------
(* the abstract sets *)

\* The indices that bitset_get finds in a bitset.
MembersOf(s) == {i \in Indices : bitset_get(s, i)}

Members == [h \in Handles |-> IF sets[h] = NULL THEN {} ELSE MembersOf(sets[h])]

LEMMA NewIsNew ==
    ASSUME EnoughWords, Inv, NEW h \in Handles, NEW call \in NewCalls, New(h, call)
    PROVE  AbstractSets!New(h)
<1>1. PICK junk \in Garbage :
        sets' = [sets EXCEPT ![h] = initWords(call.nbits, call.sticky, junk)]
  BY DEF New
<1> DEFINE t == initWords(call.nbits, call.sticky, junk)
<1>2. t \in WellFormed /\ t.wordsInUse = 0
  BY NewWellFormed
<1>3. MembersOf(t) = {}
  <2> SUFFICES ASSUME NEW i \in Indices, bitset_get(t, i) PROVE FALSE
    BY DEF MembersOf
  <2>1. wordIndex(i) \in Nat /\ wordIndex(i) < t.wordsInUse
    BY IndexIsWordAndBit DEF bitset_get
  <2> HIDE DEF t
  <2> QED
    BY <1>2, <2>1
<1> HIDE DEF t
<1>4. sets[h] = NULL /\ sets' = [sets EXCEPT ![h] = t] /\ t # NULL
  BY <1>1, <1>2, NotNull DEF New, t
<1>5. h \notin InUse /\ InUse' = InUse \cup {h}
  BY <1>4 DEF InUse, Inv
<1>6. Members' = Members
  BY <1>3, <1>4 DEF Members, Inv
<1> QED
  BY <1>5, <1>6 DEF AbstractSets!New, Members, MembersOf

LEMMA SetIsSet ==
    ASSUME Inv, NEW h \in Handles, NEW b \in Indices, ReallocMayFail = FALSE, Set(h, b)
    PROVE  AbstractSets!Set(h, b)
<1>1. PICK junk \in Garbage, fails \in BOOLEAN :
        ~fails /\ sets' = [sets EXCEPT ![h] = bitset_set(sets[h], b, junk, fails)]
  BY DEF Set
<1> DEFINE t == bitset_set(sets[h], b, junk, fails)
<1>2. sets[h] # NULL /\ sets[h] \in WellFormed
  BY DEF Set, Inv
<1>3. t \in WellFormed /\ \A i \in Indices : bitset_get(t, i) <=> (i = b \/ bitset_get(sets[h], i))
  BY <1>1, <1>2, SetWellFormed
<1>4. MembersOf(t) = MembersOf(sets[h]) \cup {b}
  BY <1>3 DEF MembersOf
<1>5. sets' = [sets EXCEPT ![h] = t]
  BY <1>1
<1> HIDE DEF t
<1>6. h \in InUse /\ InUse' = InUse
  BY <1>2, <1>3, <1>5, NotNull DEF InUse, Inv
<1>7. Members' = [Members EXCEPT ![h] = @ \cup {b}]
  BY <1>2, <1>3, <1>4, <1>5, NotNull DEF Members, Inv
<1> QED
  BY <1>6, <1>7 DEF AbstractSets!Set, Members, MembersOf

LEMMA CloneIsClone ==
    ASSUME Inv, NEW h \in Handles, NEW g \in Handles, Clone(h, g)
    PROVE  AbstractSets!Clone(h, g)
<1> DEFINE trimmed(junk) == IF sets[h].sizeIsSticky THEN sets[h] ELSE trimToSize(sets[h], junk)
<1>1. PICK junk \in Garbage :
        sets' = [sets EXCEPT ![h] = trimmed(junk), ![g] = dolly(trimmed(junk), junk)]
  BY DEF Clone
<1> DEFINE s == trimmed(junk)
           t == dolly(s, junk)
<1>2. sets[h] # NULL /\ sets[g] = NULL /\ h # g /\ sets[h] \in WellFormed
  BY DEF Clone, Inv
<1>3. s \in WellFormed /\ \A i \in Indices : bitset_get(s, i) <=> bitset_get(sets[h], i)
  BY <1>1, <1>2, TrimWellFormed
<1>4. t \in WellFormed /\ \A i \in Indices : bitset_get(t, i) <=> bitset_get(s, i)
  BY <1>3, DollyWellFormed
<1>5. MembersOf(s) = MembersOf(sets[h]) /\ MembersOf(t) = MembersOf(sets[h])
  BY <1>3, <1>4 DEF MembersOf
<1>6. sets' = [sets EXCEPT ![h] = s, ![g] = t]
  BY <1>1
<1> HIDE DEF t
<1>7. h \in InUse /\ g \notin InUse /\ InUse' = InUse \cup {g}
  BY <1>2, <1>3, <1>4, <1>6, NotNull DEF InUse, Inv
<1>8. Members' = [Members EXCEPT ![g] = Members[h]]
  BY <1>2, <1>3, <1>4, <1>5, <1>6, NotNull DEF Members, Inv
<1> QED
  BY <1>7, <1>8 DEF AbstractSets!Clone, Members, MembersOf

LEMMA FreeIsFree ==
    ASSUME Inv, NEW h \in Handles, Free(h)
    PROVE  AbstractSets!Free(h)
<1>1. sets[h] # NULL /\ sets' = [sets EXCEPT ![h] = NULL]
  BY DEF Free
<1>2. h \in InUse /\ InUse' = InUse \ {h}
  BY <1>1 DEF InUse, Inv
<1>3. Members' = [Members EXCEPT ![h] = {}]
  BY <1>1 DEF Members, Inv
<1> QED
  BY <1>2, <1>3 DEF AbstractSets!Free, Members, MembersOf

\* The arrays of words implement sets of indices that are independent of each
\* other, however they are grown, trimmed and cloned.
THEOREM Refinement ==
    ASSUME EnoughWords, ReallocMayFail = FALSE
    PROVE  Spec => ImplementsSets
<1>1. Init => AbstractSets!Init
  BY DEF Init, AbstractSets!Init, InUse
<1>2. Inv /\ [Next]_sets => [AbstractSets!Next]_(AbstractSets!absVars)
  <2> SUFFICES ASSUME Inv, [Next]_sets PROVE [AbstractSets!Next]_(AbstractSets!absVars)
    OBVIOUS
  <2>1. CASE Next
    BY <2>1, NewIsNew, SetIsSet, CloneIsClone, FreeIsFree DEF Next, AbstractSets!Next
  <2>2. CASE UNCHANGED sets
    BY <2>2 DEF InUse, AbstractSets!absVars
  <2> QED
    BY <2>1, <2>2
<1> QED
  BY <1>1, <1>2, Invariance, PTL DEF Spec, ImplementsSets, AbstractSets!Spec
=============================================================================
