------------------------------ MODULE ZeroCounts ------------------------------
(***************************************************************************)
(* Counting zeros: getNLZ of nlz.c, the zero bytes in front of a hash, and *)
(* numberOfLeadingZeros and numberOfTrailingZeros of numsys.c, the zero    *)
(* bits of a word at either end by halving it.                             *)
(***************************************************************************)
EXTENDS Calls, Words

CONSTANTS LongSize,     \* the bytes of a long: 8
          Halves,       \* the widths that the ladder takes off: <<16, 8, 4, 2>>
          Hashes,       \* what getNLZ is called with
          CountedWords  \* what the other two are called with

ASSUME HalvesAssumption ==
    /\ LongSize \in Nat \ {0}
    /\ Halves \in Seq(Nat) /\ Len(Halves) > 0 /\ Halves[Len(Halves)] = 2
    /\ \A k \in 1 .. Len(Halves) - 1 : Halves[k] = 2 * Halves[k + 1]

VARIABLES lnlz, nlz     \* the counters of getNLZ; nlz is the result of all three

zeroVars == <<lnlz, nlz>>

IntSize == 2 * Halves[1]

\* Hashes are bytes, and the words that are counted have IntSize bits.
ASSUME CountedAssumption ==
    /\ Hashes \subseteq Seq(0 .. 255)
    /\ CountedWords \subseteq WordOf(IntSize) /\ PowersTo(2, IntSize)

ZeroCalls ==
    {[f |-> "getNLZ", ripe |-> ripe] : ripe \in Hashes}
    \cup {[f |-> g, i |-> i] :
            g \in {"numberOfLeadingZeros", "numberOfTrailingZeros"}, i \in CountedWords}

ZeroIdle == lnlz = 0 /\ nlz = 0

-----------------------------------------------------------------------------
\* Slips a change to this code could make.

LimitSame(ripe) == Len(ripe)            \* the limit in bytes for that in longs
LadderStrict(i) ==                      \* > for >=, as at the other end
    LET rung[k \in 0 .. Len(Halves)] ==
          IF k = 0 THEN [n |-> IntSize, i |-> i]
          ELSE LET r == rung[k - 1]
               IN  IF r.i > 2^Halves[k]
                   THEN [n |-> r.n - Halves[k], i |-> r.i \div 2^Halves[k]]
                   ELSE r
    IN  rung[Len(Halves)]

-----------------------------------------------------------------------------
(* getNLZ *)

longlimit(ripe) == Len(ripe) \div LongSize

\* What is read behind the hash is used only where longlimit says no as well.
LongIsZero(ripe, at) ==
    \A k \in at + 1 .. at + LongSize : k <= Len(ripe) => ripe[k] = 0

\* A byte further, although a long was looked at.
SkipLong ==
    /\ Called("getNLZ")
    /\ LongIsZero(call.ripe, lnlz)
    /\ lnlz < longlimit(call.ripe)
    /\ lnlz' = lnlz + 1
    /\ UNCHANGED <<call, pc, nlz>>

\* And each of those bytes counts as a long.
LongsSkipped ==
    /\ Called("getNLZ")
    /\ LongIsZero(call.ripe, lnlz) => lnlz >= longlimit(call.ripe)
    /\ nlz' = lnlz * LongSize
    /\ pc' = "bytes"
    /\ UNCHANGED <<call, lnlz>>

ByteIsZero == nlz < Len(call.ripe) /\ call.ripe[nlz + 1] = 0

SkipByte ==
    /\ pc = "bytes" /\ ByteIsZero
    /\ nlz' = nlz + 1
    /\ UNCHANGED <<call, pc, lnlz>>

BytesSkipped ==
    /\ pc = "bytes" /\ ~ByteIsZero
    /\ Return
    /\ UNCHANGED <<call, zeroVars>>

-----------------------------------------------------------------------------
(* numberOfLeadingZeros, numberOfTrailingZeros *)

\* Half of what is left is taken off wherever there is a bit in it.
LeadingLadder(i) ==
    LET rung[k \in 0 .. Len(Halves)] ==
          IF k = 0 THEN [n |-> IntSize, i |-> i]
          ELSE LET r == rung[k - 1]
               IN  IF r.i >= 2^Halves[k]
                   THEN [n |-> r.n - Halves[k], i |-> r.i \div 2^Halves[k]]
                   ELSE r
    IN  rung[Len(Halves)]

numberOfLeadingZeros(i) ==
    IF i = 0 THEN IntSize ELSE LeadingLadder(i).n - LeadingLadder(i).i \div 2

\* ~i & (i - 1): ones where i has zeros below its lowest one.
Below(i) == And(2^IntSize - 1 - i, (i - 1) % 2^IntSize, IntSize)

TrailingLadder(i) ==
    LET rung[k \in 0 .. Len(Halves)] ==
          IF k = 0 THEN [n |-> 1, i |-> i]
          ELSE LET r == rung[k - 1]
               IN  IF r.i > 2^Halves[k]
                   THEN [n |-> r.n + Halves[k], i |-> r.i \div 2^Halves[k]]
                   ELSE r
    IN  rung[Len(Halves)]

numberOfTrailingZeros(i) ==
    IF Below(i) = 0 THEN 0
    ELSE TrailingLadder(Below(i)).n + TrailingLadder(Below(i)).i \div 2

CountBits ==
    /\ Called("numberOfLeadingZeros") \/ Called("numberOfTrailingZeros")
    /\ nlz' = IF call.f = "numberOfLeadingZeros"
              THEN numberOfLeadingZeros(call.i) ELSE numberOfTrailingZeros(call.i)
    /\ Return
    /\ UNCHANGED <<call, lnlz>>

ZeroNext == SkipLong \/ LongsSkipped \/ SkipByte \/ BytesSkipped \/ CountBits

-----------------------------------------------------------------------------
(* Properties *)

\* Every variable has its type.
ZeroTypeOK == lnlz \in Nat /\ nlz \in Nat

\* The zeros at the front of s.
FrontZeros(s) == CHOOSE n \in 0 .. Len(s) :
                    /\ \A k \in 1 .. n : s[k] = 0
                    /\ n < Len(s) => s[n + 1] # 0

\* The bits of i from the highest on, or from the lowest.
FromHighest(i) == [k \in 1 .. IntSize |-> Bit(i, IntSize - k)]
FromLowest(i)  == [k \in 1 .. IntSize |-> Bit(i, k - 1)]

\* getNLZ never counts too few zeros or beyond its limit, and is right where a
\* long at most is zero or the limit is less than two longs: a longer row of
\* zeros it takes for more, because it goes on by bytes and counts longs.  The
\* ladder for the zeros at the end is right for every word; the one for those in
\* front starts one too high and so gives one more than there are, but for the
\* word 0, and never less at any power of two.
ZerosCounted ==
    /\ Returned("getNLZ") =>
          LET zeros == FrontZeros(call.ripe)
          IN  /\ nlz \in zeros .. Len(call.ripe)
              /\ zeros <= LongSize \/ Len(call.ripe) < 2 * LongSize => nlz = zeros
    /\ Returned("numberOfLeadingZeros") =>
          nlz = FrontZeros(FromHighest(call.i)) + (IF call.i = 0 THEN 0 ELSE 1)
    /\ Returned("numberOfTrailingZeros") => nlz = FrontZeros(FromLowest(call.i))
=============================================================================
