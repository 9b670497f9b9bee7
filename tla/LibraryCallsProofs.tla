-------------------------- MODULE LibraryCallsProofs --------------------------
(***************************************************************************)
(* The Mersenne Twister regenerates its table in place and is nevertheless *)
(* its recurrence, and its table never dies out.  Splitting and shuffling  *)
(* are right for texts, arrays, words and shifts of any size, and so is    *)
(* java.util.Random: undoing its steps, what the bounded and the wide      *)
(* draws return, and the test that rejects draws, which relies on          *)
(* overflow; so are the counts of zeros and snprintUInt64, which finds its *)
(* digits without dividing.                                                *)
(***************************************************************************)
EXTENDS LibraryCalls, VarintProofs, FiniteSetTheorems

-----------------------------------------------------------------------------
(* The Mersenne Twister *)

Index == 0 .. NN - 1

\* A table of NN words, whatever they are.
IsTable(t) == t = [n \in Index |-> t[n]]

\* The word of the new table that the recurrence has at n.
Twisted(n) == Twist(Stream(n), Stream(n + 1), Stream(n + MM))

TablesOK == IsTable(mt) /\ IsTable(previous)

PlacesOK ==
    /\ mti \in 0 .. NN + 1
    /\ then \in {"ready", "key", "refill"}
    /\ pc = "init" => mti \in 1 .. NN
    /\ pc \in {"key", "mix", "refill"} => mti = NN
    /\ pc = "draw" => mti = 0
    /\ pc = "refill" => row \in Index

\* While the table is regenerated the words in front of row are new and the
\* others still the old ones.
HalfNew ==
    pc = "refill" =>
        \A n \in Index : mt[n] = IF n < row THEN Twisted(n) ELSE previous[n]

\* While numbers are given out all words are.
AllNew ==
    (~Seeding /\ pc # "refill" /\ mti < NN) => \A n \in Index : mt[n] = Twisted(n)

TwisterInv == TablesOK /\ PlacesOK /\ HalfNew /\ AllNew

-----------------------------------------------------------------------------
LEMMA Sizes2 == NN \in Nat /\ MM \in Nat /\ 0 < MM /\ MM < NN /\ 0 \in Index /\ NN - 1 \in Index
BY TwisterAssumption DEF Index

LEMMA TableExcept ==
    ASSUME NEW t, IsTable(t), NEW k, NEW w
    PROVE  /\ IsTable([t EXCEPT ![k] = w])
           /\ \A n \in Index : n # k => [t EXCEPT ![k] = w][n] = t[n]
           /\ k \in Index => [t EXCEPT ![k] = w][k] = w
BY DEF IsTable

\* Where regenerating stands, one word further.
LEMMA RefillWordKeeps ==
    ASSUME TwisterInv, RefillWord
    PROVE  TwisterInv'
<1> USE Sizes2
<1>1. /\ pc = "refill" /\ pc' = "refill" /\ row \in Index /\ row < NN - 1
      /\ row' = row + 1 /\ mti' = mti /\ then' = then /\ previous' = previous
      /\ mt' = [mt EXCEPT ![row] = Twist(mt[row], mt[row + 1], mt[Far(row)])]
      /\ mti = NN
  BY DEF TwisterInv, PlacesOK, RefillWord
<1>2. TablesOK'
  BY <1>1, TableExcept DEF TwisterInv, TablesOK, IsTable
<1>3. PlacesOK'
  BY <1>1 DEF TwisterInv, PlacesOK, Index
<1>4. \A n \in Index : n # row => mt'[n] = mt[n]
  BY <1>1, TableExcept DEF TwisterInv, TablesOK
<1>5. mt'[row] = Twist(mt[row], mt[row + 1], mt[Far(row)])
  BY <1>1, TableExcept DEF TwisterInv, TablesOK
<1>6. \A n \in Index : mt[n] = IF n < row THEN Twisted(n) ELSE previous[n]
  BY <1>1 DEF TwisterInv, HalfNew
<1>7. \A n \in 0 .. row : /\ Stream(n)' = Stream(n)
                          /\ Stream(n + 1)' = Stream(n + 1)
                          /\ Stream(n + MM)' = Stream(n + MM)
  BY <1>1, <1>4 DEF Stream, Index
<1>8. mt[row] = Stream(row) /\ mt[row + 1] = Stream(row + 1)
  BY <1>1, <1>6 DEF Stream, Index
<1>9. mt[Far(row)] = Stream(row + MM)
  BY <1>1, <1>6 DEF Stream, Index, Far
<1>10. \A n \in Index : mt'[n] = IF n < row + 1 THEN Twisted(n)' ELSE previous[n]
  <2> SUFFICES ASSUME NEW n \in Index
               PROVE  mt'[n] = IF n < row + 1 THEN Twisted(n)' ELSE previous[n]
    OBVIOUS
  <2>1. CASE n < row
    <3>1. Twisted(n)' = Twisted(n)
      BY <2>1, <1>1, <1>7 DEF Twisted, Index
    <3> QED BY <3>1, <2>1, <1>1, <1>4, <1>6 DEF Index
  <2>2. CASE n = row
    <3>1. Twisted(n)' = Twist(Stream(row), Stream(row + 1), Stream(row + MM))
      BY <2>2, <1>1, <1>7 DEF Twisted, Index
    <3> QED BY <3>1, <2>2, <1>1, <1>5, <1>8, <1>9 DEF Index
  <2>3. CASE n > row
    BY <2>3, <1>1, <1>4, <1>6 DEF Index
  <2> QED BY <2>1, <2>2, <2>3, <1>1 DEF Index
<1>11. HalfNew'
  BY <1>10, <1>1 DEF HalfNew
<1>12. AllNew'
  BY <1>1 DEF AllNew
<1> QED BY <1>2, <1>3, <1>11, <1>12 DEF TwisterInv

\* The last word of a table is the first that needs two new ones.
LEMMA RefillLastKeeps ==
    ASSUME TwisterInv, RefillLast
    PROVE  TwisterInv'
<1> USE Sizes2
<1>1. /\ pc = "refill" /\ pc' = "draw" /\ row = NN - 1
      /\ mti' = 0 /\ then' = then /\ previous' = previous
      /\ mt' = [mt EXCEPT ![NN - 1] = Twist(mt[NN - 1], mt[0], mt[MM - 1])]
  BY DEF TwisterInv, PlacesOK, RefillLast
<1>2. TablesOK'
  BY <1>1, TableExcept DEF TwisterInv, TablesOK, IsTable
<1>3. PlacesOK'
  BY <1>1 DEF TwisterInv, PlacesOK, Index
<1>4. \A n \in Index : n # NN - 1 => mt'[n] = mt[n]
  BY <1>1, TableExcept DEF TwisterInv, TablesOK
<1>5. mt'[NN - 1] = Twist(mt[NN - 1], mt[0], mt[MM - 1])
  BY <1>1, TableExcept DEF TwisterInv, TablesOK
<1>6. \A n \in Index : mt[n] = IF n < NN - 1 THEN Twisted(n) ELSE previous[n]
  BY <1>1 DEF TwisterInv, HalfNew
<1>7. \A n \in Index : /\ Stream(n)' = Stream(n)
                       /\ Stream(n + 1)' = Stream(n + 1)
                       /\ Stream(n + MM)' = Stream(n + MM)
  BY <1>1, <1>4 DEF Stream, Index
<1>8. mt[NN - 1] = Stream(NN - 1) /\ mt[0] = Stream(NN) /\ mt[MM - 1] = Stream(NN - 1 + MM)
  BY <1>1, <1>6 DEF Stream, Index
<1>9. \A n \in Index : mt'[n] = Twisted(n)'
  <2> SUFFICES ASSUME NEW n \in Index
               PROVE  mt'[n] = Twisted(n)'
    OBVIOUS
  <2>1. Twisted(n)' = Twisted(n)
    BY <1>7 DEF Twisted
  <2>2. CASE n < NN - 1
    BY <2>1, <2>2, <1>4, <1>6
  <2>3. CASE n = NN - 1
    BY <2>1, <2>3, <1>5, <1>8 DEF Twisted
  <2> QED BY <2>2, <2>3 DEF Index
<1>10. HalfNew' /\ AllNew'
  BY <1>1, <1>9 DEF HalfNew, AllNew
<1> QED BY <1>2, <1>3, <1>10 DEF TwisterInv

\* While it is seeded nothing is known of the table but that it is one.
LEMMA SeedingKeeps ==
    ASSUME TwisterInv,
           CallInit \/ InitWord \/ CallInitByArray \/ MixKey \/ KeyMixed \/ MixAgain \/ CallUnseeded
    PROVE  TwisterInv'
<1> USE Sizes2
<1>1. Seeding' /\ pc' # "refill" /\ previous' = previous
  BY DEF CallInit, InitWord, CallInitByArray, MixKey, KeyMixed, MixAgain, CallUnseeded, StartInit, Seeding
<1>2. mt' = mt \/ \E k, w : mt' = [mt EXCEPT ![k] = w] \/ \E v : mt' = [mt EXCEPT ![k] = w, ![0] = v]
  BY DEF CallInit, InitWord, CallInitByArray, MixKey, KeyMixed, MixAgain, CallUnseeded, StartInit, Mix
<1>3. TablesOK'
  BY <1>1, <1>2 DEF TwisterInv, TablesOK, IsTable
<1>4. PlacesOK'
  BY DEF TwisterInv, PlacesOK, CallInit, InitWord, CallInitByArray, MixKey, KeyMixed, MixAgain, CallUnseeded, StartInit
<1> QED BY <1>1, <1>3, <1>4 DEF TwisterInv, HalfNew, AllNew

LEMMA InitDoneKeeps ==
    ASSUME TwisterInv, InitDone
    PROVE  TwisterInv'
<1> USE Sizes2
<1>1. pc' = then /\ mti = NN /\ mti' = mti /\ mt' = mt /\ previous' = mt /\ then' = then
      /\ (pc' = "refill" => row' = 0)
  BY DEF InitDone
<1>2. TablesOK' /\ PlacesOK'
  BY <1>1 DEF TwisterInv, TablesOK, PlacesOK, IsTable
<1>3. HalfNew' /\ AllNew'
  BY <1>1 DEF HalfNew, AllNew, Index
<1> QED BY <1>2, <1>3 DEF TwisterInv

LEMMA InitByArrayDoneKeeps ==
    ASSUME TwisterInv, InitByArrayDone
    PROVE  TwisterInv'
<1> USE Sizes2
<1>1. pc = "mix" /\ pc' = "ready" /\ mti' = mti /\ mti = NN /\ previous' = previous /\ then' = then
      /\ mt' = [mt EXCEPT ![0] = 2^(WordBits - 1)]
  BY DEF InitByArrayDone, TwisterInv, PlacesOK
<1>2. TablesOK'
  BY <1>1, TableExcept DEF TwisterInv, TablesOK, IsTable
<1>3. PlacesOK' /\ HalfNew' /\ AllNew'
  BY <1>1 DEF TwisterInv, PlacesOK, HalfNew, AllNew
<1> QED BY <1>2, <1>3 DEF TwisterInv

LEMMA CallUsedUpKeeps ==
    ASSUME TwisterInv, CallUsedUp
    PROVE  TwisterInv'
<1> USE Sizes2
<1>1. pc' = "refill" /\ mti = NN /\ mti' = mti /\ mt' = mt /\ previous' = mt /\ then' = then /\ row' = 0
  BY DEF CallUsedUp
<1>2. TablesOK' /\ PlacesOK'
  BY <1>1 DEF TwisterInv, TablesOK, PlacesOK, IsTable
<1>3. HalfNew' /\ AllNew'
  BY <1>1 DEF HalfNew, AllNew, Index
<1> QED BY <1>2, <1>3 DEF TwisterInv

LEMMA GiveKeeps ==
    ASSUME TwisterInv, GiveFirst \/ GiveNext
    PROVE  TwisterInv'
<1> USE Sizes2
<1>1. /\ pc \in {"draw", "ready"} /\ pc' = "ready" /\ mti < NN /\ mti' = mti + 1
      /\ mt' = mt /\ previous' = previous /\ then' = then
  BY DEF GiveFirst, GiveNext, Give, TwisterInv, PlacesOK
<1>2. \A n \in Index : mt[n] = Twisted(n)
  BY <1>1 DEF TwisterInv, AllNew, Seeding
<1>3. \A n \in Index : mt'[n] = Twisted(n)'
  BY <1>1, <1>2 DEF Twisted, Stream
<1>4. TablesOK' /\ PlacesOK'
  BY <1>1 DEF TwisterInv, TablesOK, PlacesOK, IsTable
<1> QED BY <1>1, <1>3, <1>4 DEF TwisterInv, HalfNew, AllNew

\* Nothing is done to the twister.
LEMMA IdleKeeps ==
    ASSUME TwisterInv, UNCHANGED twisterVars,
           pc' = pc \/ (pc \notin TwisterPlaces \ {"ready"} /\ pc' \notin TwisterPlaces \ {"ready"})
    PROVE  TwisterInv'
<1>1. mt' = mt /\ mti' = mti /\ previous' = previous /\ then' = then /\ row' = row
  BY DEF twisterVars
<1>2. (Seeding' <=> Seeding) /\ (pc' = "refill" <=> pc = "refill")
  BY DEF Seeding, TwisterPlaces
<1>3. TablesOK'
  BY <1>1 DEF TwisterInv, TablesOK, IsTable
<1>4. PlacesOK'
  BY <1>1 DEF TwisterInv, PlacesOK, TwisterPlaces, Index
<1>5. \A n \in Index : Twisted(n)' = Twisted(n)
  BY <1>1 DEF Twisted, Stream
<1>6. HalfNew'
  BY <1>1, <1>2, <1>5 DEF TwisterInv, HalfNew
<1>7. AllNew'
  BY <1>1, <1>2, <1>5 DEF TwisterInv, AllNew
<1> QED BY <1>3, <1>4, <1>6, <1>7 DEF TwisterInv

-----------------------------------------------------------------------------
(* The other functions *)

\* The steps of the other functions are never at one of the twister's places.
Elsewhere == pc \notin TwisterPlaces /\ pc' \notin TwisterPlaces

LEMMA ListElsewhere == ASSUME ListNext PROVE Elsewhere
BY DEF ListNext, MeasureLength, Measure, EncodeLength, EncodeNumber, DecodeLength, DecodeNumber,
       EndOfList, Called, Return, Elsewhere, TwisterPlaces

LEMMA AddressElsewhere == ASSUME AddressNext PROVE Elsewhere
BY DEF AddressNext, Assemble, Reject, Divide, Trim, Lead, Finish, Called, Return, Elsewhere, TwisterPlaces

LEMMA TextElsewhere == ASSUME TextNext PROVE Elsewhere
BY DEF TextNext, EnterText, Cut, Terminate, WidePair, WritePair, Narrow, NarrowPair, Single, WriteDigit,
       Zero, Begin, Digit, Sign, Swap, Reversed, EncodeGroup, EndText, HexByte, EndHex,
       MeasureItem, AllocateJoin, JoinItem, EndJoin, TextFunctions, Called, Return, Elsewhere, TwisterPlaces

LEMMA ZeroElsewhere == ASSUME ZeroNext PROVE Elsewhere
BY DEF ZeroNext, SkipLong, LongsSkipped, SkipByte, BytesSkipped, CountBits,
       Called, Return, Elsewhere, TwisterPlaces

LEMMA ArrayElsewhere == ASSUME ArrayNext PROVE Elsewhere
BY DEF ArrayNext, BeginSplit, BeginFails, GrowFails, CopyToken, TrimArray, TrimToNothing, FreeAgain, Deliver, DeliverFails, FailWith,
       Called, Return, Elsewhere, TwisterPlaces

LEMMA RandomElsewhere == ASSUME RandomNext PROVE Elsewhere
BY DEF RandomNext, Enter, RefuseBound, DrawFirst, DrawAgain, Accept, Result, Next1, Next2,
       Called, Return, Elsewhere, TwisterPlaces

LEMMA ShuffleElsewhere == ASSUME ShuffleNext \/ Disturb PROVE Elsewhere
BY DEF ShuffleNext, StartShuffle, LoadSeed, SwapNext, DivideByZero, Shuffled, Disturb, Swapping,
       Called, Return, Elsewhere, TwisterPlaces

LEMMA OthersIdle ==
    ASSUME Next, ~TwisterStep
    PROVE  UNCHANGED twisterVars /\ Elsewhere
BY ListElsewhere, AddressElsewhere, TextElsewhere, ZeroElsewhere, ArrayElsewhere, RandomElsewhere,
   ShuffleElsewhere
   DEF Next, OwnStep, OtherThread, ListStep, AddressStep, TextStep, ZeroStep, ArrayStep, RandomStep, ShuffleStep
-----------------------------------------------------------------------------
(* The invariant *)

LEMMA TwisterInit ==
    ASSUME Init
    PROVE  TwisterInv
<1> USE Sizes2
<1>1. mt = [n \in 0 .. NN - 1 |-> 0] /\ mti = NN + 1 /\ row = 0 /\ then = "ready"
      /\ previous = [n \in 0 .. NN - 1 |-> 0] /\ pc = "call"
  BY DEF Init, Idle, TwisterIdle
<1>2. TablesOK /\ PlacesOK
  BY <1>1 DEF TablesOK, PlacesOK, IsTable, Index
<1> QED BY <1>1, <1>2 DEF TwisterInv, HalfNew, AllNew

LEMMA TwisterNextKeeps ==
    ASSUME TwisterInv, [Next]_vars
    PROVE  TwisterInv'
<1>1. CASE UNCHANGED vars
  BY <1>1, IdleKeeps DEF vars
<1>2. CASE Next /\ ~TwisterStep
  BY <1>2, OthersIdle, IdleKeeps DEF Elsewhere
<1>3. CASE TwisterStep
  <2>1. CASE Open \/ Leave
    BY <2>1, IdleKeeps DEF Open, Leave, Called, Return, TwisterPlaces
  <2>2. CASE CallInit \/ InitWord \/ CallInitByArray \/ MixKey \/ KeyMixed \/ MixAgain \/ CallUnseeded
    BY <2>2, SeedingKeeps
  <2>3. CASE InitDone
    BY <2>3, InitDoneKeeps
  <2>4. CASE InitByArrayDone
    BY <2>4, InitByArrayDoneKeeps
  <2>5. CASE CallUsedUp
    BY <2>5, CallUsedUpKeeps
  <2>6. CASE RefillWord
    BY <2>6, RefillWordKeeps
  <2>7. CASE RefillLast
    BY <2>7, RefillLastKeeps
  <2>8. CASE GiveFirst \/ GiveNext
    BY <2>8, GiveKeeps
  <2> QED BY <1>3, <2>1, <2>2, <2>3, <2>4, <2>5, <2>6, <2>7, <2>8 DEF TwisterStep, TwisterNext
<1> QED BY <1>1, <1>2, <1>3

\* When a number is given out, by the call that regenerated the table or by a
\* later one, every word of the table is what the recurrence makes of the words
\* before it, those of the old table and those of the new.
THEOREM TwisterCorrect == Spec => []TwisterInv
<1>1. Init => TwisterInv
  BY TwisterInit
<1>2. TwisterInv /\ [Next]_vars => TwisterInv'
  BY TwisterNextKeeps
<1> QED BY <1>1, <1>2, PTL DEF Spec

-----------------------------------------------------------------------------
(* The refinement *)

\* Giving a number out is a step of the recurrence.
LEMMA GiveDraws ==
    ASSUME TwisterInv, GiveFirst \/ GiveNext
    PROVE  Recurrence!DrawNext
<1> USE Sizes2
<1>1. /\ ~Seeding /\ ~Seeding' /\ pc # "refill" /\ pc' # "refill"
      /\ mti \in Index /\ mti' = mti + 1 /\ mt' = mt /\ previous' = previous
      /\ given' = Temper(mt[mti]) /\ drawn' = drawn + 1
  BY DEF GiveFirst, GiveNext, Give, TwisterInv, PlacesOK, Seeding, Index
<1>2. Window = [n \in Index |-> Stream(mti + n)]
  BY <1>1 DEF Window, Index
<1>3. \A n : Stream(n)' = Stream(n)
  BY <1>1 DEF Stream
<1>4. mt[mti] = Twisted(mti)
  BY <1>1 DEF TwisterInv, AllNew, Index
<1>5. Twist(Window[0], Window[1], Window[MM]) = mt[mti]
  <2>1. Window[0] = Stream(mti) /\ Window[1] = Stream(mti + 1) /\ Window[MM] = Stream(mti + MM)
    BY <1>1, <1>2 DEF Index
  <2> QED BY <2>1, <1>4 DEF Twisted
<1>6. Window' = [n \in Index |-> IF n = NN - 1 THEN mt[mti] ELSE Window[n + 1]]
  <2>1. \A n \in Index : (IF n = NN - 1 THEN mt[mti] ELSE Window[n + 1]) = Stream(mti + 1 + n)
    <3> SUFFICES ASSUME NEW n \in Index
                 PROVE  (IF n = NN - 1 THEN mt[mti] ELSE Window[n + 1]) = Stream(mti + 1 + n)
      OBVIOUS
    <3>1. CASE n = NN - 1
      BY <3>1, <1>1 DEF Stream, Index
    <3>2. CASE n # NN - 1
      <4>1. n + 1 \in Index /\ mti + (n + 1) = mti + 1 + n
        BY <3>2, <1>1 DEF Index
      <4> QED BY <4>1, <3>2, <1>2
    <3> QED BY <3>1, <3>2
  <2>2. CASE mti + 1 < NN
    <3>1. Window' = [n \in Index |-> Stream(mti + 1 + n)]
      BY <1>1, <1>3, <2>2 DEF Window, Index
    <3> QED BY <3>1, <2>1
  <2>3. CASE mti + 1 = NN
    <3>1. Window' = [n \in Index |-> mt[n]]
      BY <1>1, <2>3 DEF Window, TwisterInv, TablesOK, IsTable
    <3>2. \A n \in Index : Stream(mti + 1 + n) = mt[n]
      BY <2>3 DEF Stream, Index
    <3> QED BY <3>1, <3>2, <2>1
  <2> QED BY <1>1, <2>2, <2>3 DEF Index
<1>7. Seeding' = Seeding
  BY <1>1 DEF Seeding
<1>8. /\ Window' = [n \in 0 .. NN - 1 |->
           IF n = NN - 1 THEN Twist(Window[0], Window[1], Window[MM]) ELSE Window[n + 1]]
      /\ given' = Temper(Twist(Window[0], Window[1], Window[MM]))
  BY <1>1, <1>5, <1>6 DEF Index
<1> QED BY <1>1, <1>7, <1>8 DEF Recurrence!DrawNext

\* Every other step of the twister exchanges the words or leaves them alone.
LEMMA TwisterStepDraws ==
    ASSUME TwisterInv, TwisterStep
    PROVE  [Recurrence!Seed \/ Recurrence!DrawNext]_Recurrence!streamVars
<1> USE Sizes2
<1>1. CASE Open \/ Leave
  <2>1. Window' = Window /\ (Seeding' <=> Seeding)
    BY <1>1 DEF Open, Leave, Called, Return, twisterVars, Window, Stream, Seeding
  <2>2. (Seeding' = Seeding) /\ given' = given /\ drawn' = drawn
    BY <1>1, <2>1 DEF Open, Leave, Called, Return, twisterVars, Seeding
  <2> QED BY <2>1, <2>2 DEF Recurrence!streamVars
<1>2. CASE CallInit \/ InitWord \/ CallInitByArray \/ MixKey \/ KeyMixed \/ MixAgain \/ CallUnseeded
  <2>1. Seeding' /\ given' = given /\ drawn' = drawn
    BY <1>2 DEF CallInit, InitWord, CallInitByArray, MixKey, KeyMixed, MixAgain, CallUnseeded, StartInit, Seeding
  <2> QED BY <2>1 DEF Recurrence!Seed
<1>3. CASE InitDone \/ InitByArrayDone
  <2>1. Seeding /\ given' = given /\ drawn' = drawn
    BY <1>3 DEF InitDone, InitByArrayDone, Seeding
  <2> QED BY <2>1 DEF Recurrence!Seed
<1>4. CASE CallUsedUp
  <2>1. Window' = Window
    BY <1>4 DEF CallUsedUp, Window, Seeding
  <2>2. (Seeding' = Seeding) /\ given' = given /\ drawn' = drawn
    BY <1>4 DEF CallUsedUp, Seeding
  <2> QED BY <2>1, <2>2 DEF Recurrence!streamVars
<1>5. CASE RefillWord
  <2>1. Window' = Window
    BY <1>5 DEF RefillWord, Window
  <2>2. (Seeding' = Seeding) /\ given' = given /\ drawn' = drawn
    BY <1>5 DEF RefillWord, Seeding
  <2> QED BY <2>1, <2>2 DEF Recurrence!streamVars
<1>6. CASE RefillLast
  <2>1. /\ pc = "refill" /\ pc' = "draw" /\ mti' = 0 /\ previous' = previous
        /\ given' = given /\ drawn' = drawn
    BY <1>6 DEF RefillLast
  <2>2. Window' = [n \in Index |-> previous[n]]
    BY <2>1 DEF Window, Seeding, Stream, Index
  <2>3. Window' = Window
    BY <2>1, <2>2 DEF Window, TwisterInv, TablesOK, IsTable
  <2>4. Seeding' = Seeding
    BY <2>1 DEF Seeding
  <2> QED BY <2>1, <2>3, <2>4 DEF Recurrence!streamVars
<1>7. CASE GiveFirst \/ GiveNext
  BY <1>7, GiveDraws
<1> QED BY <1>1, <1>2, <1>3, <1>4, <1>5, <1>6, <1>7 DEF TwisterStep, TwisterNext

LEMMA OthersDraw ==
    ASSUME UNCHANGED twisterVars, pc' = pc \/ Elsewhere
    PROVE  UNCHANGED Recurrence!streamVars
<1>1. Window' = Window
  BY DEF twisterVars, Elsewhere, Window, Stream, Seeding, TwisterPlaces
<1>2. (Seeding' = Seeding) /\ given' = given /\ drawn' = drawn
  BY DEF twisterVars, Elsewhere, Seeding, TwisterPlaces
<1> QED BY <1>1, <1>2 DEF Recurrence!streamVars

\* The generator is its recurrence, for a table of any size NN, any MM below it
\* and whatever the words are: seeded by either function or not at all, seeded
\* again in the middle of a table, and however often the table is regenerated.
THEOREM TwisterRefines == Spec => ImplementsStream
<1>1. Init => Recurrence!Init
  BY DEF Init, Idle, TwisterIdle, Recurrence!Init
<1>2. TwisterInv /\ [Next]_vars => [Recurrence!Seed \/ Recurrence!DrawNext]_Recurrence!streamVars
  <2>1. CASE UNCHANGED vars
    BY <2>1, OthersDraw DEF vars
  <2>2. CASE Next /\ ~TwisterStep /\ TwisterInv
    BY <2>2, OthersIdle, OthersDraw
  <2>3. CASE TwisterStep /\ TwisterInv
    BY <2>3, TwisterStepDraws
  <2> QED BY <2>1, <2>2, <2>3
<1> QED BY <1>1, <1>2, TwisterCorrect, PTL DEF Spec, ImplementsStream, Recurrence!Spec

-----------------------------------------------------------------------------
(* The functions keep out of each other's way *)

\* A call is one of those of its module.
CallKnown ==
    /\ call.f = "list" => call \in ListCalls
    /\ call.f \in AddressFunctions => call \in AddressCalls
    /\ call.f \in TextFunctions => call \in TextCalls
    /\ call.f \in ZeroFunctions => call \in ZeroCalls
    /\ call.f = "string_array_split" => call \in ArrayCalls
    /\ call.f \in RandomFunctions => call \in RandomCalls
    /\ call.f = "genrand64_int64" => call \in TwisterCalls
    /\ call.f = "shuffle" => call \in ShuffleCalls

\* A place belongs to the functions that have it.
PlaceKnown ==
    /\ pc \in ListPlaces => call.f = "list"
    /\ pc \in AddressPlaces => call.f \in AddressFunctions
    /\ pc \in TextPlaces => call.f \in TextFunctions
    /\ pc \in ZeroPlaces => call.f \in ZeroFunctions
    /\ pc \in SplitPlaces => call.f = "string_array_split"
    /\ pc \in RandomPlaces => call.f \in RandomFunctions
    /\ pc \in TwisterPlaces => call.f = "genrand64_int64"
    /\ pc \in ShufflePlaces => call.f = "shuffle"

WhereInv == CallKnown /\ PlaceKnown

LEMMA ListCall == ASSUME WhereInv, ListNext PROVE call.f = "list" /\ pc' \in ListPlaces \cup {"return"}
BY DEF ListNext, MeasureLength, Measure, EncodeLength, EncodeNumber, DecodeLength, DecodeNumber,
       EndOfList, Return, Called, WhereInv, PlaceKnown, ListPlaces

LEMMA AddressCall ==
    ASSUME WhereInv, AddressNext
    PROVE  call.f \in AddressFunctions /\ pc' \in AddressPlaces \cup {"return"}
BY DEF AddressNext, Assemble, Reject, Divide, Trim, Lead, Finish, Return, Called,
       WhereInv, PlaceKnown, AddressPlaces, AddressFunctions

LEMMA TextCall ==
    ASSUME WhereInv, TextNext
    PROVE  call.f \in TextFunctions /\ pc' \in TextPlaces \cup {"return"}
BY DEF TextNext, EnterText, Cut, Terminate, WidePair, WritePair, Narrow, NarrowPair, Single, WriteDigit,
       Zero, Begin, Digit, Sign, Swap, Reversed, EncodeGroup, EndText, HexByte, EndHex,
       MeasureItem, AllocateJoin, JoinItem, EndJoin, TextFunctions, Return, Called,
       WhereInv, PlaceKnown, TextPlaces

LEMMA ZeroCall ==
    ASSUME WhereInv, ZeroNext
    PROVE  call.f \in ZeroFunctions /\ pc' \in ZeroPlaces \cup {"call", "return"}
BY DEF ZeroNext, SkipLong, LongsSkipped, SkipByte, BytesSkipped, CountBits, Return, Called,
       WhereInv, PlaceKnown, ZeroPlaces, ZeroFunctions

LEMMA RandomCall ==
    ASSUME WhereInv, RandomNext
    PROVE  call.f \in RandomFunctions /\ pc' \in RandomPlaces \cup {"return"}
BY DEF RandomNext, Enter, RefuseBound, DrawFirst, DrawAgain, Accept, Result, Next1, Next2, Return, Called,
       WhereInv, PlaceKnown, RandomPlaces, RandomFunctions

LEMMA ArrayCall ==
    ASSUME WhereInv, ArrayNext
    PROVE  call.f = "string_array_split" /\ pc' \in SplitPlaces \cup {"return", "crashed"}
BY DEF ArrayNext, BeginSplit, BeginFails, GrowFails, CopyToken, TrimArray, TrimToNothing, FreeAgain, Deliver, DeliverFails,
       FailWith, Return, Called, WhereInv, PlaceKnown, SplitPlaces

LEMMA TwisterCall ==
    ASSUME WhereInv, TwisterInv, TwisterNext
    PROVE  call.f = "genrand64_int64" /\ pc' \in TwisterPlaces \cup {"return"}
BY DEF TwisterNext, Open, CallInit, InitWord, InitDone, CallInitByArray, MixKey, KeyMixed, MixAgain,
       InitByArrayDone, CallUnseeded, CallUsedUp, RefillWord, RefillLast, GiveFirst, GiveNext, Leave,
       StartInit, Return, Give, Called, TwisterInv, PlacesOK, WhereInv, PlaceKnown, TwisterPlaces

LEMMA ShuffleCall ==
    ASSUME WhereInv, ShuffleNext \/ Disturb
    PROVE  call.f = "shuffle" /\ pc' \in ShufflePlaces \cup {"return", "crashed"}
BY DEF ShuffleNext, StartShuffle, LoadSeed, SwapNext, DivideByZero, Shuffled, Disturb, Swapping, Return, Called,
       WhereInv, PlaceKnown, ShufflePlaces

LEMMA CallStays == ASSUME [Next]_vars PROVE call' = call
<1>1. ASSUME ListNext PROVE call' = call
  BY <1>1 DEF ListNext, MeasureLength, Measure, EncodeLength, EncodeNumber, DecodeLength, DecodeNumber, EndOfList
<1>2. ASSUME AddressNext PROVE call' = call
  BY <1>2 DEF AddressNext, Assemble, Reject, Divide, Trim, Lead, Finish
<1>3. ASSUME TextNext PROVE call' = call
  BY <1>3 DEF TextNext, EnterText, Cut, Terminate, WidePair, WritePair, Narrow, NarrowPair, Single, WriteDigit,
       Zero, Begin, Digit, Sign, Swap, Reversed, EncodeGroup, EndText, HexByte, EndHex,
       MeasureItem, AllocateJoin, JoinItem, EndJoin
<1>4. ASSUME ZeroNext PROVE call' = call
  BY <1>4 DEF ZeroNext, SkipLong, LongsSkipped, SkipByte, BytesSkipped, CountBits
<1>5. ASSUME RandomNext PROVE call' = call
  BY <1>5 DEF RandomNext, Enter, RefuseBound, DrawFirst, DrawAgain, Accept, Result, Next1, Next2
<1>6. ASSUME TwisterNext PROVE call' = call
  BY <1>6 DEF TwisterNext, Open, CallInit, InitWord, InitDone, CallInitByArray, MixKey, KeyMixed, MixAgain,
       InitByArrayDone, CallUnseeded, CallUsedUp, RefillWord, RefillLast, GiveFirst, GiveNext, Give, Leave
<1>7. ASSUME ArrayNext PROVE call' = call
  BY <1>7 DEF ArrayNext, BeginSplit, BeginFails, GrowFails, CopyToken, TrimArray, TrimToNothing, FreeAgain, Deliver, DeliverFails
<1>8. ASSUME ShuffleNext \/ Disturb PROVE call' = call
  BY <1>8 DEF ShuffleNext, StartShuffle, LoadSeed, SwapNext, DivideByZero, Shuffled, Disturb
<1>9. CASE UNCHANGED vars
  BY <1>9 DEF vars
<1> QED BY <1>1, <1>2, <1>3, <1>4, <1>5, <1>6, <1>7, <1>8, <1>9 DEF Next, OwnStep, OtherThread,
           ListStep, AddressStep, TextStep, ZeroStep, ArrayStep, RandomStep, TwisterStep, ShuffleStep

LEMMA WhereInit == ASSUME Init PROVE WhereInv
<1>1. CallKnown
  BY DEF Init, CallKnown, AddressFunctions, TextFunctions, ZeroFunctions, RandomFunctions, NextCalls,
         ListCalls, AddressCalls, TextCalls, ZeroCalls, ArrayCalls, RandomCalls, TwisterCalls, ShuffleCalls,
         encodeAddress, encodeV4Address, encodeV3Address, encodeShorterV3Address, encodeWIF,
         base58encode, Address, snprintUInt64, itoa, base64encode, parseHex, strjoin
<1>2. PlaceKnown
  BY DEF Init, PlaceKnown, ListPlaces, AddressPlaces, TextPlaces, TextFunctions, ZeroPlaces, SplitPlaces,
         RandomPlaces, TwisterPlaces, ShufflePlaces
<1> QED BY <1>1, <1>2 DEF WhereInv

LEMMA PlacesDisjoint ==
    ASSUME NEW p
    PROVE  /\ p \in ListPlaces => p \notin AddressPlaces \cup TextPlaces \cup ZeroPlaces \cup SplitPlaces
                                        \cup RandomPlaces \cup TwisterPlaces \cup ShufflePlaces
           /\ p \in AddressPlaces => p \notin TextPlaces \cup ZeroPlaces \cup SplitPlaces
                                        \cup RandomPlaces \cup TwisterPlaces \cup ShufflePlaces
           /\ p \in TextPlaces => p \notin ZeroPlaces \cup SplitPlaces
                                        \cup RandomPlaces \cup TwisterPlaces \cup ShufflePlaces
           /\ p \in ZeroPlaces => p \notin SplitPlaces \cup RandomPlaces \cup TwisterPlaces \cup ShufflePlaces
           /\ p \in SplitPlaces => p \notin RandomPlaces \cup TwisterPlaces \cup ShufflePlaces
           /\ p \in RandomPlaces => p \notin TwisterPlaces \cup ShufflePlaces
           /\ p \in TwisterPlaces => p \notin ShufflePlaces
           /\ p \in {"call", "return", "crashed"} =>
                  p \notin ListPlaces \cup AddressPlaces \cup TextPlaces \cup ZeroPlaces \cup SplitPlaces
                             \cup RandomPlaces \cup TwisterPlaces \cup ShufflePlaces
BY DEF ListPlaces, AddressPlaces, TextPlaces, TextFunctions, ZeroPlaces, SplitPlaces,
       RandomPlaces, TwisterPlaces, ShufflePlaces

LEMMA WhereKeeps == ASSUME WhereInv, TwisterInv, [Next]_vars PROVE WhereInv'
<1>1. call' = call
  BY CallStays
<1>2. CallKnown'
  BY <1>1 DEF WhereInv, CallKnown
<1>3. PlaceKnown'
  <2>1. CASE UNCHANGED vars
    BY <1>1, <2>1 DEF vars, WhereInv, PlaceKnown
  <2>2. CASE ListNext
    BY <1>1, <2>2, ListCall, PlacesDisjoint DEF PlaceKnown
  <2>3. CASE AddressNext
    BY <1>1, <2>3, AddressCall, PlacesDisjoint DEF PlaceKnown
  <2>4. CASE TextNext
    BY <1>1, <2>4, TextCall, PlacesDisjoint DEF PlaceKnown
  <2>5. CASE ZeroNext
    BY <1>1, <2>5, ZeroCall, PlacesDisjoint DEF PlaceKnown
  <2>6. CASE RandomNext
    BY <1>1, <2>6, RandomCall, PlacesDisjoint DEF PlaceKnown
  <2>7. CASE ArrayNext
    BY <1>1, <2>7, ArrayCall, PlacesDisjoint DEF PlaceKnown
  <2>8. CASE TwisterNext
    BY <1>1, <2>8, TwisterCall, PlacesDisjoint DEF PlaceKnown
  <2>9. CASE ShuffleNext \/ Disturb
    BY <1>1, <2>9, ShuffleCall, PlacesDisjoint DEF PlaceKnown
  <2> QED BY <2>1, <2>2, <2>3, <2>4, <2>5, <2>6, <2>7, <2>8, <2>9
          DEF Next, OwnStep, OtherThread, ListStep, AddressStep, TextStep, ZeroStep, ArrayStep, RandomStep,
              TwisterStep, ShuffleStep
<1> QED BY <1>2, <1>3 DEF WhereInv

LEMMA Where == Spec => []WhereInv
<1>1. Init => WhereInv
  BY WhereInit
<1>2. WhereInv /\ TwisterInv /\ [Next]_vars => WhereInv'
  BY WhereKeeps
<1> QED BY <1>1, <1>2, TwisterCorrect, PTL DEF Spec

\* What any step is to the functions of a module: one of theirs, or one that
\* leaves their variables alone and goes on with the call of another module.
LEMMA OnlyList ==
    ASSUME WhereInv, TwisterInv, [Next]_vars
    PROVE  ListNext \/ (UNCHANGED listVars /\ (call.f # "list" \/ UNCHANGED <<call, pc>>))
BY AddressCall, TextCall, ZeroCall, RandomCall, ArrayCall, TwisterCall, ShuffleCall
   DEF Next, OwnStep, OtherThread, ListStep, AddressStep, TextStep, ZeroStep, ArrayStep, RandomStep,
       TwisterStep, ShuffleStep, vars, AddressFunctions, TextFunctions, ZeroFunctions, RandomFunctions,
       NextCalls

LEMMA OnlyAddress ==
    ASSUME WhereInv, TwisterInv, [Next]_vars
    PROVE  AddressNext \/ (UNCHANGED addressVars /\ (call.f \notin AddressFunctions \/ UNCHANGED <<call, pc>>))
BY ListCall, TextCall, ZeroCall, RandomCall, ArrayCall, TwisterCall, ShuffleCall
   DEF Next, OwnStep, OtherThread, ListStep, AddressStep, TextStep, ZeroStep, ArrayStep, RandomStep,
       TwisterStep, ShuffleStep, vars, AddressFunctions, TextFunctions, ZeroFunctions, RandomFunctions,
       NextCalls

LEMMA OnlyText ==
    ASSUME WhereInv, TwisterInv, [Next]_vars
    PROVE  TextNext \/ (UNCHANGED textVars /\ (call.f \notin TextFunctions \/ UNCHANGED <<call, pc>>))
BY ListCall, AddressCall, ZeroCall, RandomCall, ArrayCall, TwisterCall, ShuffleCall
   DEF Next, OwnStep, OtherThread, ListStep, AddressStep, TextStep, ZeroStep, ArrayStep, RandomStep,
       TwisterStep, ShuffleStep, vars, AddressFunctions, TextFunctions, ZeroFunctions, RandomFunctions,
       NextCalls

LEMMA OnlyZero ==
    ASSUME WhereInv, TwisterInv, [Next]_vars
    PROVE  ZeroNext \/ (UNCHANGED zeroVars /\ (call.f \notin ZeroFunctions \/ UNCHANGED <<call, pc>>))
BY ListCall, AddressCall, TextCall, RandomCall, ArrayCall, TwisterCall, ShuffleCall
   DEF Next, OwnStep, OtherThread, ListStep, AddressStep, TextStep, ZeroStep, ArrayStep, RandomStep,
       TwisterStep, ShuffleStep, vars, AddressFunctions, TextFunctions, ZeroFunctions, RandomFunctions,
       NextCalls

LEMMA OnlyRandom ==
    ASSUME WhereInv, TwisterInv, [Next]_vars
    PROVE  RandomNext \/ (UNCHANGED randomVars /\ (call.f \notin RandomFunctions \/ UNCHANGED <<call, pc>>))
BY ListCall, AddressCall, TextCall, ZeroCall, ArrayCall, TwisterCall, ShuffleCall
   DEF Next, OwnStep, OtherThread, ListStep, AddressStep, TextStep, ZeroStep, ArrayStep, RandomStep,
       TwisterStep, ShuffleStep, vars, AddressFunctions, TextFunctions, ZeroFunctions, RandomFunctions,
       NextCalls

LEMMA OnlySplit ==
    ASSUME WhereInv, TwisterInv, [Next]_vars
    PROVE  ArrayNext \/ (UNCHANGED arrayVars /\ (call.f # "string_array_split" \/ UNCHANGED <<call, pc>>))
BY ListCall, AddressCall, TextCall, ZeroCall, RandomCall, TwisterCall, ShuffleCall
   DEF Next, OwnStep, OtherThread, ListStep, AddressStep, TextStep, ZeroStep, ArrayStep, RandomStep,
       TwisterStep, ShuffleStep, vars, AddressFunctions, TextFunctions, ZeroFunctions, RandomFunctions,
       NextCalls

LEMMA OnlyShuffle ==
    ASSUME WhereInv, TwisterInv, [Next]_vars
    PROVE  ShuffleNext \/ Disturb \/ (UNCHANGED shuffleVars /\ (call.f # "shuffle" \/ UNCHANGED <<call, pc>>))
BY ListCall, AddressCall, TextCall, ZeroCall, RandomCall, ArrayCall, TwisterCall
   DEF Next, OwnStep, OtherThread, ListStep, AddressStep, TextStep, ZeroStep, ArrayStep, RandomStep,
       TwisterStep, ShuffleStep, vars, AddressFunctions, TextFunctions, ZeroFunctions, RandomFunctions,
       NextCalls

-----------------------------------------------------------------------------
(* string_array_split *)

\* Where a split stands: what it has allocated is what its exits free.
SplitInv ==
    /\ call.f # "string_array_split" => ~badFree
    /\ call.f = "string_array_split" =>
          /\ pc \in SplitPlaces \cup {"call", "return", "crashed"}
          /\ call.tokens \in Nat /\ count \in Nat
          /\ pc = "call" => blocks = {} /\ count = 0
          /\ pc \in {"split", "trimmed"} => blocks = Everything
          /\ pc = "trimmed" => count > 1
          /\ pc \in {"call", "split", "trimmed"} => ~badFree /\ failed = "none"
          /\ pc = "undo" => /\ blocks = Copies(count) /\ ~badFree
                            /\ failed = "nothing left" /\ call.tokens < 2
          /\ SplitFreesAll

LEMMA Blocks ==
    /\ Work # Array /\ Datum # Work /\ Datum # Array
    /\ Stray # Work /\ Stray # Array /\ Stray # Datum
    /\ \A n : /\ Work \notin Copies(n) /\ Array \notin Copies(n)
              /\ Datum \notin Copies(n) /\ Stray \notin Copies(n)
              /\ Copy(n) \notin {Work, Array, Datum, Stray}
    /\ Copies(0) = {}
    /\ \A n \in Nat : Copies(n + 1) = Copies(n) \cup {Copy(n)} /\ Copy(n) \notin Copies(n)
BY DEF Work, Array, Datum, Stray, Copies, Copy

\* What is left of Everything without the copy of the text.
LEMMA WithoutWork ==
    /\ Everything \ {Work, Array} = Copies(count)
    /\ {Work, Array} \subseteq Everything
    /\ (Everything \cup {Datum}) \ {Work} = {Datum, Array} \cup Copies(count)
<1>1. /\ Work \notin Copies(count) /\ Array \notin Copies(count)
      /\ Work # Array /\ Datum # Work
  BY Blocks
<1> DEFINE C == Copies(count)
<1> HIDE DEF C
<1>2. Everything = {Work, Array} \cup C
  BY DEF Everything, C
<1>3. Work \notin C /\ Array \notin C
  BY <1>1 DEF C
<1>4. /\ Everything \ {Work, Array} = C
      /\ {Work, Array} \subseteq Everything
      /\ (Everything \cup {Datum}) \ {Work} = {Datum, Array} \cup C
  BY <1>1, <1>2, <1>3
<1> QED BY <1>4 DEF C

LEMMA SplitInit == ASSUME Init PROVE SplitInv
<1>1. blocks = {} /\ badFree = FALSE /\ count = 0 /\ failed = "none" /\ pc = "call"
  BY DEF Init, Idle, ArrayIdle
<1>2. call.f = "string_array_split" => call.tokens \in Nat
  BY WhereInit, TokenCountsAssumption DEF WhereInv, CallKnown, ArrayCalls
<1> QED BY <1>1, <1>2 DEF SplitInv, SplitFreesAll, SplitPlaces, Returned

\* A step of string_array_split that fails frees what is there.
LEMMA SplitStep ==
    ASSUME WhereInv, SplitInv, ArrayNext, call' = call
    PROVE  SplitInv'
<1>1. /\ call.f = "string_array_split" /\ pc \in SplitPlaces \cup {"call"}
      /\ call.tokens \in Nat /\ count \in Nat /\ ~badFree
      /\ pc = "call" => blocks = {} /\ count = 0
      /\ pc \in {"split", "trimmed"} => blocks = Everything
      /\ pc = "trimmed" => count > 1
      /\ pc # "undo" => failed = "none"
      /\ pc = "undo" => blocks = Copies(count) /\ failed = "nothing left" /\ call.tokens < 2
  <2>1. pc \in SplitPlaces \cup {"call"}
    BY DEF ArrayNext, BeginSplit, BeginFails, GrowFails, CopyToken, TrimArray, TrimToNothing,
           FreeAgain, Deliver, DeliverFails, Called, SplitPlaces
  <2> QED BY <2>1, ArrayCall DEF SplitInv, SplitPlaces
<1> DEFINE Goal == /\ pc' \in SplitPlaces \cup {"return", "crashed"} /\ count' \in Nat
                   /\ (pc' \in {"split", "trimmed"} =>
                          blocks' = Everything' /\ ~badFree' /\ failed' = "none")
                   /\ (pc' = "trimmed" => count' > 1)
                   /\ (pc' = "undo" => /\ blocks' = Copies(count') /\ ~badFree'
                                       /\ failed' = "nothing left" /\ call.tokens < 2)
                   /\ (badFree' => failed' = "data" \/ (failed' = "nothing left" /\ call.tokens < 2))
                   /\ (pc' = "crashed" => badFree')
                   /\ (pc' = "return" =>
                          CASE failed' = "none"         -> blocks' = {Datum, Array} \cup Copies(count')
                            [] failed' = "growth"       -> blocks' = Copies(count')
                            [] failed' = "nothing left" -> blocks' \subseteq Copies(count')
                            [] failed' = "data"         -> blocks' = IF badFree' THEN {Copy(count' - 1)} ELSE {}
                            [] OTHER                    -> blocks' = {})
<1> SUFFICES Goal
  BY <1>1 DEF SplitInv, SplitFreesAll, Returned, SplitPlaces
<1>2. CASE BeginSplit
  <2>1. pc = "call" /\ blocks = {} /\ count = 0 /\ count' = 0
    BY <1>1, <1>2 DEF BeginSplit, Called
  <2>2. CASE blocks' = {Work, Array} /\ pc' = "split" /\ UNCHANGED <<badFree, failed>>
    <3>1. Everything' = {Work, Array}
      BY <2>1, Blocks DEF Everything
    <3> QED BY <1>1, <2>1, <2>2, <3>1 DEF SplitPlaces
  <2>3. CASE FailWith("work", {})
    BY <1>1, <2>1, <2>3 DEF FailWith, Free, Return, SplitPlaces
  <2> QED BY <1>2, <2>2, <2>3 DEF BeginSplit
<1>3. CASE BeginFails
  BY <1>1, <1>3 DEF BeginFails, Return, Called, SplitPlaces
<1>4. CASE GrowFails
  <2>1. /\ blocks = Everything /\ blocks' = blocks \ {Work, Array} /\ count' = count
        /\ badFree' = (badFree \/ ~({Work, Array} \subseteq blocks))
        /\ failed' = "growth" /\ pc' = "return"
    BY <1>1, <1>4 DEF GrowFails, FailWith, Free, Return
  <2>2. blocks' = Copies(count) /\ ~badFree'
    BY <1>1, <2>1, WithoutWork
  <2> QED BY <1>1, <2>1, <2>2 DEF SplitPlaces
<1>5. CASE CopyToken
  <2>1. CASE /\ blocks' = blocks \cup {Copy(count)} /\ count' = count + 1
             /\ UNCHANGED <<pc, badFree, failed>>
    BY <1>1, <1>5, <2>1, Blocks DEF CopyToken, Everything, SplitPlaces
  <2>2. CASE FailWith("copy", Everything) /\ UNCHANGED count
    BY <1>1, <1>5, <2>2 DEF CopyToken, FailWith, Free, Return, SplitPlaces
  <2> QED BY <1>5, <2>1, <2>2 DEF CopyToken
<1>6. CASE TrimArray
  <2>1. blocks = Everything /\ count' = count /\ Everything' = Everything /\ failed = "none"
    BY <1>1, <1>6 DEF TrimArray, SplitPlaces, Everything
  <2>2. CASE pc' = "trimmed" /\ UNCHANGED <<blocks, badFree, failed>>
    <3>1. count' > 1
      BY <1>6, <2>1 DEF TrimArray
    <3> QED BY <1>1, <2>1, <2>2, <3>1 DEF SplitPlaces
  <2>3. CASE FailWith("trim", Everything)
    BY <1>1, <2>1, <2>3 DEF FailWith, Free, Return, SplitPlaces
  <2> QED BY <1>6, <2>2, <2>3 DEF TrimArray
<1>7. CASE TrimToNothing
  <2>1. /\ blocks = Everything /\ blocks' = blocks \ {Array, Work} /\ failed' = "nothing left"
        /\ pc' = "undo" /\ count' = count /\ badFree' = badFree
        /\ count = call.tokens /\ count <= 1
    BY <1>1, <1>7 DEF TrimToNothing
  <2>2. blocks' = Copies(count)
    BY <2>1, WithoutWork
  <2>3. call.tokens < 2
    <3>1. count \in Nat /\ count <= 1
      BY <1>1, <2>1
    <3>2. count < 2
      BY <3>1
    <3> QED BY <2>1, <3>2
  <2> QED BY <1>1, <2>1, <2>2, <2>3 DEF SplitPlaces
<1>9. CASE FreeAgain
  <2>1. /\ blocks = Copies(count) /\ blocks' \subseteq blocks /\ count' = count
        /\ failed = "nothing left" /\ failed' = failed /\ call.tokens < 2
        /\ pc' \in {"return", "crashed"} /\ badFree' = TRUE
    BY <1>1, <1>9 DEF FreeAgain
  <2> QED BY <1>1, <2>1 DEF SplitPlaces
<1>8. CASE Deliver
  <2>1. /\ blocks = Everything /\ count' = count /\ pc' = "return" /\ failed = "none" /\ ~badFree
        /\ blocks' = (blocks \cup {Datum}) \ {Work} /\ UNCHANGED <<badFree, failed>>
    BY <1>1, <1>8 DEF Deliver, Return, SplitPlaces
  <2>2. blocks' = {Datum, Array} \cup Copies(count)
    BY <2>1, WithoutWork
  <2> QED BY <1>1, <2>1, <2>2 DEF SplitPlaces
<1>10. CASE DeliverFails
  <2>1. /\ blocks = Everything /\ count' = count /\ failed' = "data" /\ ~badFree
        /\ count \in Nat /\ count > 1
        /\ pc' \in {"return"} \cup (IF badFree' THEN {"crashed"} ELSE {})
    BY <1>1, <1>10 DEF DeliverFails
  <2>2. PICK found \in {Copy(count - 1), Stray} : Free({Work, Array, found} \cup Copies(count - 1))
    BY <1>10 DEF DeliverFails
  <2> DEFINE n == count - 1
             C == Copies(n)
             k == Copy(n)
             gone == {Work, Array, found} \cup C
  <2>3. n \in Nat /\ n + 1 = count
    BY <2>1
  <2>4. Copies(count) = C \cup {k} /\ k \notin C
    BY <2>3, Blocks
  <2>5. /\ k \notin {Work, Array, Stray} /\ Stray \notin C /\ Stray # Work /\ Stray # Array
        /\ Work \notin C /\ Array \notin C
    BY Blocks
  <2>6. blocks = {Work, Array} \cup C \cup {k}
    BY <2>1, <2>4 DEF Everything
  <2>7. blocks' = blocks \ gone /\ badFree' = (badFree \/ ~(gone \subseteq blocks))
    BY <2>2 DEF Free
  <2>8. found \in {k, Stray}
    OBVIOUS
  <2>9. blocks' = IF badFree' THEN {k} ELSE {}
    <3> HIDE DEF C, k, n
    <3>1. CASE found = k
      BY <2>1, <2>5, <2>6, <2>7, <3>1
    <3>2. CASE found = Stray
      <4>1. badFree'
        BY <2>5, <2>6, <2>7, <3>2
      <4>2. blocks' = {k}
        BY <2>4, <2>5, <2>6, <2>7, <3>2
      <4> QED BY <4>1, <4>2
    <3> QED BY <2>8, <3>1, <3>2
  <2> HIDE DEF C, k
  <2>10. blocks' = IF badFree' THEN {Copy(count - 1)} ELSE {}
    BY <2>9 DEF k
  <2>11. pc' \in {"return", "crashed"} /\ (pc' = "crashed" => badFree')
    BY <2>1
  <2> QED BY <1>1, <2>1, <2>10, <2>11 DEF SplitPlaces
<1> QED BY <1>2, <1>3, <1>4, <1>5, <1>6, <1>7, <1>8, <1>9, <1>10 DEF ArrayNext

LEMMA SplitNextKeeps ==
    ASSUME SplitInv, WhereInv, TwisterInv, [Next]_vars
    PROVE  SplitInv'
<1>1. call' = call
  BY CallStays
<1>2. CASE ArrayNext
  BY <1>1, <1>2, SplitStep
<1>3. CASE UNCHANGED arrayVars /\ (call.f # "string_array_split" \/ UNCHANGED <<call, pc>>)
  <2>1. blocks' = blocks /\ badFree' = badFree /\ count' = count /\ failed' = failed
    BY <1>3 DEF arrayVars
  <2>2. CASE pc' = pc
    BY <1>1, <2>1, <2>2 DEF SplitInv, SplitFreesAll, Returned, Everything
  <2>3. CASE call.f # "string_array_split"
    BY <1>1, <2>1, <2>3 DEF SplitInv
  <2> QED BY <1>3, <2>2, <2>3
<1> QED BY <1>2, <1>3, OnlySplit

LEMMA SplitAlways == Spec => []SplitInv
<1>1. Init => SplitInv
  BY SplitInit
<1>2. SplitInv /\ WhereInv /\ TwisterInv /\ [Next]_vars => SplitInv'
  BY SplitNextKeeps
<1> QED BY <1>1, <1>2, TwisterCorrect, Where, PTL DEF Spec

\* A split frees all that it has allocated, whichever allocation fails, of a text
\* of any number of tokens and for arrays of any size, but for the three exits that
\* the property names: the array that cannot grow, the text of fewer than two
\* tokens, and the result that cannot be allocated.
THEOREM SplitCorrect == Spec => []SplitFreesAll
<1>1. SplitInv => SplitFreesAll
  BY DEF SplitInv, SplitFreesAll, Returned
<1> QED BY <1>1, SplitAlways, PTL

\* The slots there are: as many as were asked for, and one fewer than the tokens
\* written when the array is full.
SlotsInv ==
    /\ call.f # "string_array_split" => ~badWrite
    /\ pc = "call" => ~badWrite
    /\ pc = "split" => /\ capacity \in Nat /\ slots = capacity /\ capacity >= Initial
                       /\ count <= capacity + 1
    /\ pc = "trimmed" => count = slots + 1
    /\ SplitInBounds

LEMMA SlotsInit == ASSUME Init PROVE SlotsInv
BY DEF Init, Idle, ArrayIdle, SlotsInv, SplitInBounds, Returned

LEMMA SlotsStep ==
    ASSUME WhereInv, SplitInv, SlotsInv, ArrayNext, call' = call
    PROVE  SlotsInv'
<1>1. /\ call.f = "string_array_split" /\ call.tokens \in Nat /\ count \in Nat
      /\ pc = "call" => count = 0
      /\ Initial \in Nat /\ Growth \in Nat /\ Growth > 0
      /\ badWrite => call.tokens > Initial
  <2>1. call.f = "string_array_split"
    BY ArrayCall
  <2>2. badWrite => call.tokens > Initial
    BY DEF SlotsInv, SplitInBounds
  <2>3. Initial \in Nat /\ Growth \in Nat /\ Growth > 0
    BY TokenCountsAssumption
  <2>4. call.tokens \in Nat /\ count \in Nat /\ (pc = "call" => count = 0)
    BY <2>1 DEF SplitInv
  <2> QED BY <2>1, <2>2, <2>3, <2>4
<1> USE DEF SlotsInv, SplitInBounds, Returned
<1>2. CASE BeginSplit
  <2>1. CASE slots' = Initial /\ capacity' = Initial /\ pc' = "split"
    BY <1>1, <1>2, <2>1 DEF BeginSplit, Called
  <2>2. CASE FailWith("work", {})
    BY <1>1, <1>2, <2>2 DEF BeginSplit, FailWith, Return
  <2> QED BY <1>2, <2>1, <2>2 DEF BeginSplit
<1>3. CASE BeginFails
  BY <1>1, <1>3 DEF BeginFails, Return
<1>4. CASE GrowFails
  BY <1>1, <1>4 DEF GrowFails, FailWith, Return
<1>5. CASE CopyToken
  <2>1. /\ pc = "split" /\ count < call.tokens
        /\ capacity' = (IF count > capacity THEN capacity + Growth ELSE capacity)
        /\ slots' = (IF count > capacity THEN capacity' ELSE slots)
        /\ badWrite' = (badWrite \/ count >= slots')
    BY <1>5 DEF CopyToken, MustGrow
  <2>2. capacity \in Nat /\ slots = capacity /\ capacity >= Initial /\ count <= capacity + 1
    BY <2>1
  <2>3. /\ capacity' \in Nat /\ slots' = capacity' /\ capacity' >= Initial
        /\ count <= capacity'
    BY <1>1, <2>1, <2>2
  <2>4. badWrite' => call.tokens > Initial
    <3>1. CASE badWrite
      BY <1>1, <3>1
    <3>2. CASE count >= slots'
      BY <1>1, <2>1, <2>3, <3>2
    <3>3. badWrite' => badWrite \/ count >= slots'
      BY <2>1, Zenon
    <3> QED BY <3>1, <3>2, <3>3
  <2>5. CASE pc' = pc /\ count' = count + 1
    BY <1>1, <2>1, <2>3, <2>4, <2>5
  <2>6. CASE FailWith("copy", Everything)
    BY <1>1, <2>4, <2>6 DEF FailWith, Return
  <2> QED BY <1>5, <2>5, <2>6 DEF CopyToken
<1>6. CASE TrimArray
  <2>1. CASE slots' = count - 1 /\ pc' = "trimmed"
    BY <1>1, <1>6, <2>1 DEF TrimArray
  <2>2. CASE FailWith("trim", Everything)
    BY <1>1, <1>6, <2>2 DEF TrimArray, FailWith, Return
  <2> QED BY <1>6, <2>1, <2>2 DEF TrimArray
<1>7. CASE TrimToNothing
  BY <1>1, <1>7 DEF TrimToNothing
<1>8. CASE FreeAgain
  BY <1>1, <1>8 DEF FreeAgain, SplitInv, SplitPlaces
<1>9. CASE Deliver
  BY <1>1, <1>9 DEF Deliver, Return
<1>10. CASE DeliverFails
  BY <1>1, <1>10 DEF DeliverFails
<1> QED BY <1>2, <1>3, <1>4, <1>5, <1>6, <1>7, <1>8, <1>9, <1>10 DEF ArrayNext

LEMMA SlotsNextKeeps ==
    ASSUME SlotsInv, SplitInv, WhereInv, TwisterInv, [Next]_vars
    PROVE  SlotsInv'
<1>1. call' = call
  BY CallStays
<1>2. CASE ArrayNext
  BY <1>1, <1>2, SlotsStep
<1>3. CASE UNCHANGED arrayVars /\ (call.f # "string_array_split" \/ UNCHANGED <<call, pc>>)
  <2>1. badWrite' = badWrite /\ slots' = slots /\ count' = count /\ capacity' = capacity /\ failed' = failed
    BY <1>3 DEF arrayVars
  <2>2. CASE pc' = pc
    BY <1>1, <2>1, <2>2 DEF SlotsInv, SplitInBounds, Returned
  <2>3. CASE call.f # "string_array_split"
    <3>1. pc' \notin SplitPlaces
      BY <1>1, <2>3, WhereKeeps DEF WhereInv, PlaceKnown
    <3> QED BY <1>1, <2>1, <2>3, <3>1 DEF SlotsInv, SplitInBounds, Returned, SplitPlaces
  <2> QED BY <1>3, <2>2, <2>3
<1> QED BY <1>2, <1>3, OnlySplit

LEMMA SlotsAlways == Spec => []SlotsInv
<1>1. Init => SlotsInv
  BY SlotsInit
<1>2. SlotsInv /\ SplitInv /\ WhereInv /\ TwisterInv /\ [Next]_vars => SlotsInv'
  BY SlotsNextKeeps
<1> QED BY <1>1, <1>2, SplitAlways, TwisterCorrect, Where, PTL DEF Spec

-----------------------------------------------------------------------------
(* Words of bits *)

\* The exclusive or, bit by bit.
XorBit(a, b, k) == (Bit(a, k) + Bit(b, k)) % 2

\* v is the word that each of the bits of the exclusive or ends.
XorPrefixes(v, a, b, n) ==
    /\ v[0] = 0
    /\ \A k \in 1 .. n : v[k] = v[k - 1] + XorBit(a, b, k - 1) * 2^(k - 1)

LEMMA XorBits ==
    ASSUME NEW a \in Nat, NEW b \in Nat, NEW k \in Nat, 2^k \in Nat, 2^k > 0
    PROVE  Bit(a, k) \in 0 .. 1 /\ Bit(b, k) \in 0 .. 1 /\ XorBit(a, b, k) \in 0 .. 1
<1> DEFINE p == 2^k
           c == a \div p
           d == b \div p
<1>1. p \in Nat /\ p > 0
  OBVIOUS
<1> HIDE DEF p
<1>2. c \in Nat /\ d \in Nat
  BY <1>1, DivisionLeaves
<1> HIDE DEF c, d
<1>3. c % 2 \in 0 .. 1 /\ d % 2 \in 0 .. 1
  BY <1>2
<1> DEFINE x == c % 2
           y == d % 2
<1> HIDE DEF x, y
<1>4. (x + y) % 2 \in 0 .. 1
  BY <1>3 DEF x, y
<1> QED BY <1>3, <1>4 DEF Bit, XorBit, x, y, c, d, p

LEMMA XorPrefix ==
    ASSUME NEW n \in Nat, PowersTo(2, n), NEW a \in Nat, NEW b \in Nat
    PROVE  \E v : XorPrefixes(v, a, b, n) /\ v[n] = Xor(a, b, n)
<1> DEFINE F == [k \in 0 + 1 .. n |-> [x \in Int |-> x + XorBit(a, b, k - 1) * 2^(k - 1)]]
           IsXor(v) == v = [k \in 0 .. n |-> IF k = 0 THEN 0 ELSE v[k - 1] + XorBit(a, b, k - 1) * 2^(k - 1)]
           w == CHOOSE v : IsXor(v)
<1>0. \A k \in 0 .. n : 2^k \in Nat /\ 2^k > 0
  BY PowersPositive
<1>1. F \in [0 + 1 .. n -> [Int -> Int]]
  <2>1. ASSUME NEW k \in 0 + 1 .. n PROVE XorBit(a, b, k - 1) * 2^(k - 1) \in Int
    <3>1. k - 1 \in 0 .. n /\ k - 1 \in Nat
      OBVIOUS
    <3>2. XorBit(a, b, k - 1) \in 0 .. 1
      BY <1>0, <3>1, XorBits
    <3>3. 2^(k - 1) \in Nat
      BY <1>0, <3>1
    <3> QED BY <3>2, <3>3
  <2> QED BY <2>1
<1>2. \E f : Recurs(f, Int, 0, F, 0, n)
  <2>1. 0 \in Int /\ n \in Int
    OBVIOUS
  <2> HIDE DEF F
  <2> QED BY <1>1, <2>1, RecursionDefines, Zenon
<1>3. PICK f : Recurs(f, Int, 0, F, 0, n)
  BY <1>2
<1>4. IsXor(f)
  <2> HIDE DEF F
  <2>1. f \in [0 .. n -> Int] /\ f = [k \in 0 .. n |-> IF k = 0 THEN 0 ELSE F[k][f[k - 1]]]
    BY <1>3 DEF Recurs
  <2>2. ASSUME NEW k \in 0 .. n, k # 0 PROVE F[k][f[k - 1]] = f[k - 1] + XorBit(a, b, k - 1) * 2^(k - 1)
    <3>1. k \in 0 + 1 .. n /\ k - 1 \in 0 .. n
      BY <2>2
    <3>2. f[k - 1] \in Int
      BY <2>1, <3>1
    <3> QED BY <3>1, <3>2 DEF F
  <2> QED BY <2>1, <2>2
<1>5. IsXor(w)
  <2> HIDE DEF IsXor
  <2> QED BY <1>4
<1>6. Xor(a, b, n) = w[n]
  BY Zenon DEF Xor, FromBits, XorBit
<1> HIDE DEF w
<1>7. w[0] = 0 /\ \A k \in 1 .. n : w[k] = w[k - 1] + XorBit(a, b, k - 1) * 2^(k - 1)
  BY <1>5
<1> QED BY <1>6, <1>7 DEF XorPrefixes

\* The exclusive or of two words is a word, of as many bits.
LEMMA XorIsWord ==
    ASSUME NEW n \in Nat, PowersTo(2, n), NEW a \in Nat, NEW b \in Nat
    PROVE  Xor(a, b, n) \in WordOf(n)
<1>1. PICK v : XorPrefixes(v, a, b, n) /\ v[n] = Xor(a, b, n)
  BY XorPrefix
<1> DEFINE T == {k \in 0 .. n : v[k] \in 0 .. 2^k - 1}
<1>2. 0 \in T
  BY <1>1 DEF XorPrefixes, PowersTo
<1>3. ASSUME NEW k \in 0 .. n - 1, k \in T PROVE k + 1 \in T
  <2> DEFINE p == 2^k
             x == XorBit(a, b, k)
  <2>1. p \in Nat /\ p > 0 /\ 2^(k + 1) = 2 * p
    <3>1. \A l \in 0 .. n : 2^l \in Nat /\ 2^l > 0
      BY PowersPositive
    <3>2. 2^(k + 1) = 2 * 2^k
      BY DEF PowersTo
    <3> QED BY <3>1, <3>2
  <2>2. x \in 0 .. 1
    BY <2>1, XorBits
  <2>3. v[k + 1] = v[k] + x * p
    <3>1. k + 1 \in 1 .. n /\ (k + 1) - 1 = k
      OBVIOUS
    <3> QED BY <1>1, <3>1 DEF XorPrefixes
  <2>4. v[k] \in 0 .. p - 1
    BY <1>3
  <2> HIDE DEF x, p
  <2>5. x * p = 0 \/ x * p = p
    BY <2>1, <2>2
  <2> QED BY <2>1, <2>3, <2>4, <2>5
<1> HIDE DEF T
<1>4. n \in T
  <2>1. 0 .. n \subseteq T
    BY <1>2, <1>3, IntervalInduction
  <2> QED BY <2>1
<1> QED BY <1>1, <1>4 DEF T, WordOf

\* Using the seed makes a seed of it.
LEMMA XorshiftIsWord == \A w \in WordOf(ShiftBits) : xorshift(w) \in WordOf(ShiftBits)
<1> SUFFICES ASSUME NEW w \in WordOf(ShiftBits) PROVE xorshift(w) \in WordOf(ShiftBits)
  OBVIOUS
<1> DEFINE n == ShiftBits
           a == Xor(w, ShiftLeft(w, Shifts[1], n), n)
           b == Xor(a, ShiftRight(a, Shifts[2]), n)
<1>1. /\ n \in Nat /\ PowersTo(2, n)
      /\ \A k \in 0 .. n : 2^k \in Nat /\ 2^k > 0
      /\ \A i \in 1 .. 3 : Shifts[i] \in 0 .. n
  BY ArraySizesAssumption, PowersPositive
<1>2. \A x \in WordOf(n) : x \in Nat
  BY <1>1 DEF WordOf
<1>3. ASSUME NEW x \in Nat, NEW k \in 0 .. n
      PROVE  ShiftLeft(x, k, n) \in Nat /\ ShiftRight(x, k) \in Nat
  <2> DEFINE p == 2^k
             q == 2^n
             y == x * p
  <2>1. p \in Nat /\ p > 0 /\ q \in Nat /\ q > 0
    BY <1>1
  <2> HIDE DEF p, q
  <2>2. y \in Nat
    BY <2>1
  <2> HIDE DEF y
  <2>3. y % q \in Nat /\ x \div p \in Nat
    BY <2>1, <2>2, DivisionLeaves
  <2> QED BY <2>3 DEF ShiftLeft, ShiftRight, p, q, y
<1> HIDE DEF n
<1>4. w \in Nat
  BY <1>2 DEF n
<1>8. Shifts[1] \in 0 .. n /\ Shifts[2] \in 0 .. n /\ Shifts[3] \in 0 .. n
  BY <1>1
<1>5. a \in WordOf(n)
  <2>1. ShiftLeft(w, Shifts[1], n) \in Nat
    BY <1>3, <1>4, <1>8
  <2> QED BY <1>1, <1>4, <2>1, XorIsWord, Zenon
<1>6. b \in WordOf(n)
  <2> HIDE DEF a
  <2>1. a \in Nat /\ ShiftRight(a, Shifts[2]) \in Nat
    BY <1>2, <1>3, <1>5, <1>8
  <2> QED BY <1>1, <2>1, XorIsWord, Zenon
<1>7. Xor(b, ShiftLeft(b, Shifts[3], n), n) \in WordOf(n)
  <2> HIDE DEF b
  <2>1. b \in Nat /\ ShiftLeft(b, Shifts[3], n) \in Nat
    BY <1>2, <1>3, <1>6, <1>8
  <2> QED BY <1>1, <2>1, XorIsWord, Zenon
<1> QED BY <1>7 DEF xorshift, n

\* Powers to a sum.
LEMMA PowersAdd ==
    ASSUME NEW b \in Nat, b > 0, NEW k \in Nat, PowersTo(b, k), NEW m \in Nat, NEW n \in Nat, m + n <= k
    PROVE  b^(m + n) = b^m * b^n
<1>1. b^0 = 1 /\ \A i \in 0 .. k - 1 : b^(i + 1) = b * b^i
  BY DEF PowersTo
<1>2. \A i \in 0 .. k : b^i \in Nat
  BY PowersPositive
<1> DEFINE T == {i \in 0 .. n : b^(m + i) = b^m * b^i}
<1>3. 0 \in T
  <2>1. b^m \in Nat /\ m + 0 = m /\ 0 \in 0 .. n
    BY <1>2
  <2> DEFINE p == b^m
  <2>2. p * 1 = p
    <3> HIDE DEF p
    <3> QED BY <2>1 DEF p
  <2>3. b^(m + 0) = p /\ b^m * b^0 = p * 1
    BY <1>1, <2>1
  <2> QED BY <2>1, <2>2, <2>3
<1>4. ASSUME NEW i \in 0 .. n - 1, i \in T PROVE i + 1 \in T
  <2>1. m + i \in 0 .. k - 1 /\ i \in 0 .. k - 1 /\ m + (i + 1) = (m + i) + 1 /\ i + 1 \in 0 .. n
    OBVIOUS
  <2>2. b^(m + (i + 1)) = b * b^(m + i) /\ b^(i + 1) = b * b^i
    BY <1>1, <2>1
  <2>3. b^(m + i) = b^m * b^i
    BY <1>4
  <2> DEFINE p == b^m
             q == b^i
  <2>4. p \in Nat /\ q \in Nat
    BY <1>2, <2>1
  <2>5. b * (p * q) = p * (b * q)
    <3> HIDE DEF p, q
    <3> QED BY <2>4
  <2> QED BY <2>1, <2>2, <2>3, <2>5
<1>5. n \in T
  <2> HIDE DEF T
  <2>1. 0 .. n \subseteq T
    BY <1>3, <1>4, IntervalInduction
  <2> QED BY <2>1
<1> QED BY <1>5

\* The lower bits of a number, and one more.
LEMMA OneMoreBit ==
    ASSUME NEW a \in Nat, NEW p \in Nat, p > 0
    PROVE  a % (2 * p) = (a % p) + ((a \div p) % 2) * p
<1> DEFINE q == a \div p
           l == a % p
           h == q \div 2
           c == q % 2
<1>1. q \in Nat /\ l \in 0 .. p - 1 /\ a = q * p + l
  BY DivisionLeaves
<1> HIDE DEF q, l
<1>2. h \in Nat /\ c \in 0 .. 1 /\ q = h * 2 + c
  BY <1>1
<1> HIDE DEF h, c
<1>3. (h * 2 + c) * p = h * (2 * p) + c * p
  BY <1>2
<1>4. c * p = 0 \/ c * p = p
  BY <1>2
<1> DEFINE d == 2 * p
           e == c * p + l
<1>5. d \in Nat /\ d > 0 /\ e \in 0 .. d - 1 /\ a = h * d + e
  BY <1>1, <1>2, <1>3, <1>4
<1> HIDE DEF d, e
<1>6. a % d = e
  BY <1>2, <1>5, DivisionIs
<1> QED BY <1>1, <1>2, <1>4, <1>6 DEF d, e, q, l, c

\* Two words are equal just if their exclusive or is 0.
LEMMA XorZero ==
    ASSUME NEW n \in Nat, PowersTo(2, n), NEW a \in WordOf(n), NEW b \in WordOf(n)
    PROVE  Xor(a, b, n) = 0 <=> a = b
<1>0. \A k \in 0 .. n : 2^k \in Nat /\ 2^k > 0
  BY PowersPositive
<1>1. a \in Nat /\ b \in Nat /\ a < 2^n /\ b < 2^n /\ 2^n \in Nat
  BY <1>0 DEF WordOf
<1>2. PICK v : XorPrefixes(v, a, b, n) /\ v[n] = Xor(a, b, n)
  BY <1>1, XorPrefix
<1> DEFINE T == {k \in 0 .. n : v[k] \in Nat /\ (v[k] = 0 <=> a % 2^k = b % 2^k)}
<1>3. 0 \in T
  <2>1. a % 1 = 0 /\ b % 1 = 0 /\ 2^0 = 1 /\ v[0] = 0
    BY <1>1, <1>2 DEF XorPrefixes, PowersTo
  <2> QED BY <2>1
<1>4. ASSUME NEW k \in 0 .. n - 1, k \in T PROVE k + 1 \in T
  <2> DEFINE p == 2^k
             x == XorBit(a, b, k)
             c == Bit(a, k)
             d == Bit(b, k)
  <2>1. p \in Nat /\ p > 0 /\ 2^(k + 1) = 2 * p /\ k \in Nat /\ k \in 0 .. n /\ k + 1 \in 0 .. n
    BY <1>0 DEF PowersTo
  <2>2. x \in 0 .. 1 /\ c \in 0 .. 1 /\ d \in 0 .. 1 /\ x = (c + d) % 2
    BY <1>1, <2>1, XorBits DEF XorBit
  <2>3. v[k + 1] = v[k] + x * p
    <3>1. k + 1 \in 1 .. n /\ (k + 1) - 1 = k
      OBVIOUS
    <3> QED BY <1>2, <3>1 DEF XorPrefixes
  <2>4. a % (2 * p) = (a % p) + c * p /\ b % (2 * p) = (b % p) + d * p
    BY <1>1, <2>1, OneMoreBit DEF Bit
  <2>5. a % p \in 0 .. p - 1 /\ b % p \in 0 .. p - 1
    BY <1>1, <2>1, DivisionLeaves
  <2>6. v[k] \in Nat /\ (v[k] = 0 <=> a % p = b % p)
    BY <1>4
  <2> DEFINE e == a % p
             f == b % p
  <2> HIDE DEF p, x, c, d, e, f
  <2>7. (x * p = 0 \/ x * p = p) /\ (c * p = 0 \/ c * p = p) /\ (d * p = 0 \/ d * p = p)
        /\ (x = 0 <=> c = d) /\ (c * p = 0 <=> c = 0) /\ (d * p = 0 <=> d = 0) /\ (x * p = 0 <=> x = 0)
    BY <2>1, <2>2
  <2>8. e \in 0 .. p - 1 /\ f \in 0 .. p - 1 /\ (v[k] = 0 <=> e = f)
    BY <2>5, <2>6 DEF e, f
  <2>9. v[k + 1] \in Nat /\ (v[k + 1] = 0 <=> e + c * p = f + d * p)
    BY <2>1, <2>2, <2>3, <2>6, <2>7, <2>8
  <2>10. a % 2^(k + 1) = e + c * p /\ b % 2^(k + 1) = f + d * p
    BY <2>1, <2>4 DEF e, f
  <2> QED BY <2>1, <2>9, <2>10
<1>5. n \in T
  <2> HIDE DEF T
  <2>1. 0 .. n \subseteq T
    BY <1>3, <1>4, IntervalInduction
  <2> QED BY <2>1
<1>6. a % 2^n = a /\ b % 2^n = b
  <2> DEFINE q == 2^n
  <2>1. a \in Nat /\ b \in Nat /\ q \in Nat /\ a < q /\ b < q
    BY <1>1
  <2> HIDE DEF q
  <2>2. a % q = a /\ b % q = b
    BY <2>1
  <2> QED BY <2>2 DEF q
<1> QED BY <1>2, <1>5, <1>6

\* Only 0 remains what it is when it is shifted to the left ...
LEMMA ShiftLeftMoves ==
    ASSUME NEW n \in Nat, PowersTo(2, n), NEW k \in 1 .. n, NEW a \in WordOf(n)
    PROVE  ShiftLeft(a, k, n) \in WordOf(n) /\ (ShiftLeft(a, k, n) = a <=> a = 0)
<1>0. \A i \in 0 .. n : 2^i \in Nat /\ 2^i > 0
  BY PowersPositive
<1>1. a \in Nat /\ a < 2^n /\ 2^n \in Nat /\ 2^n > 0 /\ 2^k \in Nat /\ n \in 0 .. n /\ k \in 0 .. n
  BY <1>0 DEF WordOf
<1>2. ShiftLeft(a, k, n) \in WordOf(n)
  <2> DEFINE p == 2^n
             e == a * 2^k
  <2>1. e \in Nat /\ p \in Nat /\ p > 0
    <3> DEFINE d == 2^k
    <3>1. a \in Nat /\ d \in Nat
      BY <1>1
    <3> HIDE DEF d
    <3>2. a * d \in Nat
      BY <3>1
    <3> QED BY <1>1, <3>2 DEF d
  <2> HIDE DEF p, e
  <2>2. e % p \in 0 .. p - 1
    BY <2>1
  <2> QED BY <2>2 DEF p, e, ShiftLeft, WordOf
<1>3. ASSUME a = 0 PROVE ShiftLeft(a, k, n) = a
  <2> DEFINE p == 2^n
             d == 2^k
  <2>1. d \in Nat /\ p \in Nat /\ p > 0
    BY <1>1
  <2> HIDE DEF p, d
  <2>2. (0 * d) % p = 0
    BY <2>1
  <2> QED BY <1>3, <2>2 DEF ShiftLeft, p, d
<1>4. ASSUME ShiftLeft(a, k, n) = a PROVE a = 0
  <2> DEFINE T == {i \in 0 .. n : a % 2^i = 0}
             q == (a * 2^k) \div 2^n
  <2>1. 0 \in T
    BY <1>1 DEF PowersTo
  <2>2. q \in Int /\ a * 2^k = q * 2^n + a
    <3> DEFINE p == 2^n
               d == 2^k
    <3>1. d \in Nat /\ p \in Nat /\ p > 0 /\ a \in Nat
      BY <1>1
    <3>2. (a * d) % p = a
      BY <1>4 DEF ShiftLeft
    <3> HIDE DEF p, d
    <3>3. a * d \in Nat
      BY <3>1
    <3>4. (a * d) \div p \in Nat /\ a * d = ((a * d) \div p) * p + ((a * d) % p)
      BY <3>1, <3>3, DivisionLeaves
    <3> QED BY <3>2, <3>4 DEF p, d
  <2> HIDE DEF q
  <2>3. ASSUME NEW i \in 0 .. n - 1, i \in T PROVE i + 1 \in T
    <3> DEFINE c == a \div 2^i
               p == 2^i
               s2 == 2^(k - 1)
               m == 2^(n - (i + 1))
    <3>1. /\ i \in 0 .. n /\ i + 1 \in 0 .. n /\ i + 1 \in Nat /\ k - 1 \in 0 .. n - 1 /\ k - 1 \in 0 .. n
          /\ n - (i + 1) \in 0 .. n /\ n - (i + 1) \in Nat
      OBVIOUS
    <3>2. p \in Nat /\ p > 0 /\ s2 \in Nat /\ m \in Nat
      BY <1>0, <3>1
    <3>3. 2^(i + 1) = 2 * p /\ 2^k = 2 * s2
      <4>1. (k - 1) + 1 = k
        OBVIOUS
      <4> QED BY <3>1, <4>1 DEF PowersTo
    <3>4. 2^n = (2 * p) * m
      <4>1. (i + 1) + (n - (i + 1)) = n /\ n <= n /\ 2 \in Nat /\ 2 > 0
        BY <3>1
      <4>2. 2^((i + 1) + (n - (i + 1))) = 2^(i + 1) * 2^(n - (i + 1))
        BY <3>1, <4>1, PowersAdd
      <4> QED BY <3>3, <4>1, <4>2
    <3>5. a % p = 0
      BY <2>3
    <3>6. c \in Nat /\ a = c * p
      <4>1. c \in Nat /\ a % p \in 0 .. p - 1 /\ a = c * p + (a % p)
        BY <1>1, <3>2, DivisionLeaves
      <4> HIDE DEF p, c
      <4> QED BY <3>2, <3>5, <4>1
    <3>7. a * (2 * s2) = q * ((2 * p) * m) + a
      BY <2>2, <3>3, <3>4
    <3> HIDE DEF p, c, s2, m
    <3>8. a = (c * s2 - q * m) * (2 * p) + 0
      <4>1. (c * p) * (2 * s2) = (c * s2) * (2 * p) /\ q * ((2 * p) * m) = (q * m) * (2 * p)
        BY <2>2, <3>2, <3>6
      <4>2. a = (c * s2) * (2 * p) - (q * m) * (2 * p)
        BY <1>1, <2>2, <3>2, <3>6, <3>7, <4>1
      <4> DEFINE x == c * s2
                 y == q * m
                 z == 2 * p
      <4>3. x \in Int /\ y \in Int /\ z \in Int
        BY <2>2, <3>2, <3>6
      <4>4. a = x * z - y * z
        BY <4>2
      <4> HIDE DEF x, y, z
      <4>5. a = (x - y) * z + 0
        BY <4>3, <4>4
      <4> QED BY <4>5 DEF x, y, z
    <3>9. a % (2 * p) = 0
      <4> DEFINE x == c * s2 - q * m
                 z == 2 * p
      <4>1. x \in Int /\ z \in Nat /\ z > 0 /\ 0 \in 0 .. z - 1 /\ a = x * z + 0 /\ a \in Int
        BY <1>1, <2>2, <3>2, <3>6, <3>8
      <4> HIDE DEF x, z
      <4>2. a % z = 0
        BY <4>1, DivisionIs
      <4> QED BY <4>2 DEF z
    <3> QED BY <3>1, <3>3, <3>9
  <2>4. n \in T
    <3> HIDE DEF T
    <3>1. 0 .. n \subseteq T
      BY <2>1, <2>3, IntervalInduction
    <3> QED BY <3>1
  <2> DEFINE p == 2^n
  <2>5. a % p = 0 /\ a \in Nat /\ p \in Nat /\ a < p
    BY <1>1, <2>4
  <2> HIDE DEF p
  <2> QED BY <2>5
<1> QED BY <1>2, <1>3, <1>4

\* ... or to the right.
LEMMA ShiftRightMoves ==
    ASSUME NEW n \in Nat, PowersTo(2, n), NEW k \in 1 .. n, NEW a \in WordOf(n)
    PROVE  ShiftRight(a, k) \in WordOf(n) /\ (ShiftRight(a, k) = a <=> a = 0)
<1>0. \A i \in 0 .. n : 2^i \in Nat /\ 2^i > 0
  BY PowersPositive
<1> DEFINE p == 2^k
           h == 2^(k - 1)
           w == 2^n
<1>1. p \in Nat /\ h \in Nat /\ h > 0 /\ w \in Nat /\ a \in Nat /\ a < w /\ p = 2 * h
  <2>1. k \in 0 .. n /\ k - 1 \in 0 .. n /\ k - 1 \in 0 .. n - 1 /\ n \in 0 .. n /\ (k - 1) + 1 = k
    OBVIOUS
  <2> QED BY <1>0, <2>1 DEF WordOf, PowersTo
<1> HIDE DEF p, h, w
<1> DEFINE q == a \div p
<1>2. q \in Nat /\ a % p \in 0 .. p - 1 /\ a = q * p + (a % p)
  BY <1>1, DivisionLeaves
<1> DEFINE e == a % p
<1>2a. q \in Nat /\ e \in Nat /\ a = q * p + e
  BY <1>1, <1>2
<1> HIDE DEF q, e
<1>3. q * p = q * h + q * h /\ q * h >= q
  BY <1>1, <1>2a
<1>4. q \in 0 .. w - 1 /\ (q = a => a = 0)
  BY <1>1, <1>2a, <1>3
<1>5. a = 0 => q = 0
  <2> DEFINE x == q * h
  <2>1. x \in Nat /\ a = x + x + e /\ x >= q
    BY <1>1, <1>2a, <1>3
  <2> HIDE DEF x
  <2> QED BY <2>1, <1>2a
<1> QED BY <1>4, <1>5 DEF ShiftRight, WordOf, q, p, w

\* Xorshift makes 0 of 0 and of nothing else.
LEMMA XorshiftZero ==
    ASSUME NEW w \in WordOf(ShiftBits)
    PROVE  xorshift(w) = 0 <=> w = 0
<1> DEFINE n == ShiftBits
           a == Xor(w, ShiftLeft(w, Shifts[1], n), n)
           b == Xor(a, ShiftRight(a, Shifts[2]), n)
           c == Xor(b, ShiftLeft(b, Shifts[3], n), n)
<1>1. n \in Nat /\ PowersTo(2, n) /\ Shifts[1] \in 1 .. n /\ Shifts[2] \in 1 .. n /\ Shifts[3] \in 1 .. n
  BY ArraySizesAssumption
<1>2. \A x \in WordOf(n) : x \in Nat
  BY <1>1, PowersPositive DEF WordOf
<1>3. xorshift(w) = c
  BY DEF xorshift
<1>8. w \in WordOf(n)
  OBVIOUS
<1> HIDE DEF n
<1>4. a \in WordOf(n) /\ (a = 0 <=> w = 0)
  <2>1. ShiftLeft(w, Shifts[1], n) \in WordOf(n) /\ (ShiftLeft(w, Shifts[1], n) = w <=> w = 0)
    BY <1>1, <1>8, ShiftLeftMoves
  <2>2. w \in Nat /\ ShiftLeft(w, Shifts[1], n) \in Nat
    BY <1>2, <1>8, <2>1
  <2>3. a \in WordOf(n)
    BY <1>1, <2>2, XorIsWord, Zenon
  <2>4. a = 0 <=> w = ShiftLeft(w, Shifts[1], n)
    BY <1>1, <1>8, <2>1, XorZero, Zenon
  <2> QED BY <2>1, <2>3, <2>4
<1> HIDE DEF a
<1>5. b \in WordOf(n) /\ (b = 0 <=> a = 0)
  <2>1. ShiftRight(a, Shifts[2]) \in WordOf(n) /\ (ShiftRight(a, Shifts[2]) = a <=> a = 0)
    BY <1>1, <1>4, ShiftRightMoves
  <2>2. a \in Nat /\ ShiftRight(a, Shifts[2]) \in Nat
    BY <1>2, <1>4, <2>1
  <2>3. b \in WordOf(n)
    BY <1>1, <2>2, XorIsWord, Zenon
  <2>4. b = 0 <=> a = ShiftRight(a, Shifts[2])
    BY <1>1, <1>4, <2>1, XorZero, Zenon
  <2> QED BY <2>1, <2>3, <2>4
<1> HIDE DEF b
<1>6. c = 0 <=> b = 0
  <2>1. ShiftLeft(b, Shifts[3], n) \in WordOf(n) /\ (ShiftLeft(b, Shifts[3], n) = b <=> b = 0)
    BY <1>1, <1>5, ShiftLeftMoves
  <2>4. c = 0 <=> b = ShiftLeft(b, Shifts[3], n)
    BY <1>1, <1>5, <2>1, XorZero, Zenon
  <2> QED BY <2>1, <2>4
<1> QED BY <1>3, <1>4, <1>5, <1>6

\* v is the word that each of the bits f[0] .. f[n - 1] ends.
BitPrefixes(v, f, n) ==
    /\ v[0] = 0
    /\ \A k \in 1 .. n : v[k] = v[k - 1] + f[k - 1] * 2^(k - 1)

\* A word written bit by bit has those bits.
LEMMA PrefixBits ==
    ASSUME NEW n \in Nat, PowersTo(2, n), NEW f, \A k \in 0 .. n - 1 : f[k] \in 0 .. 1,
           NEW v, BitPrefixes(v, f, n)
    PROVE  v[n] \in WordOf(n) /\ \A k \in 0 .. n - 1 : Bit(v[n], k) = f[k]
<1>0. \A k \in 0 .. n : 2^k \in Nat /\ 2^k > 0
  BY PowersPositive
<1> DEFINE T == {m \in 0 .. n : v[m] \in WordOf(m) /\ \A k \in 0 .. m - 1 : Bit(v[m], k) = f[k]}
<1>1. 0 \in T
  BY DEF BitPrefixes, PowersTo, WordOf
<1>2. ASSUME NEW m \in 0 .. n - 1, m \in T PROVE m + 1 \in T
  <2> DEFINE p == 2^m
             x == v[m]
             y == v[m + 1]
             c == f[m]
  <2>1. p \in Nat /\ p > 0 /\ 2^(m + 1) = 2 * p /\ m \in Nat /\ m + 1 \in 0 .. n
    BY <1>0 DEF PowersTo
  <2>2. y = x + c * p
    <3>1. m + 1 \in 1 .. n /\ (m + 1) - 1 = m
      OBVIOUS
    <3> QED BY <3>1 DEF BitPrefixes
  <2>3. x \in 0 .. p - 1 /\ c \in 0 .. 1
    BY <1>2 DEF WordOf
  <2>4. ASSUME NEW k \in 0 .. m - 1 PROVE Bit(y, k) = f[k]
    <3> DEFINE d == 2^k
               e == 2^(m - (k + 1))
    <3>1. k \in 0 .. n /\ k \in Nat /\ m - (k + 1) \in Nat /\ m - (k + 1) \in 0 .. n /\ k + 1 \in Nat
      OBVIOUS
    <3>2. d \in Nat /\ d > 0 /\ e \in Nat
      BY <1>0, <3>1
    <3>3. p = (2 * d) * e
      <4>1. 2^(k + 1) = 2 * d
        BY <3>1 DEF PowersTo
      <4>2. (k + 1) + (m - (k + 1)) = m /\ m <= n /\ 2 \in Nat /\ 2 > 0
        BY <3>1
      <4>3. 2^((k + 1) + (m - (k + 1))) = 2^(k + 1) * 2^(m - (k + 1))
        BY <3>1, <4>2, PowersAdd
      <4> QED BY <4>1, <4>2, <4>3
    <3>4. Bit(x, k) = f[k]
      BY <1>2
    <3> DEFINE a == x \div d
               b == x % d
               t == c * e
    <3>5. x \in Nat
      BY <2>1, <2>3
    <3> HIDE DEF p, x, y, c, d, e
    <3>6. a \in Nat /\ b \in 0 .. d - 1 /\ x = a * d + b
      BY <3>2, <3>5, DivisionLeaves
    <3>7. t \in Nat
      BY <2>3, <3>2
    <3> HIDE DEF a, b, t
    <3>8. c * p = (2 * t) * d
      BY <2>3, <3>2, <3>3 DEF t
    <3>9. y = (a + 2 * t) * d + b /\ y \in Int
      BY <2>2, <3>2, <3>6, <3>7, <3>8
    <3> DEFINE g == a + 2 * t
    <3>10. g \in Int /\ g % 2 = a % 2
      BY <3>6, <3>7
    <3> HIDE DEF g
    <3>11. y \div d = g
      BY <3>2, <3>6, <3>9, <3>10, DivisionIs DEF g
    <3> QED BY <3>4, <3>10, <3>11 DEF Bit, d, a
  <2>5. Bit(y, m) = c
    <3> HIDE DEF p, x, y, c
    <3>1. y \in Int /\ y = c * p + x /\ c % 2 = c
      BY <2>1, <2>2, <2>3
    <3>2. y \div p = c
      BY <2>1, <2>3, <3>1, DivisionIs
    <3> QED BY <3>1, <3>2 DEF Bit, p
  <2>6. y \in WordOf(m + 1)
    <3> HIDE DEF p, x, y, c
    <3>1. c * p = 0 \/ c * p = p
      BY <2>1, <2>3
    <3>2. y \in 0 .. 2 * p - 1
      BY <2>1, <2>2, <2>3, <3>1
    <3> QED BY <2>1, <3>2 DEF WordOf
  <2> HIDE DEF p, x, y, c
  <2>7. \A k \in 0 .. (m + 1) - 1 : Bit(y, k) = f[k]
    <3> TAKE k \in 0 .. (m + 1) - 1
    <3>1. CASE k = m
      BY <2>5, <3>1 DEF c
    <3>2. CASE k # m
      <4>1. k \in 0 .. m - 1
        BY <3>2
      <4> QED BY <2>4, <4>1
    <3> QED BY <3>1, <3>2
  <2> QED BY <2>1, <2>6, <2>7 DEF y
<1> HIDE DEF T
<1>3. n \in T
  <2>1. 0 .. n \subseteq T
    BY <1>1, <1>2, IntervalInduction
  <2> QED BY <2>1
<1> QED BY <1>3 DEF T

\* A word is the one that has its bits.
LEMMA SameBits ==
    ASSUME NEW n \in Nat, PowersTo(2, n), NEW a \in WordOf(n), NEW b \in WordOf(n),
           \A k \in 0 .. n - 1 : Bit(a, k) = Bit(b, k)
    PROVE  a = b
<1>0. \A k \in 0 .. n : 2^k \in Nat /\ 2^k > 0
  BY PowersPositive
<1>1. a \in Nat /\ b \in Nat /\ a < 2^n /\ b < 2^n /\ 2^n \in Nat
  BY <1>0 DEF WordOf
<1> DEFINE T == {k \in 0 .. n : a % 2^k = b % 2^k}
<1>2. 0 \in T
  <2>1. a % 1 = 0 /\ b % 1 = 0 /\ 2^0 = 1
    BY <1>1 DEF PowersTo
  <2> QED BY <2>1
<1>3. ASSUME NEW k \in 0 .. n - 1, k \in T PROVE k + 1 \in T
  <2> DEFINE p == 2^k
  <2>1. p \in Nat /\ p > 0 /\ 2^(k + 1) = 2 * p /\ k + 1 \in 0 .. n
    BY <1>0 DEF PowersTo
  <2>2. a % (2 * p) = (a % p) + Bit(a, k) * p /\ b % (2 * p) = (b % p) + Bit(b, k) * p
    BY <1>1, <2>1, OneMoreBit DEF Bit
  <2>3. a % p = b % p
    BY <1>3
  <2> QED BY <2>1, <2>2, <2>3
<1>4. n \in T
  <2> HIDE DEF T
  <2>1. 0 .. n \subseteq T
    BY <1>2, <1>3, IntervalInduction
  <2> QED BY <2>1
<1>5. a % 2^n = a /\ b % 2^n = b
  <2> DEFINE q == 2^n
  <2>1. a \in Nat /\ b \in Nat /\ q \in Nat /\ a < q /\ b < q
    BY <1>1
  <2> HIDE DEF q
  <2>2. a % q = a /\ b % q = b
    BY <2>1
  <2> QED BY <2>2 DEF q
<1> QED BY <1>4, <1>5

\* The bits of an exclusive or.
LEMMA BitsOfXor ==
    ASSUME NEW n \in Nat, PowersTo(2, n), NEW a \in Nat, NEW b \in Nat
    PROVE  \A k \in 0 .. n - 1 : Bit(Xor(a, b, n), k) = XorBit(a, b, k)
<1> DEFINE f == [k \in 0 .. n - 1 |-> XorBit(a, b, k)]
<1>1. PICK v : XorPrefixes(v, a, b, n) /\ v[n] = Xor(a, b, n)
  BY XorPrefix
<1>2. \A k \in 0 .. n - 1 : f[k] = XorBit(a, b, k) /\ f[k] \in 0 .. 1
  <2> TAKE k \in 0 .. n - 1
  <2>1. k \in 0 .. n /\ k \in Nat
    OBVIOUS
  <2>2. 2^k \in Nat /\ 2^k > 0
    BY <2>1, PowersPositive
  <2> QED BY <2>1, <2>2, XorBits
<1> HIDE DEF f
<1>3. BitPrefixes(v, f, n)
  <2>1. \A k \in 1 .. n : v[k] = v[k - 1] + XorBit(a, b, k - 1) * 2^(k - 1)
    BY <1>1 DEF XorPrefixes
  <2>2. \A k \in 1 .. n : k - 1 \in 0 .. n - 1
    OBVIOUS
  <2> QED BY <1>1, <1>2, <2>1, <2>2 DEF BitPrefixes, XorPrefixes
<1> QED BY <1>1, <1>2, <1>3, PrefixBits

\* Nothing is changed by 0, and a change is undone by itself.
LEMMA XorUndone ==
    ASSUME NEW n \in Nat, PowersTo(2, n), NEW a \in WordOf(n), NEW b \in WordOf(n)
    PROVE  Xor(0, b, n) = b /\ Xor(Xor(a, b, n), b, n) = a
<1>0. \A k \in 0 .. n : 2^k \in Nat /\ 2^k > 0
  BY PowersPositive
<1>1. a \in Nat /\ b \in Nat /\ 0 \in Nat /\ 2^n \in Nat
  BY <1>0 DEF WordOf
<1> DEFINE x == Xor(a, b, n)
           y == Xor(x, b, n)
           z == Xor(0, b, n)
<1>2. x \in WordOf(n) /\ z \in WordOf(n)
  BY <1>1, XorIsWord
<1>3. x \in Nat
  BY <1>1, <1>2 DEF WordOf
<1>4. y \in WordOf(n)
  <2> HIDE DEF x
  <2> QED BY <1>1, <1>3, XorIsWord
<1>5. ASSUME NEW k \in 0 .. n - 1
      PROVE  Bit(z, k) = Bit(b, k) /\ Bit(y, k) = Bit(a, k)
  <2>0. k \in 0 .. n /\ k \in Nat
    OBVIOUS
  <2>1. 2^k \in Nat /\ 2^k > 0
    BY <1>0, <2>0
  <2>2. Bit(z, k) = XorBit(0, b, k) /\ Bit(x, k) = XorBit(a, b, k)
    BY <1>1, BitsOfXor
  <2>3. Bit(y, k) = XorBit(x, b, k)
    <3> HIDE DEF x
    <3> QED BY <1>1, <1>3, BitsOfXor
  <2>4. Bit(a, k) \in 0 .. 1 /\ Bit(b, k) \in 0 .. 1
    BY <1>1, <2>0, <2>1, XorBits
  <2>5. Bit(0, k) = 0
    <3> DEFINE p == 2^k
    <3>1. p \in Nat /\ p > 0
      BY <2>1
    <3> HIDE DEF p
    <3>2. (0 \div p) % 2 = 0
      <4>1. 0 \div p = 0
        BY <3>1
      <4> QED BY <4>1
    <3> QED BY <3>2 DEF Bit, p
  <2> DEFINE c == Bit(a, k)
             d == Bit(b, k)
  <2>6. Bit(z, k) = (0 + d) % 2 /\ Bit(y, k) = (((c + d) % 2) + d) % 2
    BY <2>2, <2>3, <2>5 DEF XorBit
  <2>7. c \in 0 .. 1 /\ d \in 0 .. 1
    BY <2>4
  <2> HIDE DEF c, d
  <2>8. (0 + d) % 2 = d /\ (((c + d) % 2) + d) % 2 = c
    BY <2>7
  <2> QED BY <2>6, <2>8 DEF c, d
<1> HIDE DEF x, y, z
<1>6. z = b /\ y = a
  BY <1>2, <1>4, <1>5, SameBits
<1> QED BY <1>6 DEF x, y, z

-----------------------------------------------------------------------------
(* The table of the Mersenne Twister stays alive *)

LEMMA WordPowers ==
    /\ WordBits \in Nat /\ PowersTo(2, WordBits) /\ LowerBits \in 1 .. WordBits - 1
    /\ \A k \in 0 .. WordBits : 2^k \in Nat /\ 2^k > 0
    /\ WordOf(WordBits) \subseteq Nat /\ 0 \in WordOf(WordBits)
    /\ 2^WordBits \in Nat /\ 2^WordBits > 0
<1>1. \A k \in 0 .. WordBits : 2^k \in Nat /\ 2^k > 0
  BY TwistAssumption, PowersPositive
<1>2. WordBits \in 0 .. WordBits
  BY TwistAssumption
<1>3. 2^WordBits \in Nat /\ 2^WordBits > 0
  BY <1>1, <1>2
<1> QED BY <1>1, <1>3, TwistAssumption DEF WordOf

\* The upper bits of one word and the lower ones of another.
LEMMA UpperAndLower ==
    ASSUME NEW x \in WordOf(WordBits), NEW y \in WordOf(WordBits)
    PROVE  LET z == ShiftRight(x, LowerBits) * 2^LowerBits + (y % 2^LowerBits)
           IN  /\ z \in WordOf(WordBits)
               /\ z = 0 <=> ShiftRight(x, LowerBits) = 0 /\ y % 2^LowerBits = 0
<1> DEFINE p == 2^LowerBits
           e == 2^(WordBits - LowerBits)
           w == 2^WordBits
           q == x \div p
           l == x % p
           m == y % p
           z == q * p + m
<1>1. /\ p \in Nat /\ p > 0 /\ e \in Nat /\ w = p * e
      /\ x \in Nat /\ y \in Nat /\ x < w
  <2>1. /\ LowerBits \in Nat /\ WordBits - LowerBits \in Nat /\ LowerBits \in 0 .. WordBits
        /\ WordBits - LowerBits \in 0 .. WordBits /\ LowerBits + (WordBits - LowerBits) = WordBits
        /\ WordBits <= WordBits /\ 2 \in Nat /\ 2 > 0
    BY WordPowers
  <2>2. 2^(LowerBits + (WordBits - LowerBits)) = 2^LowerBits * 2^(WordBits - LowerBits)
    BY <2>1, WordPowers, PowersAdd
  <2> QED BY <2>1, <2>2, WordPowers DEF WordOf
<1> HIDE DEF p, e, w
<1>2. q \in Nat /\ l \in 0 .. p - 1 /\ x = q * p + l /\ m \in 0 .. p - 1
  BY <1>1, DivisionLeaves
<1> HIDE DEF q, l, m
<1>3. q <= e - 1
  <2>1. CASE q >= e
    <3>1. q * p >= e * p /\ e * p = p * e
      BY <1>1, <1>2, <2>1
    <3>2. q * p \in Nat
      BY <1>1, <1>2
    <3> QED BY <1>1, <1>2, <3>1, <3>2
  <2> QED BY <2>1, <1>1, <1>2
<1>4. q * p <= (e - 1) * p /\ (e - 1) * p = w - p /\ q * p \in Nat
  BY <1>1, <1>2, <1>3
<1>5. z \in 0 .. w - 1
  BY <1>1, <1>2, <1>4
<1>6. z = 0 <=> q = 0 /\ m = 0
  <2>1. q * p >= q
    BY <1>1, <1>2
  <2>2. q = 0 => q * p = 0
    BY <1>1
  <2> QED BY <1>2, <1>4, <2>1, <2>2
<1> QED BY <1>5, <1>6 DEF z, w, p, q, m, ShiftRight, WordOf

\* What the recurrence makes of two words and a third that is 0 is 0 only if
\* it sees nothing of the first two.
LEMMA TwistOfNothing ==
    ASSUME NEW x \in WordOf(WordBits), NEW y \in WordOf(WordBits), Twist(x, y, 0) = 0
    PROVE  ShiftRight(x, LowerBits) = 0 /\ y % 2^LowerBits = 0
<1> DEFINE n == WordBits
           z == ShiftRight(x, LowerBits) * 2^LowerBits + (y % 2^LowerBits)
           h == ShiftRight(z, 1)
           m == IF Bit(z, 0) = 1 THEN MATRIX_A ELSE 0
<1>1. z \in WordOf(n) /\ (z = 0 <=> ShiftRight(x, LowerBits) = 0 /\ y % 2^LowerBits = 0)
  BY UpperAndLower
<1>2. Xor(Xor(0, h, n), m, n) = 0
  BY DEF Twist
<1> HIDE DEF z
<1>3. 2^1 = 2 /\ 2^0 = 1 /\ 2^n = 2 * 2^(n - 1) /\ 2^(n - 1) \in Nat
  <2>1. 0 \in 0 .. WordBits - 1 /\ WordBits - 1 \in 0 .. WordBits - 1 /\ (WordBits - 1) + 1 = WordBits
        /\ 0 + 1 = 1 /\ WordBits - 1 \in 0 .. WordBits
    BY WordPowers
  <2>2. 2^0 = 1 /\ 2^(0 + 1) = 2 * 2^0 /\ 2^((WordBits - 1) + 1) = 2 * 2^(WordBits - 1)
    BY <2>1, WordPowers DEF PowersTo
  <2> QED BY <2>1, <2>2, WordPowers
<1> DEFINE t == 2^(n - 1)
<1>4. h = z \div 2 /\ Bit(z, 0) = z % 2 /\ z \in Nat /\ z < 2 * t /\ t \in Nat
  <2>1. z \in Nat /\ z < 2 * t /\ t \in Nat
    BY <1>1, <1>3 DEF WordOf
  <2>2. (z \div 1) % 2 = z % 2
    BY <2>1
  <2> QED BY <1>3, <2>1, <2>2 DEF ShiftRight, Bit
<1> HIDE DEF h
<1>5. h \in Nat /\ h < t /\ h \in WordOf(n)
  <2>1. h \in Nat /\ h < t
    <3> HIDE DEF t
    <3> QED BY <1>4
  <2> QED BY <1>3, <2>1 DEF WordOf
<1>6. m \in WordOf(n) /\ (Bit(z, 0) = 1 => m >= t) /\ (Bit(z, 0) # 1 => m = 0)
  BY TwistAssumption, WordPowers
<1> HIDE DEF m, t, n
<1>7. Xor(0, h, n) = h /\ n \in Nat /\ PowersTo(2, n)
  <2>1. n \in Nat /\ PowersTo(2, n)
    BY WordPowers DEF n
  <2> QED BY <1>5, <2>1, XorUndone
<1>8. h = m
  BY <1>2, <1>5, <1>6, <1>7, XorZero
<1>9. Bit(z, 0) # 1 /\ h = 0
  <2>1. m \in Nat
    BY <1>5, <1>8
  <2> QED BY <1>4, <1>5, <1>6, <1>8, <2>1
<1>10. z = 0
  BY <1>4, <1>9
<1> QED BY <1>1, <1>10

\* A table that is not alive has zeros behind its first word, and the first
\* word is nothing but lower bits.
LEMMA DeadIs ==
    ASSUME NEW table, ~Alive(table)
    PROVE  ShiftRight(table[0], LowerBits) = 0 /\ \A n \in 1 .. NN - 1 : table[n] = 0
BY DEF Alive

LEMMA NoBits ==
    ASSUME NEW x \in WordOf(WordBits), ShiftRight(x, LowerBits) = 0, x % 2^LowerBits = 0
    PROVE  x = 0
<1> DEFINE p == 2^LowerBits
<1>1. p \in Nat /\ p > 0 /\ x \in Nat
  <2>1. LowerBits \in 0 .. WordBits
    BY WordPowers
  <2> QED BY <2>1, WordPowers
<1>2. x \div p = 0 /\ x % p = 0
  BY DEF ShiftRight
<1> HIDE DEF p
<1>3. x = (x \div p) * p + (x % p)
  BY <1>1, DivisionLeaves
<1> QED BY <1>1, <1>2, <1>3

\* Every word of the table has WordBits bits.
AreWords(table) == \A n \in Index : table[n] \in WordOf(WordBits)

\* The words of one table and of the next in one row.
Row(old, new, n) == IF n < NN THEN old[n] ELSE new[n - NN]

\* The recurrence leads from a table that is alive to one that is.
LEMMA AliveGoesOn ==
    ASSUME NEW old, NEW new, AreWords(new), AreWords(old), Alive(old),
           \A n \in Index : new[n] = Twist(Row(old, new, n), Row(old, new, n + 1), Row(old, new, n + MM))
    PROVE  Alive(new)
<1> SUFFICES ASSUME ~Alive(new) PROVE FALSE
  OBVIOUS
<1>0. NN \in Nat /\ MM \in Nat /\ 1 < MM /\ MM < NN
  BY TwisterAssumption
<1> DEFINE \* From the word n on the row of words is dead.
           Dead(n) == ShiftRight(Row(old, new, n), LowerBits) = 0 /\ \A i \in n + 1 .. 2 * NN - 1 : Row(old, new, i) = 0
           T == {k \in 0 .. NN : Dead(NN - k)}
<1>1. \A n \in 0 .. 2 * NN - 1 : Row(old, new, n) \in WordOf(WordBits)
  <2> TAKE n \in 0 .. 2 * NN - 1
  <2>1. n < NN => n \in Index
    BY <1>0 DEF Index
  <2>2. n >= NN => n - NN \in Index
    BY <1>0 DEF Index
  <2> QED BY <1>0, <2>1, <2>2 DEF Row, AreWords
<1>2. 0 \in T
  <2>1. ShiftRight(new[0], LowerBits) = 0 /\ \A n \in 1 .. NN - 1 : new[n] = 0
    BY DeadIs
  <2>2. Row(old, new, NN) = new[0]
    BY <1>0 DEF Row
  <2>3. ASSUME NEW i \in NN + 1 .. 2 * NN - 1 PROVE Row(old, new, i) = 0
    <3>1. i - NN \in 1 .. NN - 1 /\ ~(i < NN)
      BY <1>0
    <3> QED BY <2>1, <3>1 DEF Row
  <2>4. NN - 0 = NN
    BY <1>0
  <2> QED BY <1>0, <2>1, <2>2, <2>3, <2>4
<1>3. ASSUME NEW k \in 0 .. NN - 1, k \in T PROVE k + 1 \in T
  <2> DEFINE n == NN - (k + 1)
  <2>1. /\ n \in Index /\ n + 1 = NN - k /\ n + NN \in n + 1 + 1 .. 2 * NN - 1
        /\ n + MM \in n + 1 + 1 .. 2 * NN - 1 /\ n + 1 \in 0 .. 2 * NN - 1 /\ n \in 0 .. 2 * NN - 1
        /\ ~(n + NN < NN) /\ (n + NN) - NN = n /\ n \in Int
    BY <1>0 DEF Index
  <2>2. Dead(n + 1)
    BY <1>3, <2>1
  <2> HIDE DEF n
  <2>3. Row(old, new, n + NN) = 0 /\ Row(old, new, n + MM) = 0 /\ ShiftRight(Row(old, new, n + 1), LowerBits) = 0
    BY <2>1, <2>2
  <2>4. Row(old, new, n + NN) = Twist(Row(old, new, n), Row(old, new, n + 1), Row(old, new, n + MM))
    BY <2>1 DEF Row
  <2>5. Row(old, new, n) \in WordOf(WordBits) /\ Row(old, new, n + 1) \in WordOf(WordBits)
    BY <1>1, <2>1
  <2>6. ShiftRight(Row(old, new, n), LowerBits) = 0 /\ Row(old, new, n + 1) % 2^LowerBits = 0
    BY <2>3, <2>4, <2>5, TwistOfNothing
  <2>7. Row(old, new, n + 1) = 0
    BY <2>3, <2>5, <2>6, NoBits
  <2>8. \A i \in n + 1 .. 2 * NN - 1 : Row(old, new, i) = 0
    <3> TAKE i \in n + 1 .. 2 * NN - 1
    <3>1. i = n + 1 \/ i \in n + 1 + 1 .. 2 * NN - 1
      BY <1>0, <2>1
    <3> QED BY <2>2, <2>7, <3>1
  <2>9. Dead(n) /\ k + 1 \in 0 .. NN
    BY <1>0, <2>6, <2>8
  <2> QED BY <2>9 DEF n
<1> HIDE DEF T
<1>4. NN \in T
  <2>1. 0 .. NN \subseteq T
    BY <1>0, <1>2, <1>3, IntervalInduction
  <2> QED BY <1>0, <2>1
<1>5. Dead(0)
  <2>1. NN - NN = 0
    BY <1>0
  <2> QED BY <1>4, <2>1 DEF T
<1>6. Row(old, new, 0) = old[0] /\ \A i \in 1 .. NN - 1 : Row(old, new, i) = old[i] /\ i \in 0 + 1 .. 2 * NN - 1
  BY <1>0 DEF Row
<1> QED BY <1>5, <1>6 DEF Alive

\* What the generator computes are words.
LEMMA ShiftsNat ==
    ASSUME NEW x \in Nat, NEW k \in 0 .. WordBits
    PROVE  ShiftRight(x, k) \in Nat
<1> DEFINE p == 2^k
<1>1. p \in Nat /\ p > 0
  BY WordPowers
<1> HIDE DEF p
<1>2. x \div p \in Nat
  BY <1>1, DivisionLeaves
<1> QED BY <1>2 DEF ShiftRight, p

LEMMA CutNat == \A x \in Int : x % 2^WordBits \in WordOf(WordBits)
<1> DEFINE p == 2^WordBits
<1>1. p \in Nat /\ p > 0
  BY WordPowers
<1> HIDE DEF p
<1>2. \A x \in Int : x % p \in 0 .. p - 1
  BY <1>1
<1> QED BY <1>2 DEF WordOf, p

LEMMA XorWord == \A x, y \in Nat : Xor(x, y, WordBits) \in WordOf(WordBits)
BY WordPowers, XorIsWord

LEMMA FoldedWord == \A w \in WordOf(WordBits) : Folded(w) \in WordOf(WordBits)
<1> SUFFICES ASSUME NEW w \in WordOf(WordBits) PROVE Folded(w) \in WordOf(WordBits)
  OBVIOUS
<1>1. w \in Nat /\ WordBits - 2 \in 0 .. WordBits
  BY WordPowers
<1>2. ShiftRight(w, WordBits - 2) \in Nat
  BY <1>1, ShiftsNat
<1> QED BY <1>1, <1>2, XorWord DEF Folded

LEMMA NextInitWord == \A w \in WordOf(WordBits) : NextInit(w) \in WordOf(WordBits)
<1> SUFFICES ASSUME NEW w \in WordOf(WordBits) PROVE NextInit(w) \in WordOf(WordBits)
  OBVIOUS
<1>1. Folded(w) \in Nat /\ InitMultiplier \in Nat
  BY FoldedWord, WordPowers, TwistAssumption
<1>2. InitMultiplier * Folded(w) + 1 \in Int
  BY <1>1
<1> QED BY <1>2, CutNat DEF NextInit

\* A word of 0 is followed by one of 1.
LEMMA NextInitOfNothing == NextInit(0) = 1
<1> DEFINE p == 2^(WordBits - 2)
           w == 2^WordBits
           h == 2^(WordBits - 1)
<1>1. p \in Nat /\ p > 0 /\ w \in Nat /\ h \in Nat /\ h > 0 /\ w = 2 * h /\ 0 \in WordOf(WordBits)
  <2>1. WordBits - 2 \in 0 .. WordBits /\ WordBits - 1 \in 0 .. WordBits - 1 /\ (WordBits - 1) + 1 = WordBits
        /\ WordBits - 1 \in 0 .. WordBits
    BY WordPowers
  <2>2. 2^((WordBits - 1) + 1) = 2 * 2^(WordBits - 1)
    BY <2>1, WordPowers DEF PowersTo
  <2> QED BY <2>1, <2>2, WordPowers
<1> HIDE DEF p, w, h
<1>2. ShiftRight(0, WordBits - 2) = 0
  <2>1. 0 \div p = 0
    BY <1>1
  <2> QED BY <2>1 DEF ShiftRight, p
<1>3. Folded(0) = 0
  <2>1. Xor(0, 0, WordBits) = 0
    BY <1>1, WordPowers, XorUndone
  <2> QED BY <1>2, <2>1 DEF Folded
<1>4. InitMultiplier * 0 + 1 = 1
  BY TwistAssumption
<1>5. 1 % w = 1
  BY <1>1
<1> QED BY <1>3, <1>4, <1>5 DEF NextInit, w

LEMMA TwistWord ==
    ASSUME NEW x \in WordOf(WordBits), NEW y \in WordOf(WordBits), NEW z \in WordOf(WordBits)
    PROVE  Twist(x, y, z) \in WordOf(WordBits)
<1> DEFINE c == ShiftRight(x, LowerBits) * 2^LowerBits + (y % 2^LowerBits)
           m == IF Bit(c, 0) = 1 THEN MATRIX_A ELSE 0
           v == Xor(z, ShiftRight(c, 1), WordBits)
<1>1. c \in Nat
  BY UpperAndLower, WordPowers
<1>2. Twist(x, y, z) = Xor(v, m, WordBits)
  BY DEF Twist
<1> HIDE DEF c
<1>3. 1 \in 0 .. WordBits /\ m \in Nat /\ z \in Nat
  BY WordPowers, TwistAssumption
<1> HIDE DEF m
<1>4. ShiftRight(c, 1) \in Nat
  BY <1>1, <1>3, ShiftsNat
<1>5. v \in Nat
  BY <1>3, <1>4, XorWord, WordPowers
<1> HIDE DEF v
<1> QED BY <1>2, <1>3, <1>5, XorWord

LEMMA MixedWord ==
    ASSUME AreWords(mt), row \in 1 .. NN - 1, NEW k \in Nat, NEW l \in Int
    PROVE  Mixed(k, l) \in WordOf(WordBits)
<1> DEFINE f == Folded(mt[row - 1])
           g == (f * k) % 2^WordBits
           x == Xor(mt[row], g, WordBits)
<1>1. mt[row] \in Nat /\ mt[row - 1] \in WordOf(WordBits)
  <2>1. row \in Index /\ row - 1 \in Index
    BY Sizes2 DEF Index
  <2> QED BY <2>1, WordPowers DEF AreWords
<1>2. f \in Nat
  BY <1>1, FoldedWord, WordPowers
<1> HIDE DEF f
<1>3. f * k \in Int
  BY <1>2
<1>4. g \in Nat
  BY <1>3, CutNat, WordPowers
<1> HIDE DEF g
<1>5. x \in Nat
  BY <1>1, <1>4, XorWord, WordPowers
<1>6. Mixed(k, l) = (x + l) % 2^WordBits
  BY DEF Mixed, x, g, f
<1> HIDE DEF x
<1>7. x + l \in Int
  BY <1>5
<1> QED BY <1>6, <1>7, CutNat

LEMMA WordsExcept ==
    ASSUME NEW t, IsTable(t), AreWords(t), NEW k \in Index, NEW w \in WordOf(WordBits)
    PROVE  IsTable([t EXCEPT ![k] = w]) /\ AreWords([t EXCEPT ![k] = w])
<1>1. /\ IsTable([t EXCEPT ![k] = w])
      /\ \A n \in Index : n # k => [t EXCEPT ![k] = w][n] = t[n]
      /\ [t EXCEPT ![k] = w][k] = w
  BY DEF IsTable
<1> DEFINE v == [t EXCEPT ![k] = w]
<1> HIDE DEF v
<1>2. ASSUME NEW n \in Index PROVE v[n] \in WordOf(WordBits)
  BY <1>1 DEF v, AreWords
<1> QED BY <1>1, <1>2 DEF v, AreWords

\* How far the table is seeded, and with what.
SeedingOK ==
    /\ pc = "init" => \A i \in 1 .. mti - 1 : mt[i] = NextInit(mt[i - 1])
    /\ pc = "key" \/ (pc = "init" /\ then = "key") => key \in Seq(Nat) /\ key # <<>>
    /\ pc = "key" => col \in 0 .. Len(key) - 1
    /\ pc \in {"key", "mix"} => row \in 1 .. NN - 1

StaysAlive ==
    /\ pc = "draw" \/ (pc = "ready" /\ mti <= NN) => Alive(mt)
    /\ pc \in {"refill", "draw"} => Alive(previous)

AliveInv == AreWords(mt) /\ AreWords(previous) /\ SeedingOK /\ StaysAlive

LEMMA AliveInit == ASSUME Init PROVE AliveInv
<1>1. mt = [n \in 0 .. NN - 1 |-> 0] /\ previous = [n \in 0 .. NN - 1 |-> 0] /\ pc = "call"
  BY DEF Init, Idle, TwisterIdle
<1>2. AreWords(mt) /\ AreWords(previous)
  BY <1>1, WordPowers DEF AreWords, Index
<1> QED BY <1>1, <1>2 DEF AliveInv, SeedingOK, StaysAlive

\* Seeding begins again.
LEMMA AliveStart ==
    ASSUME AliveInv, TwisterInv, CallInit \/ CallInitByArray \/ CallUnseeded
    PROVE  AliveInv'
<1>1. PICK s0 \in WordOf(WordBits) :
         mt' = [mt EXCEPT ![0] = s0] /\ mti' = 1 /\ pc' = "init"
  BY TwistAssumption DEF CallInit, CallInitByArray, CallUnseeded, StartInit
<1>2. previous' = previous /\ (then' = "key" => key' \in Seq(Nat) /\ key' # <<>>)
  BY KeysAssumption DEF CallInit, CallInitByArray, CallUnseeded, StartInit
<1>3. AreWords(mt')
  BY <1>1, Sizes2, WordsExcept DEF AliveInv, TwisterInv, TablesOK
<1>4. AreWords(mt)' /\ AreWords(previous)'
  BY <1>2, <1>3 DEF AliveInv, AreWords
<1>5. SeedingOK' /\ StaysAlive'
  BY <1>1, <1>2 DEF SeedingOK, StaysAlive
<1> QED BY <1>4, <1>5 DEF AliveInv

LEMMA AliveInitWord ==
    ASSUME AliveInv, TwisterInv, InitWord
    PROVE  AliveInv'
<1>0. NN \in Nat /\ 1 < NN
  BY TwisterAssumption
<1>1. /\ pc = "init" /\ pc' = "init" /\ mti \in 1 .. NN - 1 /\ mti' = mti + 1
      /\ mt' = [mt EXCEPT ![mti] = NextInit(mt[mti - 1])]
      /\ previous' = previous /\ then' = then /\ key' = key
  BY <1>0 DEF InitWord, TwisterInv, PlacesOK
<1>2. mti \in Index /\ mti - 1 \in Index
  BY <1>0, <1>1 DEF Index
<1>3. NextInit(mt[mti - 1]) \in WordOf(WordBits)
  BY <1>2, NextInitWord DEF AliveInv, AreWords
<1>4. AreWords(mt') /\ mt'[mti] = NextInit(mt[mti - 1]) /\ \A n \in Index : n # mti => mt'[n] = mt[n]
  <2>1. IsTable(mt) /\ AreWords(mt)
    BY DEF AliveInv, TwisterInv, TablesOK
  <2>2. AreWords(mt')
    BY <1>1, <1>2, <1>3, <2>1, WordsExcept
  <2> QED BY <1>1, <1>2, <2>1, <2>2 DEF IsTable
<1>5. ASSUME NEW i \in 1 .. mti PROVE mt'[i] = NextInit(mt'[i - 1])
  <2>1. i \in Index /\ i - 1 \in Index /\ i - 1 # mti
    BY <1>0, <1>1 DEF Index
  <2>2. mt'[i - 1] = mt[i - 1]
    BY <1>4, <2>1
  <2>3. CASE i = mti
    BY <1>4, <2>2, <2>3
  <2>4. CASE i # mti
    <3>1. i \in 1 .. mti - 1
      BY <1>1, <2>4
    <3>2. mt[i] = NextInit(mt[i - 1])
      BY <1>1, <3>1 DEF AliveInv, SeedingOK
    <3> QED BY <1>4, <2>1, <2>2, <2>4, <3>2
  <2> QED BY <2>3, <2>4
<1>6. AreWords(mt)' /\ AreWords(previous)'
  BY <1>1, <1>4 DEF AliveInv, AreWords
<1>7. SeedingOK'
  <2>1. mti' - 1 = mti
    BY <1>1
  <2> QED BY <1>1, <1>5, <2>1 DEF AliveInv, SeedingOK
<1>8. StaysAlive'
  BY <1>1 DEF StaysAlive
<1> QED BY <1>6, <1>7, <1>8 DEF AliveInv

\* The word behind one of 0 is not 0.
LEMMA AliveInitDone ==
    ASSUME AliveInv, TwisterInv, InitDone
    PROVE  AliveInv'
<1>0. NN \in Nat /\ 2 < NN
  BY TwisterAssumption
<1>1. /\ pc = "init" /\ pc' = then /\ mti = NN /\ mti' = NN /\ mt' = mt /\ previous' = mt /\ then' = then
      /\ key' = key /\ col' = 0 /\ row' = (IF then = "key" THEN 1 ELSE 0)
      /\ then \in {"ready", "key", "refill"}
  BY DEF InitDone, TwisterInv, PlacesOK
<1>2. Alive(mt)
  <2>1. 1 \in 1 .. mti - 1 /\ 2 \in 1 .. mti - 1 /\ 1 \in 1 .. NN - 1 /\ 2 \in 1 .. NN - 1 /\ 2 - 1 = 1
    BY <1>0, <1>1
  <2>2. mt[2] = NextInit(mt[1])
    BY <1>1, <2>1 DEF AliveInv, SeedingOK
  <2>3. CASE mt[1] = 0
    <3>1. mt[2] = 1
      BY <2>2, <2>3, NextInitOfNothing
    <3> QED BY <2>1, <3>1 DEF Alive
  <2> QED BY <2>1, <2>3 DEF Alive
<1>3. AreWords(mt)' /\ AreWords(previous)' /\ Alive(mt)' /\ Alive(previous)'
  BY <1>1, <1>2 DEF AliveInv, AreWords, Alive
<1>4. SeedingOK'
  <2>1. then = "key" => key \in Seq(Nat) /\ key # <<>> /\ 0 \in 0 .. Len(key) - 1
    <3>1. then = "key" => key \in Seq(Nat) /\ key # <<>>
      BY <1>1 DEF AliveInv, SeedingOK
    <3> QED BY <3>1
  <2> QED BY <1>0, <1>1, <2>1 DEF SeedingOK
<1>5. StaysAlive'
  BY <1>3 DEF StaysAlive
<1> QED BY <1>3, <1>4, <1>5 DEF AliveInv

\* Whatever the key makes of the table, its first word gets a bit.
LEMMA AliveMix ==
    ASSUME AliveInv, TwisterInv, NEW w \in WordOf(WordBits), Mix(w), row \in 1 .. NN - 1
    PROVE  AreWords(mt') /\ row' \in 1 .. NN - 1
<1>0. NN \in Nat /\ 2 < NN /\ row \in Index /\ 0 \in Index
  BY TwisterAssumption DEF Index
<1>1. row' \in 1 .. NN - 1
  BY <1>0 DEF Mix
<1> DEFINE t == [mt EXCEPT ![row] = w]
<1>2. IsTable(t) /\ AreWords(t)
  BY <1>0, WordsExcept DEF AliveInv, TwisterInv, TablesOK
<1> HIDE DEF t
<1>3. AreWords([t EXCEPT ![0] = w])
  BY <1>0, <1>2, WordsExcept
<1>4. mt' = t \/ mt' = [t EXCEPT ![0] = w]
  BY DEF Mix, t
<1> QED BY <1>1, <1>2, <1>3, <1>4

LEMMA AliveKey ==
    ASSUME AliveInv, TwisterInv, MixKey \/ MixAgain \/ KeyMixed
    PROVE  AliveInv'
<1>1. CASE MixKey
  <2>1. /\ pc = "key" /\ pc' = "key" /\ key' = key /\ previous' = previous /\ row \in 1 .. NN - 1
        /\ key \in Seq(Nat) /\ key # <<>> /\ col \in 0 .. Len(key) - 1
        /\ col' = (IF col + 1 >= Len(key) THEN 0 ELSE col + 1)
    BY <1>1 DEF MixKey, AliveInv, SeedingOK
  <2>2. col' \in 0 .. Len(key) - 1 /\ key[col + 1] + col \in Int
    <3>1. Len(key) \in Nat /\ Len(key) > 0 /\ col + 1 \in 1 .. Len(key)
      BY <2>1
    <3>2. key[col + 1] \in Nat
      BY <2>1, <3>1
    <3> QED BY <2>1, <3>1, <3>2
  <2>3. Mixed(KeyMultipliers[1], key[col + 1] + col) \in WordOf(WordBits)
    BY <2>1, <2>2, TwistAssumption, MixedWord DEF AliveInv
  <2>4. Mix(Mixed(KeyMultipliers[1], key[col + 1] + col))
    BY <1>1 DEF MixKey
  <2>5. AreWords(mt') /\ row' \in 1 .. NN - 1
    BY <2>1, <2>3, <2>4, AliveMix
  <2>6. AreWords(mt)' /\ AreWords(previous)'
    BY <2>1, <2>5 DEF AliveInv, AreWords
  <2>7. SeedingOK' /\ StaysAlive'
    BY <2>1, <2>2, <2>5 DEF SeedingOK, StaysAlive
  <2> QED BY <2>6, <2>7 DEF AliveInv
<1>2. CASE MixAgain
  <2>1. pc = "mix" /\ pc' = "mix" /\ previous' = previous /\ row \in 1 .. NN - 1
    BY <1>2 DEF MixAgain, AliveInv, SeedingOK
  <2>2. -row \in Int
    BY <2>1, Sizes2
  <2>3. Mixed(KeyMultipliers[2], -row) \in WordOf(WordBits)
    BY <2>1, <2>2, TwistAssumption, MixedWord DEF AliveInv
  <2>4. Mix(Mixed(KeyMultipliers[2], -row))
    BY <1>2 DEF MixAgain
  <2>5. AreWords(mt') /\ row' \in 1 .. NN - 1
    BY <2>1, <2>3, <2>4, AliveMix
  <2>6. AreWords(mt)' /\ AreWords(previous)'
    BY <2>1, <2>5 DEF AliveInv, AreWords
  <2>7. SeedingOK' /\ StaysAlive'
    BY <2>1, <2>5 DEF SeedingOK, StaysAlive
  <2> QED BY <2>6, <2>7 DEF AliveInv
<1>3. CASE KeyMixed
  <2>1. pc = "key" /\ pc' = "mix" /\ previous' = previous /\ mt' = mt /\ row' = row /\ row \in 1 .. NN - 1
    BY <1>3 DEF KeyMixed, AliveInv, SeedingOK
  <2> QED BY <2>1 DEF AliveInv, AreWords, SeedingOK, StaysAlive
<1> QED BY <1>1, <1>2, <1>3

LEMMA AliveByArray ==
    ASSUME AliveInv, TwisterInv, InitByArrayDone
    PROVE  AliveInv'
<1> DEFINE top == 2^(WordBits - 1)
<1>1. pc' = "ready" /\ previous' = previous /\ mt' = [mt EXCEPT ![0] = top]
  BY DEF InitByArrayDone
<1>2. top \in WordOf(WordBits) /\ ShiftRight(top, LowerBits) # 0
  <2> DEFINE p == 2^LowerBits
             e == 2^(WordBits - 1 - LowerBits)
             w == 2^WordBits
  <2>1. p \in Nat /\ p > 0 /\ e \in Nat /\ e > 0 /\ top = p * e /\ w = 2 * top /\ top \in Nat /\ top > 0
    <3>1. /\ LowerBits \in Nat /\ WordBits - 1 - LowerBits \in Nat /\ LowerBits \in 0 .. WordBits
          /\ WordBits - 1 - LowerBits \in 0 .. WordBits
          /\ LowerBits + (WordBits - 1 - LowerBits) = WordBits - 1
          /\ WordBits - 1 <= WordBits /\ 2 \in Nat /\ 2 > 0 /\ WordBits - 1 \in 0 .. WordBits
          /\ WordBits - 1 \in 0 .. WordBits - 1 /\ (WordBits - 1) + 1 = WordBits
      BY WordPowers
    <3>2. 2^(LowerBits + (WordBits - 1 - LowerBits)) = 2^LowerBits * 2^(WordBits - 1 - LowerBits)
      BY <3>1, WordPowers, PowersAdd
    <3>3. 2^((WordBits - 1) + 1) = 2 * 2^(WordBits - 1)
      BY <3>1, WordPowers DEF PowersTo
    <3> QED BY <3>1, <3>2, <3>3, WordPowers
  <2> HIDE DEF p, e, w, top
  <2>2. top = e * p + 0 /\ 0 \in 0 .. p - 1 /\ top \in Int
    BY <2>1
  <2>3. top \div p = e
    BY <2>1, <2>2, DivisionIs
  <2>4. top \in 0 .. w - 1
    BY <2>1
  <2> QED BY <2>1, <2>3, <2>4 DEF ShiftRight, WordOf, w, p
<1> HIDE DEF top
<1>3. AreWords(mt') /\ mt'[0] = top
  <2>1. IsTable(mt) /\ AreWords(mt) /\ 0 \in Index
    BY Sizes2 DEF AliveInv, TwisterInv, TablesOK
  <2>2. AreWords(mt')
    BY <1>1, <1>2, <2>1, WordsExcept
  <2> QED BY <1>1, <2>1, <2>2 DEF IsTable
<1>4. AreWords(mt)' /\ AreWords(previous)' /\ Alive(mt)'
  BY <1>1, <1>2, <1>3 DEF AliveInv, AreWords, Alive
<1> QED BY <1>1, <1>4 DEF AliveInv, SeedingOK, StaysAlive

LEMMA AliveRefill ==
    ASSUME AliveInv, TwisterInv, TwisterInv', RefillWord \/ RefillLast
    PROVE  AliveInv'
<1>0. NN \in Nat /\ MM \in Nat /\ 1 < MM /\ MM < NN
  BY TwisterAssumption
<1>1. pc = "refill" /\ previous' = previous /\ row \in Index /\ Alive(previous)
  BY DEF RefillWord, RefillLast, TwisterInv, PlacesOK, AliveInv, StaysAlive
<1>2. AreWords(mt')
  <2>1. CASE RefillWord
    <3>1. row + 1 \in Index /\ Far(row) \in Index
      BY <1>0, <1>1, <2>1 DEF RefillWord, Index, Far
    <3>2. Twist(mt[row], mt[row + 1], mt[Far(row)]) \in WordOf(WordBits)
      BY <1>1, <3>1, TwistWord DEF AliveInv, AreWords
    <3>3. mt' = [mt EXCEPT ![row] = Twist(mt[row], mt[row + 1], mt[Far(row)])]
      BY <2>1 DEF RefillWord
    <3> QED BY <1>1, <3>2, <3>3, WordsExcept DEF AliveInv, TwisterInv, TablesOK
  <2>2. CASE RefillLast
    <3>1. NN - 1 \in Index /\ 0 \in Index /\ MM - 1 \in Index
      BY <1>0 DEF Index
    <3>2. Twist(mt[NN - 1], mt[0], mt[MM - 1]) \in WordOf(WordBits)
      BY <3>1, TwistWord DEF AliveInv, AreWords
    <3>3. mt' = [mt EXCEPT ![NN - 1] = Twist(mt[NN - 1], mt[0], mt[MM - 1])]
      BY <2>2 DEF RefillLast
    <3> QED BY <3>1, <3>2, <3>3, WordsExcept DEF AliveInv, TwisterInv, TablesOK
  <2> QED BY <2>1, <2>2
<1>3. AreWords(mt)' /\ AreWords(previous)' /\ Alive(previous)'
  BY <1>1, <1>2 DEF AliveInv, AreWords, Alive
<1>4. SeedingOK'
  BY DEF SeedingOK, RefillWord, RefillLast
<1>5. CASE RefillWord
  <2>1. pc' = "refill"
    BY <1>5, <1>1 DEF RefillWord
  <2> QED BY <2>1, <1>3, <1>4 DEF AliveInv, StaysAlive
<1>6. CASE RefillLast
  <2>1. pc' = "draw" /\ mti' = 0
    BY <1>6 DEF RefillLast
  <2>2. \A n \in Index : mt[n]' = Twisted(n)'
    BY <1>0, <2>1 DEF TwisterInv, AllNew, Seeding
  <2>3. \A n \in Index : mt'[n] = Twist(Row(previous', mt', n), Row(previous', mt', n + 1), Row(previous', mt', n + MM))
    BY <2>2 DEF Twisted, Stream, Row
  <2>4. AreWords(mt') /\ AreWords(previous') /\ Alive(previous')
    BY <1>1, <1>2 DEF AliveInv
  <2>5. Alive(mt')
    BY <2>3, <2>4, AliveGoesOn
  <2>6. Alive(mt)'
    BY <2>5 DEF Alive
  <2> QED BY <2>1, <2>6, <1>3, <1>4 DEF AliveInv, StaysAlive
<1> QED BY <1>5, <1>6

LEMMA AliveGive ==
    ASSUME AliveInv, TwisterInv, CallUsedUp \/ GiveFirst \/ GiveNext
    PROVE  AliveInv'
<1>0. NN \in Nat
  BY TwisterAssumption
<1>1. CASE CallUsedUp
  <2>1. pc = "ready" /\ mti = NN /\ pc' = "refill" /\ mt' = mt /\ previous' = mt
    BY <1>1 DEF CallUsedUp
  <2>2. Alive(mt)
    BY <1>0, <2>1 DEF AliveInv, StaysAlive
  <2> QED BY <2>1, <2>2 DEF AliveInv, AreWords, SeedingOK, StaysAlive, Alive
<1>2. CASE GiveFirst \/ GiveNext
  <2>1. pc' = "ready" /\ mt' = mt /\ previous' = previous
    BY <1>2 DEF GiveFirst, GiveNext, Give
  <2>2. Alive(mt)
    <3>1. mti \in Int
      BY <1>0 DEF TwisterInv, PlacesOK
    <3> QED BY <1>2, <1>0, <3>1 DEF AliveInv, StaysAlive, GiveFirst, GiveNext
  <2> QED BY <2>1, <2>2 DEF AliveInv, AreWords, SeedingOK, StaysAlive, Alive
<1> QED BY <1>1, <1>2

LEMMA AliveIdle ==
    ASSUME AliveInv, TwisterInv, UNCHANGED twisterVars,
           pc' = pc \/ (pc \notin TwisterPlaces /\ pc' \notin TwisterPlaces)
              \/ (pc' = "ready" /\ mti = NN + 1) \/ pc' \notin TwisterPlaces
    PROVE  AliveInv'
<1>1. mt' = mt /\ mti' = mti /\ previous' = previous /\ then' = then /\ row' = row /\ col' = col /\ key' = key
  BY DEF twisterVars
<1>2. AreWords(mt)' /\ AreWords(previous)' /\ (Alive(mt)' <=> Alive(mt)) /\ (Alive(previous)' <=> Alive(previous))
  BY <1>1 DEF AliveInv, AreWords, Alive
<1>3. NN \in Nat
  BY TwisterAssumption
<1> QED BY <1>1, <1>2, <1>3 DEF AliveInv, SeedingOK, StaysAlive, TwisterPlaces

\* Nothing has touched the table when the function is opened.
UntouchedInv == pc = "call" => mti = NN + 1

LEMMA UntouchedKeeps ==
    ASSUME UntouchedInv, WhereInv, TwisterInv, [Next]_vars
    PROVE  UntouchedInv'
<1>1. CASE UNCHANGED vars
  BY <1>1 DEF UntouchedInv, vars, twisterVars
<1>2. CASE TwisterNext
  <2>1. pc' # "call"
    BY <1>2, TwisterCall DEF TwisterPlaces
  <2> QED BY <2>1 DEF UntouchedInv
<1>3. CASE Next /\ ~TwisterNext
  <2>1. UNCHANGED twisterVars
    BY <1>3, OthersIdle DEF TwisterStep
  <2>2. pc' = "call" => pc = "call"
    <3>1. CASE ZeroNext
      BY <3>1 DEF ZeroNext, SkipLong, LongsSkipped, SkipByte, BytesSkipped, CountBits, Return, Called
    <3>2. CASE ~ZeroNext
      <4>1. pc' \in ListPlaces \cup AddressPlaces \cup TextPlaces \cup RandomPlaces \cup SplitPlaces
                      \cup ShufflePlaces \cup {"return", "crashed"}
        BY <1>3, <3>2, ListCall, AddressCall, TextCall, RandomCall, ArrayCall, ShuffleCall
           DEF Next, OwnStep, OtherThread, ListStep, AddressStep, TextStep, ZeroStep, ArrayStep, RandomStep,
               TwisterStep, ShuffleStep
      <4>2. pc' # "call"
        BY <4>1, PlacesDisjoint
      <4> QED BY <4>2
    <3> QED BY <3>1, <3>2
  <2> QED BY <2>1, <2>2 DEF UntouchedInv, twisterVars
<1> QED BY <1>1, <1>2, <1>3

LEMMA AliveNextKeeps ==
    ASSUME AliveInv, UntouchedInv, TwisterInv, TwisterInv', [Next]_vars
    PROVE  AliveInv'
<1>1. CASE UNCHANGED vars
  BY <1>1, AliveIdle DEF vars
<1>2. CASE Next /\ ~TwisterStep
  BY <1>2, OthersIdle, AliveIdle DEF Elsewhere
<1>3. CASE TwisterStep
  <2>1. CASE Open
    <3>1. UNCHANGED twisterVars /\ pc' = "ready" /\ mti = NN + 1
      BY <2>1 DEF Open, Called, UntouchedInv
    <3> QED BY <3>1, AliveIdle
  <2>2. CASE Leave
    <3>1. UNCHANGED twisterVars /\ pc' \notin TwisterPlaces
      BY <2>2 DEF Leave, Return, TwisterPlaces
    <3> QED BY <3>1, AliveIdle
  <2>3. CASE CallInit \/ CallInitByArray \/ CallUnseeded
    BY <2>3, AliveStart
  <2>4. CASE InitWord
    BY <2>4, AliveInitWord
  <2>5. CASE InitDone
    BY <2>5, AliveInitDone
  <2>6. CASE MixKey \/ MixAgain \/ KeyMixed
    BY <2>6, AliveKey
  <2>7. CASE InitByArrayDone
    BY <2>7, AliveByArray
  <2>8. CASE RefillWord \/ RefillLast
    BY <2>8, AliveRefill
  <2>9. CASE CallUsedUp \/ GiveFirst \/ GiveNext
    BY <2>9, AliveGive
  <2> QED BY <1>3, <2>1, <2>2, <2>3, <2>4, <2>5, <2>6, <2>7, <2>8, <2>9 DEF TwisterStep, TwisterNext
<1> QED BY <1>1, <1>2, <1>3

LEMMA AliveAlways == Spec => []AliveInv
<1>1. Init => UntouchedInv /\ AliveInv
  <2>1. ASSUME Init PROVE UntouchedInv
    BY <2>1 DEF Init, Idle, TwisterIdle, UntouchedInv
  <2> QED BY <2>1, AliveInit
<1>2. UntouchedInv /\ WhereInv /\ TwisterInv /\ [Next]_vars => UntouchedInv'
  BY UntouchedKeeps
<1>3. AliveInv /\ UntouchedInv /\ TwisterInv /\ TwisterInv' /\ [Next]_vars => AliveInv'
  BY AliveNextKeeps
<1> QED BY <1>1, <1>2, <1>3, TwisterCorrect, Where, PTL DEF Spec

\* However it was seeded and however often its table was regenerated, the twister
\* never has a table from which only zeros come: the word behind one of 0 is 1
\* when a seed is spread, a key leaves a bit in the first word, and regenerating,
\* undone word by word from the last, makes zeros only of zeros.
THEOREM TwisterStaysAlive == Spec => []TableAlive
<1>1. AliveInv => TableAlive
  BY DEF AliveInv, StaysAlive, TableAlive
<1> QED BY <1>1, AliveAlways, PTL

-----------------------------------------------------------------------------
(* shuffle *)

\* The array holds its elements, in some order.
Permutes == /\ DOMAIN array = 0 .. call.size - 1
            /\ {array[i] : i \in DOMAIN array} = DOMAIN array

\* Where a shuffle stands.
ShuffleInv ==
    /\ call.f = "shuffle" =>
          /\ pc \in ShufflePlaces \cup {"call", "return", "crashed"}
          /\ call.size \in Nat /\ call.size < 2^ShiftBits
          /\ at \in Nat
          /\ pc = "call" => at = 0
          /\ pc \in ShufflePlaces =>
                /\ rng \in WordOf(ShiftBits)
                /\ at <= call.size /\ (call.size >= 2 => at <= limit)
          /\ pc = "loaded" => loaded \in WordOf(ShiftBits) /\ at < limit
          /\ pc \in ShufflePlaces \cup {"return"} => Permutes
          /\ pc = "crashed" => call.size < 2
          /\ pc = "return" => call.size >= 2

LEMMA Limit ==
    ASSUME NEW n \in Nat, n < 2^ShiftBits
    PROVE  /\ (n - 2) % 2^ShiftBits \in Int
           /\ n >= 2 => (n - 2) % 2^ShiftBits = n - 2
           /\ n < 2 => (n - 2) % 2^ShiftBits > n
<1>1. 2^ShiftBits \in Int /\ 2 < 2^ShiftBits
  BY ArraySizesAssumption
<1>2. CASE n >= 2
  BY <1>1, <1>2
<1>3. CASE n = 0
  <2>1. (0 - 2) % 2^ShiftBits = 2^ShiftBits - 2
    BY <1>1
  <2> QED BY <1>1, <1>3, <2>1
<1>4. CASE n = 1
  <2>1. (1 - 2) % 2^ShiftBits = 2^ShiftBits - 1
    BY <1>1
  <2> QED BY <1>1, <1>4, <2>1
<1> QED BY <1>2, <1>3, <1>4

\* An element is swapped with one of those that are not drawn yet.
LEMMA PartnerRange ==
    ASSUME NEW w \in Int, NEW i \in Nat, NEW n \in Nat, i < n
    PROVE  Partner(w, i, n) \in i .. n - 1
<1>1. n - i \in Nat /\ n - i > 0
  OBVIOUS
<1>2. w % (n - i) \in 0 .. n - i - 1
  BY <1>1
<1> QED BY <1>2 DEF Partner

\* Swapping two elements of an array changes their order only.
LEMMA SwapPermutes ==
    ASSUME NEW a, NEW D0, DOMAIN a = D0, NEW x \in D0, NEW y \in D0
    PROVE  LET b == [a EXCEPT ![x] = a[y], ![y] = a[x]]
           IN  DOMAIN b = D0 /\ {b[i] : i \in D0} = {a[i] : i \in D0}
<1> DEFINE b == [a EXCEPT ![x] = a[y], ![y] = a[x]]
<1>1. DOMAIN b = D0
  OBVIOUS
<1>2. \A i \in D0 : b[i] = IF i = y THEN a[x] ELSE IF i = x THEN a[y] ELSE a[i]
  OBVIOUS
<1>3. \A i \in D0 : \E k \in D0 : b[i] = a[k]
  BY <1>2
<1>4. \A i \in D0 : \E k \in D0 : a[i] = b[k]
  <2> SUFFICES ASSUME NEW i \in D0 PROVE \E k \in D0 : a[i] = b[k]
    OBVIOUS
  <2>1. CASE i = x
    BY <2>1, <1>2
  <2>2. CASE i = y
    BY <2>2, <1>2
  <2>3. CASE i # x /\ i # y
    BY <2>3, <1>2
  <2> QED BY <2>1, <2>2, <2>3
<1> HIDE DEF b
<1>5. {b[i] : i \in D0} = {a[i] : i \in D0}
  BY <1>3, <1>4
<1> QED BY <1>1, <1>5 DEF b

LEMMA ShuffleInit == ASSUME Init PROVE ShuffleInv
<1>1. at = 0 /\ pc = "call"
  BY DEF Init, Idle, ShuffleIdle
<1>2. call.f = "shuffle" => call.size \in Nat /\ call.size < 2^ShiftBits
  <2>1. call.f = "shuffle" => call \in ShuffleCalls
    BY WhereInit DEF WhereInv, CallKnown
  <2>2. call.f = "shuffle" => call.size \in ArraySizes
    BY <2>1 DEF ShuffleCalls
  <2> QED BY <2>2, ArraySizesAssumption
<1> QED BY <1>1, <1>2 DEF ShuffleInv, ShufflePlaces

LEMMA ShuffleStepKeeps ==
    ASSUME WhereInv, ShuffleInv, ShuffleNext \/ Disturb, call' = call
    PROVE  ShuffleInv'
<1>1. call.f = "shuffle"
  BY ShuffleCall
<1>2. /\ call.size \in Nat /\ call.size < 2^ShiftBits /\ at \in Nat
      /\ pc = "call" => at = 0
      /\ pc \in ShufflePlaces => /\ rng \in WordOf(ShiftBits) /\ Permutes
                                 /\ at <= call.size /\ (call.size >= 2 => at <= limit)
      /\ pc = "loaded" => loaded \in WordOf(ShiftBits) /\ at < limit
  BY <1>1 DEF ShuffleInv
<1>3. /\ call.size >= 2 => limit = call.size - 2
      /\ call.size < 2 => limit > call.size
      /\ limit \in Int /\ limit' = limit
  BY <1>2, Limit DEF limit
<1>4. CASE StartShuffle
  <2>1. /\ pc' = "swap" /\ at' = 0 /\ array' = [i \in 0 .. call.size - 1 |-> i]
        /\ rng' \in WordOf(ShiftBits)
    BY <1>2, <1>4 DEF StartShuffle, Called
  <2>2. Permutes'
    BY <2>1 DEF Permutes
  <2> QED BY <1>1, <1>2, <1>3, <2>1, <2>2 DEF ShuffleInv, ShufflePlaces
<1>5. CASE SwapNext
  <2>1. /\ pc = "loaded" /\ pc' = "swap" /\ at < call.size /\ at' = at + 1
        /\ rng' = xorshift(loaded)
        /\ LET j2 == Partner(rng', at, call.size)
           IN  array' = [array EXCEPT ![at] = array[j2], ![j2] = array[at]]
    BY <1>5 DEF SwapNext
  <2>2. rng' \in WordOf(ShiftBits) /\ rng' \in Int
    <3>1. rng' \in WordOf(ShiftBits)
      BY <1>2, <2>1, XorshiftIsWord
    <3> QED BY <3>1 DEF WordOf
  <2> DEFINE j2 == Partner(rng', at, call.size)
             D0 == 0 .. call.size - 1
  <2>3. j2 \in at .. call.size - 1
    BY <1>2, <2>1, <2>2, PartnerRange
  <2>4. Permutes'
    <3>1. at \in D0 /\ j2 \in D0
      BY <1>2, <2>1, <2>3
    <3>2. array' = [array EXCEPT ![at] = array[j2], ![j2] = array[at]]
      BY <2>1
    <3>3. DOMAIN array = D0 /\ {array[i] : i \in D0} = D0
      BY <1>2, <2>1 DEF Permutes, ShufflePlaces
    <3> HIDE DEF j2, D0
    <3>4. DOMAIN array' = D0 /\ {array'[i] : i \in D0} = D0
      BY <3>1, <3>2, <3>3, SwapPermutes
    <3> QED BY <3>4 DEF Permutes, D0
  <2> QED BY <1>1, <1>2, <1>3, <2>1, <2>2, <2>4 DEF ShuffleInv, ShufflePlaces
<1>6. CASE DivideByZero
  <2>1. pc = "loaded" /\ pc' = "crashed" /\ at' = at /\ at = call.size
    BY <1>6 DEF DivideByZero
  <2> QED BY <1>1, <1>2, <1>3, <2>1 DEF ShuffleInv, ShufflePlaces
<1>7. CASE Shuffled
  <2>1. pc = "swap" /\ pc' = "return" /\ at' = at /\ array' = array /\ at >= limit
    BY <1>7 DEF Shuffled, Return, shuffleVars
  <2>2. call.size >= 2
    <3>1. at <= call.size
      BY <1>2, <2>1 DEF ShufflePlaces
    <3> QED BY <1>2, <1>3, <2>1, <3>1
  <2> QED BY <1>1, <1>2, <1>3, <2>1, <2>2 DEF ShuffleInv, ShufflePlaces, Permutes
<1>8. CASE Disturb
  <2>1. /\ pc \in ShufflePlaces /\ pc' = pc /\ UNCHANGED <<loaded, array, at>>
        /\ rng' \in WordOf(ShiftBits)
    BY <1>8 DEF Disturb, Swapping, ShufflePlaces
  <2> QED BY <1>1, <1>2, <1>3, <2>1 DEF ShuffleInv, ShufflePlaces, Permutes
<1>9. CASE LoadSeed
  <2>1. /\ pc = "swap" /\ at < limit /\ pc' = "loaded" /\ loaded' = rng
        /\ UNCHANGED <<rng, array, at>>
    BY <1>9 DEF LoadSeed, Swapping
  <2> QED BY <1>1, <1>2, <1>3, <2>1 DEF ShuffleInv, ShufflePlaces, Permutes
<1> QED BY <1>4, <1>5, <1>6, <1>7, <1>8, <1>9 DEF ShuffleNext

LEMMA ShuffleNextKeeps ==
    ASSUME ShuffleInv, WhereInv, TwisterInv, [Next]_vars
    PROVE  ShuffleInv'
<1>1. call' = call
  BY CallStays
<1>2. CASE ShuffleNext \/ Disturb
  BY <1>1, <1>2, ShuffleStepKeeps
<1>3. CASE UNCHANGED shuffleVars /\ (call.f # "shuffle" \/ UNCHANGED <<call, pc>>)
  <2>1. UNCHANGED <<rng, loaded, array, at>>
    BY <1>3 DEF shuffleVars
  <2>2. CASE pc' = pc
    BY <1>1, <2>1, <2>2 DEF ShuffleInv, Permutes, limit
  <2>3. CASE call.f # "shuffle"
    BY <1>1, <2>1, <2>3 DEF ShuffleInv
  <2> QED BY <1>3, <2>2, <2>3
<1> QED BY <1>2, <1>3, OnlyShuffle

LEMMA ShuffleAlways == Spec => []ShuffleInv
<1>1. Init => ShuffleInv
  BY ShuffleInit
<1>2. ShuffleInv /\ WhereInv /\ TwisterInv /\ [Next]_vars => ShuffleInv'
  BY ShuffleNextKeeps
<1> QED BY <1>1, <1>2, TwisterCorrect, Where, PTL DEF Spec

\* Whenever another thread stores its seed, between the load and the store of a
\* swap too, a shuffle of any array swaps within it and loses no element; and it
\* ends the program just for fewer than two elements.
THEOREM ShuffleCorrect == Spec => []ShufflePermutes
<1>3. ShuffleInv /\ WhereInv => ShufflePermutes
  <2> SUFFICES ASSUME ShuffleInv, WhereInv PROVE ShufflePermutes
    OBVIOUS
  <2> USE DEF WhereInv, PlaceKnown
  <2>1. (pc = "loaded" /\ at < call.size) =>
           \A w \in WordOf(ShiftBits) : Partner(w, at, call.size) \in at .. call.size - 1
    <3> SUFFICES ASSUME pc = "loaded", at < call.size, NEW w \in WordOf(ShiftBits)
                 PROVE  Partner(w, at, call.size) \in at .. call.size - 1
      OBVIOUS
    <3>1. at \in Nat /\ call.size \in Nat /\ w \in Int
      BY DEF ShuffleInv, ShufflePlaces, WordOf
    <3> QED BY <3>1, PartnerRange
  <2> QED BY <2>1 DEF ShuffleInv, ShufflePermutes, Permutes, Returned, ShufflePlaces
<1> QED BY <1>3, ShuffleAlways, Where, PTL

LEMMA AtCounts == Spec => [](at \in Nat)
<1>1. Init => at \in Nat
  BY DEF Init, Idle, ShuffleIdle
<1>2. at \in Nat /\ WhereInv /\ TwisterInv /\ [Next]_vars => (at \in Nat)'
  BY OnlyShuffle DEF ShuffleNext, StartShuffle, LoadSeed, SwapNext, DivideByZero, Shuffled, Disturb, shuffleVars
<1> QED BY <1>1, <1>2, TwisterCorrect, Where, PTL DEF Spec

LEMMA SwapLeaves ==
    ASSUME ShuffleInv, WhereInv, call.f = "shuffle", SwapNext
    PROVE  /\ \A i \in 0 .. at - 1 : array'[i] = array[i]
           /\ loaded = 0 <=> rng' = 0
<1>1. /\ at \in Nat /\ call.size \in Nat /\ at < call.size /\ loaded \in WordOf(ShiftBits)
      /\ rng' = xorshift(loaded) /\ pc = "loaded"
      /\ DOMAIN array = 0 .. call.size - 1
  BY DEF ShuffleInv, SwapNext, Permutes, ShufflePlaces
<1> DEFINE k == Partner(rng', at, call.size)
<1>2. array' = [array EXCEPT ![at] = array[k], ![k] = array[at]]
  BY DEF SwapNext
<1>3. k \in at .. call.size - 1
  <2>1. rng' \in WordOf(ShiftBits)
    BY <1>1, XorshiftIsWord
  <2>2. rng' \in Int
    BY <2>1 DEF WordOf
  <2> QED BY <1>1, <2>2, PartnerRange
<1> HIDE DEF k
<1>4. ASSUME NEW i \in 0 .. at - 1 PROVE array'[i] = array[i]
  <2>1. i # at /\ i # k /\ i \in DOMAIN array
    BY <1>1, <1>3
  <2> QED BY <1>2, <2>1
<1>5. loaded = 0 <=> rng' = 0
  BY <1>1, XorshiftZero
<1> QED BY <1>4, <1>5

\* A swap moves nothing that has been drawn, whatever seeds other threads store
\* before, between and after its load and its store; and what it stores is 0 just
\* if what it has loaded was.
THEOREM SwapsCorrect == Spec => SwapsKeep
<1> DEFINE Kept == /\ pc \in {"swap", "loaded"} => \A i \in 0 .. at - 1 : array'[i] = array[i]
                   /\ at' > at => (loaded = 0 <=> rng' = 0)
<1>1. ASSUME ShuffleInv, WhereInv, TwisterInv, at \in Nat, [Next]_vars
      PROVE  [Kept]_<<call, pc, shuffleVars>>
  <2>1. CASE SwapNext
    <3>1. call.f = "shuffle"
      BY <1>1, <2>1, ShuffleCall DEF ShuffleNext
    <3> QED BY <1>1, <2>1, <3>1, SwapLeaves
  <2>2. CASE StartShuffle
    BY <1>1, <2>2 DEF StartShuffle, Called
  <2>3. CASE Disturb \/ LoadSeed \/ DivideByZero \/ Shuffled \/ UNCHANGED shuffleVars
    <3>1. array' = array /\ at' = at
      BY <2>3 DEF Disturb, LoadSeed, DivideByZero, Shuffled, shuffleVars
    <3> QED BY <1>1, <3>1
  <2> QED BY <1>1, <2>1, <2>2, <2>3, OnlyShuffle DEF ShuffleNext
<1>2. Spec => [][Next]_vars
  BY PTL DEF Spec
<1>3. Spec => []ShuffleInv
  BY ShuffleAlways
<1>4. Spec => [][Kept]_<<call, pc, shuffleVars>>
  BY <1>1, <1>2, <1>3, AtCounts, TwisterCorrect, Where, PTL
<1> QED BY <1>4 DEF SwapsKeep
-----------------------------------------------------------------------------
(* java.util.Random *)

LEMMA RandomPowers ==
    /\ \A k \in 0 .. 2 * SeedBits : 2^k \in Nat /\ 2^k > 0
    /\ 2^SeedBits \in Nat /\ 2^SeedBits > 0
    /\ 2^(IntBits - 1) \in Nat /\ 2^(IntBits - 1) > 0 /\ 2^IntBits = 2 * 2^(IntBits - 1)
<1>1. 2 * SeedBits \in Nat /\ SeedBits \in 0 .. 2 * SeedBits /\ IntBits - 1 \in 0 .. 2 * SeedBits
      /\ IntBits - 1 \in 0 .. 2 * SeedBits - 1 /\ (IntBits - 1) + 1 = IntBits
  BY BitsAssumption
<1>2. \A k \in 0 .. 2 * SeedBits : 2^k \in Nat /\ 2^k > 0
  BY <1>1, PowersPositive, PowersAssumption
<1>3. 2^((IntBits - 1) + 1) = 2 * 2^(IntBits - 1)
  BY <1>1, PowersAssumption DEF PowersTo
<1> QED BY <1>1, <1>2, <1>3

LEMMA ModUnique ==
    ASSUME NEW M \in Nat, M > 0, NEW x \in 0 .. M - 1, NEW k \in Int
    PROVE  (x + M * k) % M = x
OBVIOUS

LEMMA UndoneBy ==
    ASSUME NEW M \in Int, NEW x \in Int, NEW m \in Int, NEW i \in Int, NEW p \in Int, NEW q \in Int,
           NEW y \in Int, m * i = M * p + 1, y = x * m - M * q
    PROVE  y * i = x + M * (x * p - q * i)
<1>1. y * i = x * (m * i) - M * (q * i)
  OBVIOUS
<1>2. x * (m * i) = x + M * (x * p)
  <2>1. x * (M * p + 1) = x + M * (x * p)
    OBVIOUS
  <2> QED BY <2>1
<1>3. x + M * (x * p) - M * (q * i) = x + M * (x * p - q * i)
  OBVIOUS
<1> QED BY <1>1, <1>2, <1>3

\* lcgInverse takes every draw back, whatever multiplier has an inverse.
THEOREM LcgInverse ==
    ASSUME NEW x \in WordOf(SeedBits)
    PROVE  lcg(x) \in WordOf(SeedBits) /\ lcgInverse(lcg(x)) = x
<1> DEFINE M == 2^SeedBits
           q == (x * MULTIPLIER + ADDEND) \div M
           p == (MULTIPLIER * INVERSE_MULTIPLIER) \div M
<1>1. /\ M \in Nat /\ M > 0 /\ x \in 0 .. M - 1
      /\ MULTIPLIER \in Nat /\ ADDEND \in Nat /\ INVERSE_MULTIPLIER \in Nat
  BY RandomPowers, ConstantsAssumption, BitsAssumption DEF WordOf
<1>2. (MULTIPLIER * INVERSE_MULTIPLIER) % M = 1
  BY ConstantsAssumption
<1> HIDE DEF M
<1>3. p \in Int /\ MULTIPLIER * INVERSE_MULTIPLIER = M * p + 1
  BY <1>1, <1>2
<1>4. /\ q \in Int /\ lcg(x) \in 0 .. M - 1
      /\ x * MULTIPLIER + ADDEND = M * q + lcg(x)
  <2>1. lcg(x) = (x * MULTIPLIER + ADDEND) % M
    BY DEF lcg, M
  <2>2. x * MULTIPLIER + ADDEND \in Nat
    BY <1>1
  <2> QED BY <1>1, <2>1, <2>2
<1> HIDE DEF p, q
<1>5. (lcg(x) - ADDEND) * INVERSE_MULTIPLIER = x + M * (x * p - q * INVERSE_MULTIPLIER)
  <2>1. lcg(x) - ADDEND = x * MULTIPLIER - M * q /\ lcg(x) \in Int
    BY <1>1, <1>4
  <2> QED BY <1>1, <1>3, <1>4, <2>1, UndoneBy
<1>6. x * p - q * INVERSE_MULTIPLIER \in Int
  BY <1>1, <1>3, <1>4
<1>7. ((lcg(x) - ADDEND) * INVERSE_MULTIPLIER) % M = x
  BY <1>1, <1>5, <1>6, ModUnique
<1> QED BY <1>4, <1>7 DEF lcgInverse, WordOf, M

LEMMA Monotone ==
    ASSUME NEW b \in Nat, NEW i \in Int, NEW k \in Int, i <= k
    PROVE  b * i <= b * k
<1>1. k - i \in Nat /\ b * (k - i) \in Nat
  OBVIOUS
<1>2. b * k = b * i + b * (k - i)
  OBVIOUS
<1> QED BY <1>1, <1>2

\* The sum of the test leaves the ints, and is negative, for the draws behind the
\* last whole block of bound draws and for no others.
THEOREM RejectsTail ==
    ASSUME NEW d \in WordOf(IntBits - 1), NEW bound \in 1 .. 2^(IntBits - 1)
    PROVE  Rejects(d, bound) <=> d \div bound >= 2^(IntBits - 1) \div bound
<1> DEFINE H == 2^(IntBits - 1)
           k == d \div bound
           c == H \div bound
           sum == d - (d % bound) + (bound - 1)
<1>1. /\ H \in Nat /\ H > 0 /\ 2^IntBits = 2 * H
      /\ d \in 0 .. H - 1 /\ bound \in 1 .. H
  BY RandomPowers, BitsAssumption DEF WordOf
<1>2. Rejects(d, bound) <=> Signed(sum % (2 * H), IntBits) < 0
  BY <1>1 DEF Rejects
<1>3. Signed(sum % (2 * H), IntBits) =
         IF sum % (2 * H) < H THEN sum % (2 * H) ELSE (sum % (2 * H)) - 2 * H
  BY <1>1 DEF Signed
<1> HIDE DEF H
<1>4. k \in Nat /\ d % bound \in 0 .. bound - 1 /\ d = bound * k + (d % bound)
  BY <1>1
<1>5. c \in Nat /\ bound * c <= H /\ H < bound * c + bound
  <2>1. H % bound \in 0 .. bound - 1 /\ c \in Nat /\ H = bound * c + (H % bound)
    BY <1>1
  <2> QED BY <2>1, <1>1
<1> HIDE DEF k, c
<1>6. sum = bound * k + bound - 1 /\ sum \in 0 .. 2 * H - 1
  BY <1>1, <1>4
<1> HIDE DEF sum
<1>7. sum % (2 * H) = sum
  BY <1>1, <1>6
<1>8. Rejects(d, bound) <=> sum >= H
  BY <1>1, <1>2, <1>3, <1>6, <1>7
<1>9. bound * k \in Int /\ bound * c \in Int /\ bound * (k + 1) = bound * k + bound
  BY <1>1, <1>4, <1>5
<1>10. CASE k >= c
  <2>1. bound * c <= bound * k
    BY <1>1, <1>4, <1>5, <1>10, Monotone
  <2>2. sum >= H
    BY <1>1, <1>5, <1>6, <1>9, <2>1
  <2> QED BY <1>8, <1>10, <2>2 DEF k, c, H
<1>11. CASE k < c
  <2>1. bound * (k + 1) <= bound * c
    BY <1>1, <1>4, <1>5, <1>11, Monotone
  <2>2. sum < H
    BY <1>1, <1>5, <1>6, <1>9, <2>1
  <2>3. ~(k >= c)
    BY <1>4, <1>5, <1>11
  <2>4. ~(sum >= H)
    BY <1>1, <1>6, <2>2
  <2> QED BY <1>8, <2>3, <2>4 DEF k, c, H
<1> QED BY <1>4, <1>5, <1>10, <1>11

\* So every result has exactly as many draws that give it as there are whole
\* blocks, one in each block: all results are equally likely.
THEOREM EachResultOncePerBlock ==
    ASSUME NEW bound \in 1 .. 2^(IntBits - 1), NEW x \in 0 .. bound - 1,
           NEW k \in 0 .. (2^(IntBits - 1) \div bound) - 1
    PROVE  LET d == bound * k + x
           IN  /\ d \in WordOf(IntBits - 1)
               /\ d \div bound = k /\ d % bound = x
               /\ ~Rejects(d, bound)
<1> DEFINE H == 2^(IntBits - 1)
           c == H \div bound
           d == bound * k + x
<1>1. H \in Nat /\ bound \in 1 .. H /\ bound \in Nat
  BY RandomPowers, BitsAssumption
<1> HIDE DEF H
<1>2. c \in Nat /\ bound * c <= H
  <2>1. H % bound \in 0 .. bound - 1 /\ c \in Nat /\ H = bound * c + (H % bound)
    BY <1>1
  <2> QED BY <2>1, <1>1
<1>3. k \in 0 .. c - 1
  BY DEF c, H
<1> HIDE DEF c
<1>4. bound * (k + 1) <= bound * c
  BY <1>1, <1>2, <1>3, Monotone
<1>5. bound * (k + 1) = bound * k + bound /\ bound * k \in Nat /\ bound * c \in Nat
  BY <1>1, <1>2, <1>3
<1>6. d \in 0 .. H - 1
  BY <1>1, <1>2, <1>4, <1>5
<1>7. d \div bound = k /\ d % bound = x
  BY <1>1, <1>3
<1> HIDE DEF d
<1>8. d \in WordOf(IntBits - 1)
  BY <1>6 DEF WordOf, H
<1>9. ~Rejects(d, bound)
  <2>1. ~(d \div bound >= c)
    BY <1>2, <1>3, <1>7
  <2> QED BY <1>8, <2>1, RejectsTail DEF c, H
<1> QED BY <1>7, <1>8, <1>9 DEF d

-----------------------------------------------------------------------------
(* The draws of java.util.Random *)

StateWord(x) == x \in WordOf(SeedBits)

\* The state n draws ago, as far as it is looked at.
LEMMA StatesBefore ==
    /\ StateBefore(0) = seed
    /\ StateBefore(1) = lcgInverse(seed)
    /\ StateBefore(2) = lcgInverse(lcgInverse(seed))
<1> DEFINE IsState(f, k) == f = [n \in 0 .. k |-> IF n = 0 THEN seed ELSE lcgInverse(f[n - 1])]
           g(k) == [n \in 0 .. k |-> IF n = 0 THEN seed
                                     ELSE IF n = 1 THEN lcgInverse(seed) ELSE lcgInverse(lcgInverse(seed))]
           w(k) == CHOOSE f : IsState(f, k)
<1>1. ASSUME NEW k \in 0 .. 2 PROVE IsState(g(k), k)
  <2>1. k \in {0, 1, 2}
    OBVIOUS
  <2>2. ASSUME NEW n \in 0 .. k
        PROVE  g(k)[n] = IF n = 0 THEN seed ELSE lcgInverse(g(k)[n - 1])
    <3>1. CASE n = 0
      BY <3>1
    <3>2. CASE n = 1
      BY <3>2
    <3>3. CASE n = 2
      BY <3>3
    <3> QED BY <2>1, <3>1, <3>2, <3>3
  <2> QED BY <2>2
<1>2. ASSUME NEW k \in 0 .. 2 PROVE IsState(w(k), k)
  <2>1. IsState(g(k), k)
    BY <1>1
  <2> HIDE DEF IsState, g
  <2> QED BY <2>1
<1>3. ASSUME NEW k \in 0 .. 2 PROVE StateBefore(k) = w(k)[k]
  BY Zenon DEF StateBefore
<1> HIDE DEF w
<1>4. w(0)[0] = seed
  BY <1>2
<1>5. w(1)[1] = lcgInverse(seed)
  <2>1. IsState(w(1), 1)
    BY <1>2
  <2>2. w(1)[0] = seed /\ w(1)[1] = lcgInverse(w(1)[0])
    BY <2>1
  <2> QED BY <2>2
<1>6. w(2)[2] = lcgInverse(lcgInverse(seed))
  <2>1. IsState(w(2), 2)
    BY <1>2
  <2>2. w(2)[0] = seed /\ w(2)[1] = lcgInverse(w(2)[0]) /\ w(2)[2] = lcgInverse(w(2)[1])
    BY <2>1
  <2> QED BY <2>2
<1> QED BY <1>3, <1>4, <1>5, <1>6

LEMMA DrawWordOf ==
    ASSUME NEW x, StateWord(x)
    PROVE  Draw(x) \in WordOf(IntBits)
<1> DEFINE d == 2^(SeedBits - IntBits)
           e == 2^IntBits
           q == x \div d
<1>1. d \in Nat /\ d > 0 /\ e \in Nat /\ x \in Nat /\ x < e * d
  <2>1. SeedBits - IntBits \in 0 .. 2 * SeedBits /\ IntBits \in 0 .. 2 * SeedBits /\ IntBits \in Nat
        /\ SeedBits - IntBits \in Nat /\ IntBits + (SeedBits - IntBits) = SeedBits
        /\ 2 * SeedBits \in Nat /\ SeedBits <= 2 * SeedBits /\ 2 \in Nat /\ 2 > 0
    BY BitsAssumption
  <2>2. 2^(IntBits + (SeedBits - IntBits)) = 2^IntBits * 2^(SeedBits - IntBits)
    BY <2>1, PowersAssumption, PowersAdd
  <2> QED BY <2>1, <2>2, RandomPowers DEF StateWord, WordOf
<1> HIDE DEF d, e
<1>2. q \in Nat /\ x % d \in 0 .. d - 1 /\ x = q * d + (x % d)
  BY <1>1, DivisionLeaves
<1> HIDE DEF q
<1>3. q < e
  <2>1. CASE q >= e
    <3>1. q * d >= e * d /\ q * d \in Nat /\ e * d \in Nat
      BY <1>1, <1>2, <2>1
    <3> QED BY <1>1, <1>2, <3>1
  <2> QED BY <2>1, <1>1, <1>2
<1> QED BY <1>1, <1>2, <1>3 DEF Draw, ShiftRight, WordOf, d, e, q

\* isSlimeChunk cuts a state into shorts, and seed48_r puts them together again.
LEMMA ShortsJoin ==
    ASSUME NEW x, StateWord(x)
    PROVE  seed48(buf(x)) = x
<1> DEFINE p == Short
           a == x \div p
           b == a \div p
<1>1. p \in Nat /\ p > 0 /\ p^2 = p * p /\ x \in Nat /\ x < p * (p * p)
  <2> DEFINE k == SeedBits \div 3
  <2>1. k \in Nat /\ SeedBits = k + (k + k) /\ k \in 0 .. 2 * SeedBits /\ k + k \in Nat /\ k + k <= 2 * SeedBits
        /\ 2 * SeedBits \in Nat /\ k + (k + k) <= 2 * SeedBits /\ 2 \in Nat /\ 2 > 0
    BY BitsAssumption
  <2>0. p = 2^k
    BY DEF Short
  <2> HIDE DEF k
  <2>2. 2^(k + (k + k)) = 2^k * 2^(k + k) /\ 2^(k + k) = 2^k * 2^k
    BY <2>1, PowersAssumption, PowersAdd
  <2>3. p \in Nat /\ p > 0
    BY <2>0, <2>1, RandomPowers
  <2>4. p^2 = p * p
    <3>1. p^0 = 1 /\ p^(0 + 1) = p * p^0 /\ p^(1 + 1) = p * p^1
      BY PowersAssumption DEF PowersTo, Short
    <3> HIDE DEF p
    <3>2. p^1 = p * 1 /\ p * 1 = p
      BY <2>3, <3>1
    <3> QED BY <3>1, <3>2
  <2> HIDE DEF p
  <2>5. 2^SeedBits = p * (p * p)
    BY <2>0, <2>1, <2>2
  <2>6. x \in Nat /\ x < 2^SeedBits
    BY RandomPowers DEF StateWord, WordOf
  <2> QED BY <2>3, <2>4, <2>5, <2>6
<1>2. seed48(buf(x)) = (x % p) + (a % p) * p + ((x \div (p * p)) % p) * (p * p)
  BY <1>1 DEF seed48, buf
<1> HIDE DEF p
<1>3. a \in Nat /\ x % p \in 0 .. p - 1 /\ x = a * p + (x % p)
  BY <1>1, DivisionLeaves
<1> HIDE DEF a
<1>4. b \in Nat /\ a % p \in 0 .. p - 1 /\ a = b * p + (a % p)
  BY <1>1, <1>3, DivisionLeaves
<1> HIDE DEF b
<1>5. x = b * (p * p) + ((a % p) * p + (x % p)) /\ (a % p) * p + (x % p) \in 0 .. (p * p) - 1
  <2> DEFINE c == x % p
             d == a % p
  <2>1. x = a * p + c /\ a = b * p + d /\ c \in 0 .. p - 1 /\ d \in 0 .. p - 1
    BY <1>3, <1>4
  <2> HIDE DEF c, d
  <2>2. (b * p + d) * p = b * (p * p) + d * p
    BY <1>1, <1>4, <2>1
  <2>3. d * p <= (p - 1) * p /\ (p - 1) * p = p * p - p /\ d * p \in Nat /\ p * p \in Nat
    BY <1>1, <2>1
  <2>4. x = b * (p * p) + d * p + c
    BY <2>1, <2>2
  <2>5. x = b * (p * p) + (d * p + c)
    BY <1>1, <1>4, <2>1, <2>3, <2>4
  <2>6. d * p + c \in 0 .. (p * p) - 1
    BY <1>1, <2>1, <2>3
  <2> QED BY <2>5, <2>6 DEF c, d
<1>6. x \div (p * p) = b
  <2> DEFINE e == p * p
             f == (a % p) * p + (x % p)
  <2>1. e \in Nat /\ e > 0 /\ x \in Int /\ x = b * e + f /\ f \in 0 .. e - 1 /\ b \in Int
    BY <1>1, <1>4, <1>5
  <2> HIDE DEF e, f
  <2>2. x \div e = b
    BY <2>1, DivisionIs
  <2> QED BY <2>2 DEF e
<1>7. b % p = b
  <2>1. b < p
    <3>1. CASE b >= p
      <4>1. b * (p * p) >= p * (p * p)
        BY <1>1, <1>4, <3>1
      <4>2. b * (p * p) \in Nat /\ p * (p * p) \in Nat
        BY <1>1, <1>4
      <4> DEFINE y == b * (p * p)
                 z == p * (p * p)
                 f == (a % p) * p + (x % p)
      <4>3. y \in Nat /\ z \in Nat /\ y >= z /\ x < z /\ x = y + f /\ f >= 0 /\ f \in Int /\ x \in Nat
        BY <1>1, <1>5, <4>1, <4>2
      <4> HIDE DEF y, z, f
      <4> QED BY <4>3
    <3> QED BY <3>1, <1>1, <1>4
  <2> QED BY <1>1, <1>4, <2>1
<1> DEFINE c == x % p
           d == (a % p) * p
           e == b * (p * p)
<1>8. seed48(buf(x)) = c + d + e /\ x = e + (d + c) /\ c \in Int /\ d \in Int /\ e \in Int
  BY <1>1, <1>2, <1>3, <1>4, <1>5, <1>6, <1>7
<1> HIDE DEF c, d, e
<1> QED BY <1>8

\* Both halves can be told from a long.
LEMMA HalvesTold ==
    ASSUME NEW h \in WordOf(IntBits), NEW l \in WordOf(IntBits)
    PROVE  LET x == Joined(h, l)
           IN  /\ x % 2^IntBits = l
               /\ ((x - Signed(l, IntBits)) \div 2^IntBits) % 2^IntBits = h
<1> DEFINE I == 2^IntBits
           W == 2^(2 * IntBits)
           V == 2^(2 * IntBits - 1)
           sh == Signed(h, IntBits)
           sl == Signed(l, IntBits)
           sum == sh * I + sl
           m == sum % W
           x == Joined(h, l)
<1>1. I \in Nat /\ I > 0 /\ W = I * I /\ h \in Nat /\ h < I /\ l \in Nat /\ l < I
  <2>1. IntBits \in Nat /\ 2 * IntBits = IntBits + IntBits /\ IntBits + IntBits <= 2 * SeedBits
        /\ IntBits \in 0 .. 2 * SeedBits /\ 2 * SeedBits \in Nat /\ 2 \in Nat /\ 2 > 0
    BY BitsAssumption
  <2>2. 2^(IntBits + IntBits) = 2^IntBits * 2^IntBits
    BY <2>1, PowersAssumption, PowersAdd
  <2> QED BY <2>1, <2>2, RandomPowers DEF WordOf
<1>2. (sh = h \/ sh = h - I) /\ (sl = l \/ sl = l - I)
  BY DEF Signed
<1>3. x = m \/ x = m - W
  BY DEF Joined, Signed
<1> HIDE DEF I, W, V, sh, sl, x
<1>4. sh \in Int /\ sl \in Int /\ sum \in Int
  BY <1>1, <1>2
<1>5. W \in Nat /\ W > 0
  BY <1>1
<1> HIDE DEF sum
<1> DEFINE q == sum \div W
<1>6. m \in Int /\ q \in Int /\ sum = W * q + m
  BY <1>4, <1>5
<1> HIDE DEF q, m
<1>7. PICK c \in Int : x = sum - c * W
  <2>1. CASE x = m
    <3>1. x = sum - q * W
      BY <1>4, <1>5, <1>6, <2>1
    <3> QED BY <1>6, <3>1
  <2>2. CASE x = m - W
    <3>1. (q + 1) * W = q * W + W
      BY <1>5, <1>6
    <3>2. x = sum - (q + 1) * W /\ q + 1 \in Int
      BY <1>4, <1>5, <1>6, <2>2, <3>1
    <3> QED BY <3>2
  <2> QED BY <1>3, <2>1, <2>2
<1>8. c * W = (c * I) * I
  BY <1>1, <1>7
<1>9. x = (sh - c * I) * I + sl
  <2> DEFINE g == c * I
  <2>1. g \in Int /\ x = sh * I + sl - g * I
    BY <1>1, <1>4, <1>7, <1>8 DEF sum
  <2> HIDE DEF g
  <2>2. (sh - g) * I = sh * I - g * I
    BY <1>1, <1>4, <2>1
  <2>3. x = (sh - g) * I + sl
    <3> DEFINE y == sh * I
               z == g * I
    <3>1. y \in Int /\ z \in Int /\ x = y + sl - z /\ (sh - g) * I = y - z
      BY <1>1, <1>4, <2>1, <2>2
    <3> HIDE DEF y, z
    <3> QED BY <1>4, <3>1
  <2> QED BY <2>3 DEF g
<1> DEFINE g == sh - c * I
<1>10. g \in Int /\ x = g * I + sl
  <2>1. c * I \in Int
    BY <1>1, <1>7
  <2> DEFINE f == c * I
  <2>2. x = (sh - f) * I + sl /\ f \in Int
    BY <1>9, <2>1
  <2> HIDE DEF f
  <2>3. sh - f \in Int
    BY <1>4, <2>2
  <2> QED BY <2>2, <2>3 DEF f
<1>11. g % I = h
  <2>1. c * I \in Int
    BY <1>1, <1>7
  <2>2. CASE sh = h
    <3>1. g = (-c) * I + h
      BY <1>1, <1>7, <2>2
    <3> HIDE DEF g
    <3> QED BY <1>1, <1>7, <1>10, <3>1, DivisionIs
  <2>3. CASE sh = h - I
    <3>1. g = (-c - 1) * I + h /\ -c - 1 \in Int
      BY <1>1, <1>7, <2>3
    <3> HIDE DEF g
    <3> QED BY <1>1, <1>7, <1>10, <3>1, DivisionIs
  <2> QED BY <1>2, <2>2, <2>3
<1> HIDE DEF g
<1>12. x % I = l
  <2>1. CASE sl = l
    BY <1>1, <1>10, <2>1, DivisionIs
  <2>2. CASE sl = l - I
    <3>1. (g - 1) * I = g * I - I /\ g * I \in Int /\ g - 1 \in Int
      BY <1>1, <1>10
    <3> DEFINE f == g * I
    <3>2. x = f + (l - I) /\ (g - 1) * I = f - I /\ f \in Int
      BY <1>10, <2>2, <3>1
    <3> HIDE DEF f
    <3>3. x = (g - 1) * I + l /\ x \in Int
      BY <1>1, <3>2
    <3> DEFINE y == g - 1
    <3>4. y \in Int /\ x = y * I + l /\ x \in Int /\ l \in 0 .. I - 1
      BY <1>1, <3>1, <3>3
    <3> HIDE DEF y
    <3> QED BY <1>1, <3>4, DivisionIs
  <2> QED BY <1>2, <2>1, <2>2
<1>13. (x - sl) \div I = g
  <2>1. x - sl = g * I + 0 /\ x - sl \in Int
    BY <1>1, <1>4, <1>10
  <2> QED BY <1>1, <1>10, <2>1, DivisionIs
<1> QED BY <1>11, <1>12, <1>13 DEF x, I, sl

\* The upper bits of a draw.
LEMMA NextWordOf ==
    ASSUME NEW d \in WordOf(IntBits), NEW k \in 0 .. IntBits
    PROVE  next(d, k) \in WordOf(k)
<1> DEFINE p == 2^(IntBits - k)
           e == 2^k
           q == d \div p
<1>1. p \in Nat /\ p > 0 /\ e \in Nat /\ d \in Nat /\ d < e * p
  <2>1. IntBits - k \in 0 .. 2 * SeedBits /\ k \in 0 .. 2 * SeedBits /\ k \in Nat /\ IntBits \in 0 .. 2 * SeedBits
        /\ IntBits - k \in Nat /\ k + (IntBits - k) = IntBits
        /\ 2 * SeedBits \in Nat /\ IntBits <= 2 * SeedBits /\ 2 \in Nat /\ 2 > 0
    BY BitsAssumption
  <2>2. 2^(k + (IntBits - k)) = 2^k * 2^(IntBits - k)
    BY <2>1, PowersAssumption, PowersAdd
  <2> QED BY <2>1, <2>2, RandomPowers DEF WordOf
<1> HIDE DEF p, e
<1>2. q \in Nat /\ d % p \in 0 .. p - 1 /\ d = q * p + (d % p)
  BY <1>1, DivisionLeaves
<1> HIDE DEF q
<1>3. q < e
  <2>1. CASE q >= e
    <3>1. q * p >= e * p /\ q * p \in Nat /\ e * p \in Nat
      BY <1>1, <1>2, <2>1
    <3> QED BY <1>1, <1>2, <3>1
  <2> QED BY <2>1, <1>1, <1>2
<1> QED BY <1>1, <1>2, <1>3 DEF next, ShiftRight, WordOf, p, e, q

\* Both draws can be told from a double.
LEMMA DoubleTold ==
    ASSUME NEW h \in WordOf(IntBits), NEW l \in WordOf(IntBits)
    PROVE  LET x == next(h, HighBits) * 2^LowBits + next(l, LowBits)
           IN  /\ x \in 0 .. 2^(HighBits + LowBits) - 1
               /\ x \div 2^LowBits = next(h, HighBits) /\ x % 2^LowBits = next(l, LowBits)
<1> DEFINE a == next(h, HighBits)
           b == next(l, LowBits)
           p == 2^LowBits
           e == 2^HighBits
           x == a * p + b
<1>1. a \in 0 .. e - 1 /\ b \in 0 .. p - 1
  BY BitsAssumption, NextWordOf DEF WordOf
<1>2. p \in Nat /\ p > 0 /\ e \in Nat /\ e > 0 /\ 2^(HighBits + LowBits) = e * p
  <2>1. LowBits \in 0 .. 2 * SeedBits /\ HighBits \in 0 .. 2 * SeedBits /\ LowBits \in Nat /\ HighBits \in Nat
        /\ 2 * SeedBits \in Nat /\ HighBits + LowBits <= 2 * SeedBits /\ 2 \in Nat /\ 2 > 0
    BY BitsAssumption
  <2>2. 2^(HighBits + LowBits) = 2^HighBits * 2^LowBits
    BY <2>1, PowersAssumption, PowersAdd
  <2> QED BY <2>1, <2>2, RandomPowers
<1> HIDE DEF a, b, p, e
<1>3. a * p <= (e - 1) * p /\ (e - 1) * p = e * p - p /\ a * p \in Nat /\ e * p \in Nat
  BY <1>1, <1>2
<1>4. x \in 0 .. e * p - 1
  BY <1>1, <1>2, <1>3
<1>5. x \div p = a /\ x % p = b
  BY <1>1, <1>2, <1>4, DivisionIs
<1> QED BY <1>2, <1>4, <1>5 DEF x, a, b, p, e

\* The states of one call: what it found, and at most the last two draws.
Found(x) ==
    /\ call.f \in NextCalls => x = call.seed
    /\ call.f = "isSlimeChunk" => initialScramble(x) = call.seed % 2^SeedBits

Draws0 == draws = <<>> /\ Found(seed)
Draws1 == draws = <<Draw(seed)>> /\ (call.f \in NextCalls => lcgInverse(seed) = call.seed)
Draws2 == /\ draws = <<Draw(lcgInverse(seed)), Draw(seed)>> /\ StateWord(lcgInverse(seed))
          /\ call.f \in NextCalls => lcgInverse(lcgInverse(seed)) = call.seed

DrawsInv ==
    call.f \in RandomFunctions =>
        /\ pc = "call" => draws = <<>>
        /\ pc # "call" => StateWord(seed) /\ (Draws0 \/ Draws1 \/ Draws2)
        /\ pc = "next" => call.f \in NextCalls /\ (Draws0 \/ Draws1)
        /\ pc \in {"bounds", "reject", "result"} => call.f \notin NextCalls
        /\ Returned("nextLong") => Draws2 /\ r = Joined(draws[1], draws[2])
        /\ Returned("nextDouble") =>
              Draws2 /\ r = next(draws[1], HighBits) * 2^LowBits + next(draws[2], LowBits)

LEMMA DrawsInit == ASSUME Init PROVE DrawsInv
<1>1. pc = "call" /\ draws = <<>>
  BY DEF Init, Idle, RandomIdle
<1> QED BY <1>1 DEF DrawsInv, Returned

LEMMA OneAndOne == ASSUME NEW x, NEW y PROVE <<x>> \o <<y>> = <<x, y>>
<1> DEFINE v == <<x>> \o <<y>>
           w == <<x, y>>
<1>1. <<x>> \in Seq({x, y}) /\ <<y>> \in Seq({x, y}) /\ w \in Seq({x, y}) /\ Len(w) = 2 /\ w[1] = x /\ w[2] = y
  OBVIOUS
<1>2. v \in Seq({x, y}) /\ Len(v) = 2 /\ v[1] = x /\ v[2] = y
  BY <1>1
<1> HIDE DEF v, w
<1>3. \A i \in 1 .. 2 : v[i] = w[i]
  <2>1. \A i \in 1 .. 2 : i = 1 \/ i = 2
    OBVIOUS
  <2> QED BY <1>1, <1>2, <2>1
<1>4. v = w
  BY <1>1, <1>2, <1>3, SeqEqual
<1> QED BY <1>4 DEF v, w

\* One draw more.
LEMMA DrawMore ==
    ASSUME StateWord(seed), Draws0 \/ Draws1 \/ Draws2, DrawWord, call' = call
    PROVE  /\ StateWord(seed')
           /\ Draws0 => Draws1'
           /\ Draws1 => Draws2'
           /\ Draws2 /\ call.f \notin NextCalls => Draws2'
<1>1. seed' = lcg(seed) /\ StateWord(seed') /\ lcgInverse(seed') = seed
  BY LcgInverse DEF DrawWord, mrand48, StateWord
<1>2. draws' = (IF draws = <<>> THEN <<>> ELSE <<draws[Len(draws)]>>) \o <<Draw(seed')>>
  BY DEF DrawWord
<1>3. ASSUME draws = <<>> PROVE draws' = <<Draw(seed')>>
  BY <1>2, <1>3
<1>4. ASSUME draws = <<Draw(seed)>> PROVE draws' = <<Draw(seed), Draw(seed')>>
  <2>1. draws # <<>> /\ draws[Len(draws)] = Draw(seed)
    BY <1>4
  <2>2. draws' = <<Draw(seed)>> \o <<Draw(seed')>>
    BY <1>2, <2>1, Zenon
  <2> QED BY <2>2, OneAndOne
<1>5. ASSUME draws = <<Draw(lcgInverse(seed)), Draw(seed)>> PROVE draws' = <<Draw(seed), Draw(seed')>>
  <2>1. draws # <<>> /\ draws[Len(draws)] = Draw(seed)
    BY <1>5
  <2>2. draws' = <<Draw(seed)>> \o <<Draw(seed')>>
    BY <1>2, <2>1, Zenon
  <2> QED BY <2>2, OneAndOne
<1>6. Draws0 => Draws1'
  BY <1>1, <1>3 DEF Draws0, Draws1, Found
<1>7. Draws1 => Draws2'
  BY <1>1, <1>4 DEF Draws1, Draws2
<1>8. Draws2 /\ call.f \notin NextCalls => Draws2'
  BY <1>1, <1>5 DEF Draws2
<1> QED BY <1>1, <1>6, <1>7, <1>8

LEMMA DrawsStep ==
    ASSUME DrawsInv, WhereInv, RandomNext, call' = call
    PROVE  DrawsInv'
<1>1. call.f \in RandomFunctions
  BY RandomCall
<1>0. (Draws0' <=> (draws' = <<>> /\ (call.f \in NextCalls => seed' = call.seed)
                   /\ (call.f = "isSlimeChunk" => initialScramble(seed') = call.seed % 2^SeedBits)))
  BY DEF Draws0, Found
<1>2. CASE Enter
  <2>1. pc = "call" /\ draws = <<>> /\ draws' = <<>> /\ pc' \in {"next", "bounds"}
        /\ (pc' = "next" <=> call.f \in NextCalls)
    BY <1>1, <1>2 DEF Enter, Called, DrawsInv
  <2>2. call.seed \in WordOf(SeedBits)
    <3>1. call \in RandomCalls
      BY <1>1 DEF WhereInv, CallKnown
    <3>2. call.seed \in Seeds
      BY <3>1 DEF RandomCalls
    <3> QED BY <3>2, ArgumentsAssumption
  <2>3. StateWord(seed') /\ (call.f \in NextCalls => seed' = call.seed)
        /\ (call.f = "isSlimeChunk" => initialScramble(seed') = call.seed % 2^SeedBits)
    <3>1. CASE call.f # "isSlimeChunk"
      BY <1>2, <2>2, <3>1 DEF Enter, StateWord
    <3>2. CASE call.f = "isSlimeChunk"
      <4> DEFINE m == MULTIPLIER % 2^SeedBits
                 x == initialScramble(call.seed)
      <4>1. m \in WordOf(SeedBits) /\ SeedBits \in Nat /\ PowersTo(2, SeedBits)
        <5> DEFINE w == 2^SeedBits
        <5>1. w \in Nat /\ w > 0 /\ MULTIPLIER \in Nat
          BY RandomPowers, ConstantsAssumption
        <5> HIDE DEF w
        <5>2. MULTIPLIER % w \in 0 .. w - 1
          BY <5>1
        <5>3. SeedBits \in Nat /\ \A n \in 0 .. SeedBits - 1 : n \in 0 .. 2 * SeedBits - 1
          BY BitsAssumption
        <5>4. PowersTo(2, SeedBits)
          BY <5>3, PowersAssumption DEF PowersTo
        <5> QED BY <5>2, <5>3, <5>4 DEF WordOf, w
      <4>2. m \in Nat /\ call.seed \in Nat
        BY <2>2, <4>1, RandomPowers DEF WordOf
      <4>3. x = Xor(call.seed, m, SeedBits)
        BY DEF initialScramble
      <4> HIDE DEF m, x
      <4>4. x \in WordOf(SeedBits)
        BY <4>1, <4>2, <4>3, XorIsWord
      <4>5. seed' = x
        BY <1>2, <3>2, <4>4, ShortsJoin DEF Enter, StateWord, x
      <4>6. Xor(x, m, SeedBits) = call.seed
        BY <2>2, <4>1, <4>3, XorUndone
      <4>7. initialScramble(seed') = call.seed
        BY <4>5, <4>6 DEF initialScramble, m
      <4>8. call.seed % 2^SeedBits = call.seed
        <5> DEFINE w == 2^SeedBits
        <5>1. w \in Nat /\ w > 0 /\ call.seed \in 0 .. w - 1
          BY <2>2, RandomPowers DEF WordOf
        <5> HIDE DEF w
        <5>2. call.seed % w = call.seed
          BY <5>1
        <5> QED BY <5>2 DEF w
      <4> QED BY <3>2, <4>4, <4>5, <4>7, <4>8 DEF StateWord, NextCalls
    <3> QED BY <3>1, <3>2
  <2> QED BY <1>0, <2>1, <2>3 DEF DrawsInv, Returned
<1>3. ASSUME pc # "call", pc' # "call", UNCHANGED <<seed, draws>>, call.f \notin NextCalls, pc' # "next"
      PROVE  DrawsInv'
  <2>1. StateWord(seed) /\ (Draws0 \/ Draws1 \/ Draws2)
    BY <1>1, <1>3 DEF DrawsInv
  <2>2. StateWord(seed') /\ (Draws0' \/ Draws1' \/ Draws2')
    BY <1>3, <2>1 DEF Draws0, Draws1, Draws2, Found
  <2> QED BY <1>3, <2>2 DEF DrawsInv, Returned, NextCalls
<1>4. CASE RefuseBound \/ Accept \/ Result
  <2>1. pc \in {"bounds", "reject", "result"} /\ pc' # "call" /\ UNCHANGED <<seed, draws>> /\ pc' # "next"
    BY <1>4 DEF RefuseBound, Accept, Result, Return
  <2>2. call.f \notin NextCalls
    BY <1>1, <2>1 DEF DrawsInv
  <2> QED BY <1>3, <2>1, <2>2
<1>5. CASE DrawFirst \/ DrawAgain
  <2>1. pc \in {"bounds", "reject"} /\ DrawWord /\ pc' \in {"result", "reject"}
    BY <1>5 DEF DrawFirst, DrawAgain
  <2>2. call.f \notin NextCalls /\ StateWord(seed) /\ (Draws0 \/ Draws1 \/ Draws2)
    BY <1>1, <2>1 DEF DrawsInv
  <2>3. StateWord(seed') /\ (Draws1' \/ Draws2')
    BY <2>1, <2>2, DrawMore
  <2> QED BY <2>1, <2>2, <2>3 DEF DrawsInv, Returned
<1>6. CASE Next1
  <2>1. pc = "next" /\ draws = <<>> /\ DrawWord /\ pc' \in {"next", "return"}
    BY <1>6 DEF Next1, Return
  <2>2. call.f \in NextCalls /\ StateWord(seed) /\ Draws0
    BY <1>1, <2>1 DEF DrawsInv, Draws1
  <2>3. StateWord(seed') /\ Draws1'
    BY <2>1, <2>2, DrawMore
  <2>4. pc' = "return" => call.f \in {"nextInt", "nextFloat"}
    BY <1>6, <2>1 DEF Next1
  <2> QED BY <2>1, <2>2, <2>3, <2>4 DEF DrawsInv, Returned
<1>7. CASE Next2
  <2>1. pc = "next" /\ draws # <<>> /\ DrawWord /\ pc' = "return"
    BY <1>7 DEF Next2, Return
  <2>2. call.f \in NextCalls /\ StateWord(seed) /\ Draws1
    BY <1>1, <2>1 DEF DrawsInv, Draws0
  <2>3. StateWord(seed') /\ Draws2'
    BY <2>1, <2>2, DrawMore
  <2>4. r' = IF call.f = "nextLong" THEN Joined(draws'[1], draws'[2])
             ELSE next(draws'[1], HighBits) * 2^LowBits + next(draws'[2], LowBits)
    BY <1>7 DEF Next2
  <2> QED BY <2>1, <2>2, <2>3, <2>4 DEF DrawsInv, Returned
<1> QED BY <1>2, <1>4, <1>5, <1>6, <1>7 DEF RandomNext

LEMMA DrawsNextKeeps ==
    ASSUME DrawsInv, WhereInv, TwisterInv, [Next]_vars
    PROVE  DrawsInv'
<1>1. call' = call
  BY CallStays
<1>2. CASE RandomNext
  BY <1>1, <1>2, DrawsStep
<1>3. CASE UNCHANGED randomVars /\ (call.f \notin RandomFunctions \/ UNCHANGED <<call, pc>>)
  BY <1>1, <1>3 DEF DrawsInv, Draws0, Draws1, Draws2, Found, Returned, randomVars
<1> QED BY <1>2, <1>3, OnlyRandom

LEMMA DrawsTell == ASSUME DrawsInv PROVE DrawsTold
<1>1. ASSUME Running
      PROVE  /\ \A k \in 1 .. Len(draws) : draws[k] = Draw(StateBefore(Len(draws) - k))
             /\ call.f \in NextCalls => StateBefore(Len(draws)) = call.seed
             /\ (call.f = "isSlimeChunk" /\ draws = <<>>) =>
                   initialScramble(seed) = call.seed % 2^SeedBits
  <2>1. Draws0 \/ Draws1 \/ Draws2
    BY <1>1 DEF Running, DrawsInv, RandomFunctions
  <2>2. CASE Draws0
    <3>1. Len(draws) = 0
      BY <2>2 DEF Draws0
    <3> QED BY <2>2, <3>1, StatesBefore DEF Draws0, Found
  <2>3. CASE Draws1
    <3>1. Len(draws) = 1 /\ draws[1] = Draw(seed) /\ draws # <<>>
      BY <2>3 DEF Draws1
    <3> QED BY <2>3, <3>1, StatesBefore DEF Draws1
  <2>4. CASE Draws2
    <3>1. Len(draws) = 2 /\ draws[1] = Draw(lcgInverse(seed)) /\ draws[2] = Draw(seed) /\ draws # <<>>
      BY <2>4 DEF Draws2
    <3>2. 2 - 1 = 1 /\ 2 - 2 = 0 /\ \A k \in 1 .. 2 : k = 1 \/ k = 2
      OBVIOUS
    <3>3. \A k \in 1 .. Len(draws) : draws[k] = Draw(StateBefore(Len(draws) - k))
      BY <3>1, <3>2, StatesBefore
    <3> QED BY <2>4, <3>1, <3>3, StatesBefore DEF Draws2
  <2> QED BY <2>1, <2>2, <2>3, <2>4
<1>2. ASSUME Returned("nextLong") \/ Returned("nextDouble")
      PROVE  draws[1] \in WordOf(IntBits) /\ draws[2] \in WordOf(IntBits)
  <2>1. StateWord(seed) /\ Draws2
    BY <1>2 DEF DrawsInv, Returned, RandomFunctions, NextCalls
  <2>2. draws[1] = Draw(lcgInverse(seed)) /\ draws[2] = Draw(seed) /\ StateWord(lcgInverse(seed))
    BY <2>1 DEF Draws2
  <2> QED BY <2>1, <2>2, DrawWordOf
<1>3. ASSUME Returned("nextLong")
      PROVE  LET low == r % 2^IntBits
             IN  /\ draws[2] = low
                 /\ draws[1] = ((r - Signed(low, IntBits)) \div 2^IntBits) % 2^IntBits
  <2>1. r = Joined(draws[1], draws[2])
    BY <1>3 DEF DrawsInv, Returned, RandomFunctions, NextCalls
  <2>2. /\ r % 2^IntBits = draws[2]
        /\ ((r - Signed(draws[2], IntBits)) \div 2^IntBits) % 2^IntBits = draws[1]
    BY <1>2, <1>3, <2>1, HalvesTold
  <2> QED BY <2>2
<1>4. ASSUME Returned("nextDouble")
      PROVE  /\ r \in 0 .. 2^(HighBits + LowBits) - 1
             /\ \A k \in 1 .. 2 : next(draws[k], <<HighBits, LowBits>>[k])
                    = <<r \div 2^LowBits, r % 2^LowBits>>[k]
  <2>1. r = next(draws[1], HighBits) * 2^LowBits + next(draws[2], LowBits)
    BY <1>4 DEF DrawsInv, Returned, RandomFunctions, NextCalls
  <2>2. /\ r \in 0 .. 2^(HighBits + LowBits) - 1
        /\ r \div 2^LowBits = next(draws[1], HighBits) /\ r % 2^LowBits = next(draws[2], LowBits)
    BY <1>2, <1>4, <2>1, DoubleTold
  <2>3. \A k \in 1 .. 2 : k = 1 \/ k = 2
    OBVIOUS
  <2> QED BY <2>2, <2>3
<1> QED BY <1>1, <1>3, <1>4 DEF DrawsTold

LEMMA DrawsAlways == Spec => []DrawsInv
<1>1. Init => DrawsInv
  BY DrawsInit
<1>2. DrawsInv /\ WhereInv /\ TwisterInv /\ [Next]_vars => DrawsInv'
  BY DrawsNextKeeps
<1> QED BY <1>1, <1>2, TwisterCorrect, Where, PTL DEF Spec

\* Whatever the state, each draw can be told from the state behind it, going back
\* with lcgInverse to the state the call found, and a long or a double tells both
\* draws that it was made of.
THEOREM DrawsCorrect == Spec => []DrawsTold
<1>1. DrawsInv => DrawsTold
  BY DrawsTell
<1> QED BY <1>1, DrawsAlways, PTL

-----------------------------------------------------------------------------
(* nextInt(bound) *)

Half == 2^(IntBits - 1)

LEMMA HalfIs == Half \in Nat /\ Half > 0 /\ \A b \in Int : b \in 1 .. Half <=> 1 <= b /\ b <= Half
BY RandomPowers DEF Half

\* The whole blocks of bound draws.
LEMMA BlocksAre ==
    ASSUME NEW bound \in 1 .. Half
    PROVE  LET c == Half \div bound
           IN  c \in Nat /\ c > 0 /\ bound * c <= Half
<1> DEFINE c == Half \div bound
<1>1. Half \in Nat /\ Half > 0 /\ bound \in Nat /\ bound > 0 /\ bound <= Half
  BY HalfIs
<1>2. c \in Nat /\ Half % bound \in 0 .. bound - 1 /\ Half = c * bound + (Half % bound)
  BY <1>1, DivisionLeaves
<1> HIDE DEF c
<1>3. c > 0
  <2>1. CASE c = 0
    <3>1. c * bound = 0
      BY <1>1, <2>1
    <3> QED BY <1>1, <1>2, <3>1
  <2> QED BY <1>2, <2>1
<1>4. bound * c = c * bound /\ c * bound \in Nat
  BY <1>1, <1>2
<1> QED BY <1>1, <1>2, <1>3, <1>4 DEF c

\* A power of two leaves no draws over, and takes the upper bits of the draw.
LEMMA PowerDivides ==
    ASSUME NEW bound, IsPowerOfTwo(bound), NEW d \in WordOf(IntBits - 1)
    PROVE  /\ bound \in 1 .. Half
           /\ Half = bound * (Half \div bound)
           /\ ResultOf(d, bound) = d \div (Half \div bound)
<1>1. PICK k \in 0 .. IntBits - 2 : bound = 2^k
  BY DEF IsPowerOfTwo
<1> DEFINE c == 2^(IntBits - 1 - k)
<1>2. bound \in Nat /\ bound > 0 /\ c \in Nat /\ c > 0 /\ Half = bound * c
  <2>1. /\ k \in Nat /\ IntBits - 1 - k \in Nat /\ k \in 0 .. 2 * SeedBits /\ IntBits - 1 - k \in 0 .. 2 * SeedBits
        /\ k + (IntBits - 1 - k) = IntBits - 1 /\ 2 * SeedBits \in Nat /\ IntBits - 1 <= 2 * SeedBits
        /\ 2 \in Nat /\ 2 > 0
    BY BitsAssumption
  <2>2. 2^(k + (IntBits - 1 - k)) = 2^k * 2^(IntBits - 1 - k)
    BY <2>1, PowersAssumption, PowersAdd
  <2> QED BY <1>1, <2>1, <2>2, RandomPowers DEF Half
<1>3. ResultOf(d, bound) = (bound * d) \div Half
  BY DEF ResultOf, ShiftRight, Half
<1> HIDE DEF c
<1>4. d \in Nat
  BY HalfIs DEF WordOf, Half
<1> HIDE DEF Half
<1>5. Half \div bound = c
  <2>1. Half = c * bound + 0 /\ Half \in Int
    BY <1>2
  <2> QED BY <1>2, <2>1, DivisionIs
<1>6. bound <= Half
  BY <1>2
<1> DEFINE q == d \div c
           e == d % c
<1>7. q \in Nat /\ e \in 0 .. c - 1 /\ d = q * c + e
  BY <1>2, <1>4, DivisionLeaves
<1> HIDE DEF q, e
<1>8. bound * d = q * Half + bound * e
  <2>1. bound * (q * c + e) = q * (bound * c) + bound * e
    BY <1>2, <1>7
  <2> QED BY <1>2, <1>7, <2>1
<1>9. bound * e \in 0 .. Half - 1
  <2>1. bound * e <= bound * (c - 1) /\ bound * (c - 1) = bound * c - bound /\ bound * e \in Nat
    BY <1>2, <1>7
  <2> QED BY <1>2, <2>1
<1>10. (bound * d) \div Half = q
  <2> DEFINE x == bound * d
             y == bound * e
  <2>1. x \in Int /\ y \in 0 .. Half - 1 /\ x = q * Half + y /\ Half \in Nat /\ Half > 0
    BY <1>2, <1>4, <1>8, <1>9
  <2> HIDE DEF x, y
  <2>2. x \div Half = q
    BY <1>7, <2>1, DivisionIs
  <2> QED BY <2>2 DEF x
<1> QED BY <1>2, <1>3, <1>5, <1>6, <1>10 DEF q

\* The draws that are taken for x: one of each block, or the block of x.
Ways(x, bound) == {d \in WordOf(IntBits - 1) : Taken(d, bound) /\ ResultOf(d, bound) = x}

LEMMA CountedBy ==
    ASSUME NEW c \in Nat, c > 0, NEW S, NEW g \in [0 .. c - 1 -> S],
           \A i, k \in 0 .. c - 1 : g[i] = g[k] => i = k,
           \A y \in S : \E i \in 0 .. c - 1 : g[i] = y
    PROVE  Cardinality(S) = c
<1>1. IsFiniteSet(0 .. c - 1) /\ Cardinality(0 .. c - 1) = c
  <2>1. 0 \in Int /\ c - 1 \in Int /\ ~(0 > c - 1) /\ (c - 1) - 0 + 1 = c
    OBVIOUS
  <2> QED BY <2>1, FS_Interval
<1>2. g \in Bijection(0 .. c - 1, S)
  BY DEF Bijection, Injection, Surjection, IsInjective
<1>3. ExistsBijection(0 .. c - 1, S)
  BY <1>2 DEF ExistsBijection
<1> QED BY <1>1, <1>3, FS_Bijection

LEMMA WaysAre ==
    ASSUME NEW bound \in 1 .. Half, NEW x \in 0 .. bound - 1
    PROVE  Cardinality(Ways(x, bound)) = Half \div bound
<1> DEFINE c == Half \div bound
<1>1. /\ c \in Nat /\ c > 0 /\ bound * c <= Half /\ bound \in Nat /\ bound > 0
      /\ Half \in Nat /\ Half > 0 /\ x \in Nat
  BY BlocksAre, HalfIs
<1>2. WordOf(IntBits - 1) = 0 .. Half - 1
  BY DEF WordOf, Half
<1>3. CASE IsPowerOfTwo(bound)
  <2> DEFINE g == [i \in 0 .. c - 1 |-> c * x + i]
  <2>1. \A d \in WordOf(IntBits - 1) : Half = bound * c /\ Taken(d, bound) /\ ResultOf(d, bound) = d \div c
    BY <1>3, PowerDivides DEF Taken
  <2>2. 0 \in WordOf(IntBits - 1)
    BY <1>1, <1>2
  <2>3. Half = bound * c
    BY <2>1, <2>2
  <2> HIDE DEF c
  <2>4. ASSUME NEW i \in 0 .. c - 1 PROVE g[i] \in Ways(x, bound)
    <3> DEFINE d == c * x + i
    <3>1. c * x <= c * (bound - 1) /\ c * (bound - 1) = bound * c - c /\ c * x \in Nat
      BY <1>1
    <3>2. d \in WordOf(IntBits - 1)
      BY <1>1, <1>2, <2>3, <3>1
    <3>3. d = x * c + i /\ d \in Int
      BY <1>1, <3>1
    <3>4. d \div c = x
      BY <1>1, <3>3, DivisionIs
    <3> HIDE DEF d
    <3>5. d \in Ways(x, bound)
      BY <2>1, <3>2, <3>4 DEF Ways
    <3> QED BY <3>5 DEF d
  <2>5. \A i, k \in 0 .. c - 1 : g[i] = g[k] => i = k
    <3>1. c * x \in Int
      BY <1>1
    <3> QED BY <1>1, <3>1
  <2>6. ASSUME NEW y \in Ways(x, bound) PROVE \E i \in 0 .. c - 1 : g[i] = y
    <3>1. y \in Nat /\ y \div c = x
      BY <1>1, <1>2, <2>1, <2>6 DEF Ways
    <3> DEFINE i == y % c
    <3>2. i \in 0 .. c - 1 /\ y = x * c + i
      BY <1>1, <3>1, DivisionLeaves
    <3> HIDE DEF i
    <3>3. x * c = c * x
      BY <1>1
    <3> QED BY <3>2, <3>3
  <2>7. g \in [0 .. c - 1 -> Ways(x, bound)]
    BY <2>4
  <2> HIDE DEF g
  <2>8. Cardinality(Ways(x, bound)) = c
    BY <1>1, <2>5, <2>6, <2>7, CountedBy
  <2> QED BY <2>8 DEF c
<1>4. CASE ~IsPowerOfTwo(bound)
  <2> DEFINE g == [k \in 0 .. c - 1 |-> bound * k + x]
  <2>1. \A d \in WordOf(IntBits - 1) : /\ Taken(d, bound) <=> ~(d \div bound >= c)
                                       /\ ResultOf(d, bound) = d % bound
    BY <1>4, RejectsTail DEF Taken, ResultOf, Half
  <2> HIDE DEF c
  <2>4. ASSUME NEW k \in 0 .. c - 1 PROVE g[k] \in Ways(x, bound)
    <3> DEFINE d == bound * k + x
    <3>1. d \in WordOf(IntBits - 1) /\ d \div bound = k /\ d % bound = x
      BY EachResultOncePerBlock DEF Half, c
    <3> HIDE DEF d
    <3>2. ~(k >= c)
      BY <1>1
    <3>3. d \in Ways(x, bound)
      BY <2>1, <3>1, <3>2 DEF Ways
    <3> QED BY <3>3 DEF d
  <2>5. \A i, k \in 0 .. c - 1 : g[i] = g[k] => i = k
    <3> SUFFICES ASSUME NEW i \in 0 .. c - 1, NEW k \in 0 .. c - 1, g[i] = g[k] PROVE i = k
      OBVIOUS
    <3> DEFINE d == bound * i + x
               e == bound * k + x
    <3>1. d \div bound = i /\ e \div bound = k
      BY EachResultOncePerBlock DEF Half, c
    <3>2. d = e
      OBVIOUS
    <3> HIDE DEF d, e
    <3> QED BY <3>1, <3>2
  <2>6. ASSUME NEW y \in Ways(x, bound) PROVE \E k \in 0 .. c - 1 : g[k] = y
    <3>1. y \in Nat /\ y % bound = x /\ ~(y \div bound >= c)
      BY <1>1, <1>2, <2>1, <2>6 DEF Ways
    <3> DEFINE k == y \div bound
    <3>2. k \in Nat /\ y = k * bound + x /\ ~(k >= c)
      BY <1>1, <3>1, DivisionLeaves
    <3> HIDE DEF k
    <3>3. k * bound = bound * k /\ k \in 0 .. c - 1
      BY <1>1, <3>2
    <3> QED BY <3>2, <3>3
  <2>7. g \in [0 .. c - 1 -> Ways(x, bound)]
    BY <2>4
  <2> HIDE DEF g
  <2>8. Cardinality(Ways(x, bound)) = c
    BY <1>1, <2>5, <2>6, <2>7, CountedBy
  <2> QED BY <2>8 DEF c
<1> QED BY <1>3, <1>4

\* Of the draws that are taken as many give one number as give any other.
THEOREM BoundsFair == ASSUME NEW bound \in 1 .. Half PROVE EquallyLikely(bound)
<1>1. \A x \in 0 .. bound - 1 : Cardinality(Ways(x, bound)) = Half \div bound
  BY WaysAre
<1>2. 0 \in 0 .. bound - 1 /\ Half \div bound > 0
  BY BlocksAre, HalfIs
<1> QED BY <1>1, <1>2 DEF EquallyLikely, Ways

LEMMA ResultWithin ==
    ASSUME NEW bound \in 1 .. Half, NEW d \in WordOf(IntBits - 1)
    PROVE  ResultOf(d, bound) \in 0 .. bound - 1
<1>1. bound \in Nat /\ bound > 0 /\ d \in Nat /\ d < Half
  BY HalfIs DEF WordOf, Half
<1>2. CASE ~IsPowerOfTwo(bound)
  <2>1. d % bound \in 0 .. bound - 1
    BY <1>1
  <2> QED BY <1>2, <2>1 DEF ResultOf
<1>3. CASE IsPowerOfTwo(bound)
  <2> DEFINE c == Half \div bound
             q == d \div c
  <2>1. c \in Nat /\ c > 0 /\ Half = bound * c /\ ResultOf(d, bound) = q
    BY <1>3, BlocksAre, PowerDivides
  <2> HIDE DEF c
  <2>2. q \in Nat /\ d % c \in 0 .. c - 1 /\ d = q * c + (d % c)
    BY <1>1, <2>1, DivisionLeaves
  <2> HIDE DEF q
  <2>3. q < bound
    <3>1. CASE q >= bound
      <4>1. q * c >= bound * c /\ q * c \in Nat /\ bound * c \in Nat
        BY <1>1, <2>1, <2>2, <3>1
      <4> QED BY <1>1, <2>1, <2>2, <4>1
    <3> QED BY <3>1, <1>1, <2>2
  <2> QED BY <1>1, <2>1, <2>2, <2>3
<1> QED BY <1>2, <1>3

\* The states from x on, k draws long.
Orbit(f, x, k) ==
    /\ f \in [0 .. k -> WordOf(SeedBits)]
    /\ f[0] = x
    /\ \A n \in 1 .. k : f[n] = lcg(f[n - 1])

DrawAt(f, n) == next(Draw(f[n]), IntBits - 1)

LEMMA DrawAtWord ==
    ASSUME NEW x, NEW k \in Nat, NEW f, Orbit(f, x, k), NEW n \in 0 .. k
    PROVE  DrawAt(f, n) \in WordOf(IntBits - 1)
<1>1. StateWord(f[n]) /\ IntBits - 1 \in 0 .. IntBits
  BY BitsAssumption DEF Orbit, StateWord
<1>2. Draw(f[n]) \in WordOf(IntBits)
  BY <1>1, DrawWordOf
<1> QED BY <1>1, <1>2, NextWordOf DEF DrawAt

LEMMA NthDrawIs ==
    ASSUME NEW x, NEW k \in Nat, NEW f, Orbit(f, x, k), NEW m \in 0 .. k
    PROVE  NthDraw(x, m) = DrawAt(f, m)
<1> DEFINE IsState(g) == g = [n \in 0 .. m |-> IF n = 0 THEN x ELSE lcg(g[n - 1])]
           g0 == [n \in 0 .. m |-> f[n]]
           w == CHOOSE g : IsState(g)
<1>1. IsState(g0)
  <2>1. ASSUME NEW n \in 0 .. m PROVE g0[n] = IF n = 0 THEN x ELSE lcg(g0[n - 1])
    <3>1. CASE n = 0
      BY <3>1 DEF Orbit
    <3>2. CASE n # 0
      <4>1. n \in 1 .. k /\ n - 1 \in 0 .. m
        BY <3>2
      <4> QED BY <3>2, <4>1 DEF Orbit
    <3> QED BY <3>1, <3>2
  <2> QED BY <2>1
<1>2. IsState(w)
  <2> HIDE DEF IsState, g0
  <2> QED BY <1>1
<1>3. NthDraw(x, m) = next(Draw(w[m]), IntBits - 1)
  BY Zenon DEF NthDraw
<1> HIDE DEF w
<1> DEFINE T == {n \in 0 .. m : w[n] = f[n]}
<1>4. 0 \in T
  BY <1>2 DEF Orbit
<1>5. ASSUME NEW n \in 0 .. m - 1, n \in T PROVE n + 1 \in T
  <2>1. n + 1 \in 0 .. m /\ n + 1 # 0 /\ (n + 1) - 1 = n /\ n + 1 \in 1 .. k
    OBVIOUS
  <2>2. w[n + 1] = lcg(w[n]) /\ f[n + 1] = lcg(f[n])
    BY <1>2, <2>1 DEF Orbit
  <2> QED BY <1>5, <2>1, <2>2
<1>6. m \in T
  <2> HIDE DEF T
  <2>1. 0 .. m \subseteq T
    BY <1>4, <1>5, IntervalInduction
  <2> QED BY <2>1
<1> QED BY <1>3, <1>6 DEF DrawAt

\* The draw that is taken is within one round of the generator: a state that
\* came back would bring the same draws again.
FirstTaken(f, x, k, bound) ==
    /\ Orbit(f, x, k)
    /\ Taken(DrawAt(f, k), bound)
    /\ \A n \in 1 .. k - 1 : ~Taken(DrawAt(f, n), bound)

LEMMA WithinOneRound ==
    ASSUME NEW x, NEW k \in Nat \ {0}, NEW f, NEW bound, FirstTaken(f, x, k, bound)
    PROVE  k <= 2^SeedBits
<1> DEFINE M == 2^SeedBits
           g == [n \in 1 .. M + 1 |-> f[n]]
<1>0. M \in Nat /\ M > 0
  BY RandomPowers
<1> SUFFICES ASSUME k > M PROVE FALSE
  BY <1>0
<1> HIDE DEF M
<1>1. \A n \in 1 .. M + 1 : n \in 0 .. k
  BY <1>0
<1>2. g \in [1 .. M + 1 -> 0 .. M - 1]
  BY <1>1 DEF FirstTaken, Orbit, WordOf, M
<1>3. PICK i, j0 \in 1 .. M + 1 : i # j0 /\ g[i] = g[j0]
  <2>1. /\ IsFiniteSet(1 .. M + 1) /\ Cardinality(1 .. M + 1) = M + 1
        /\ IsFiniteSet(0 .. M - 1) /\ Cardinality(0 .. M - 1) = M
    <3>1. 1 \in Int /\ M + 1 \in Int /\ 0 \in Int /\ M - 1 \in Int /\ ~(1 > M + 1) /\ ~(0 > M - 1)
          /\ (M + 1) - 1 + 1 = M + 1 /\ (M - 1) - 0 + 1 = M
      BY <1>0
    <3> QED BY <3>1, FS_Interval
  <2>2. Cardinality(0 .. M - 1) < Cardinality(1 .. M + 1)
    BY <1>0, <2>1
  <2> DEFINE S0 == 1 .. M + 1
             T0 == 0 .. M - 1
  <2>3. IsFiniteSet(S0) /\ IsFiniteSet(T0) /\ Cardinality(T0) < Cardinality(S0) /\ g \in [S0 -> T0]
    BY <1>2, <2>1, <2>2
  <2> HIDE DEF g, S0, T0
  <2>4. \E a, b \in S0 : a # b /\ g[a] = g[b]
    BY <2>3, FS_PigeonHole
  <2> QED BY <2>4 DEF S0
<1>4. PICK a, b \in 1 .. M + 1 : a < b /\ f[a] = f[b]
  <2>1. f[i] = f[j0]
    BY <1>3
  <2>2. i < j0 \/ j0 < i
    BY <1>0, <1>3
  <2> QED BY <2>1, <2>2
<1> DEFINE T == {n \in b .. k : f[n] = f[n - (b - a)]}
<1>5. b \in T
  <2>1. b - (b - a) = a /\ b \in b .. k
    BY <1>0, <1>4
  <2> QED BY <1>4, <2>1
<1>6. ASSUME NEW n \in b .. k - 1, n \in T PROVE n + 1 \in T
  <2>1. /\ n + 1 \in 1 .. k /\ (n + 1) - (b - a) \in 1 .. k /\ n + 1 \in b .. k
        /\ (n + 1) - 1 = n /\ ((n + 1) - (b - a)) - 1 = n - (b - a)
    BY <1>0, <1>4
  <2>2. f[n + 1] = lcg(f[n]) /\ f[(n + 1) - (b - a)] = lcg(f[n - (b - a)])
    BY <2>1 DEF FirstTaken, Orbit
  <2> QED BY <1>6, <2>1, <2>2
<1>7. k \in T
  <2> HIDE DEF T
  <2>1. b .. k \subseteq T /\ k \in b .. k
    BY <1>0, <1>4, <1>5, <1>6, IntervalInduction
  <2> QED BY <2>1
<1>8. k - (b - a) \in 1 .. k - 1
  BY <1>0, <1>4
<1>9. DrawAt(f, k) = DrawAt(f, k - (b - a))
  BY <1>7 DEF DrawAt
<1> QED BY <1>8, <1>9 DEF FirstTaken

-----------------------------------------------------------------------------
\* How far the draws of nextIntWithBounds have come.
Searching(k, f) ==
    /\ Orbit(f, call.seed, k) /\ seed = f[k] /\ u = DrawAt(f, k)
    /\ ~IsPowerOfTwo(call.bound)
    /\ \A n \in 1 .. k - 1 : ~Taken(DrawAt(f, n), call.bound)

FoundOne(k, f) ==
    FirstTaken(f, call.seed, k, call.bound) /\ r = ResultOf(DrawAt(f, k), call.bound)

FairInv ==
    call.f = "nextIntWithBounds" =>
        /\ pc = "bounds" => seed = call.seed
        /\ pc = "reject" => call.bound > 0 /\ \E k \in Nat \ {0} : \E f : Searching(k, f)
        /\ pc \in {"result", "return"} /\ call.bound > 0 =>
              \E k \in Nat \ {0} : \E f : FoundOne(k, f)

LEMMA FairInit == ASSUME Init PROVE FairInv
BY DEF Init, FairInv

\* One draw more.
LEMMA OrbitMore ==
    ASSUME NEW k \in Nat, NEW f, NEW x, Orbit(f, x, k)
    PROVE  \E g : Orbit(g, x, k + 1) /\ (\A n \in 0 .. k : g[n] = f[n]) /\ g[k + 1] = lcg(f[k])
<1> DEFINE g == [n \in 0 .. k + 1 |-> IF n <= k THEN f[n] ELSE lcg(f[k])]
<1>1. lcg(f[k]) \in WordOf(SeedBits)
  <2>1. f[k] \in WordOf(SeedBits)
    BY DEF Orbit
  <2> QED BY <2>1, LcgInverse
<1>2. (\A n \in 0 .. k : g[n] = f[n]) /\ g[k + 1] = lcg(f[k])
  OBVIOUS
<1>3. g \in [0 .. k + 1 -> WordOf(SeedBits)]
  BY <1>1 DEF Orbit
<1> HIDE DEF g
<1>4. ASSUME NEW n \in 1 .. k + 1 PROVE g[n] = lcg(g[n - 1])
  <2>1. CASE n = k + 1
    <3>1. n - 1 = k /\ k \in 0 .. k
      BY <2>1
    <3> QED BY <1>2, <2>1, <3>1
  <2>2. CASE n # k + 1
    <3>1. n \in 0 .. k /\ n - 1 \in 0 .. k /\ n \in 1 .. k
      BY <2>2
    <3> QED BY <1>2, <3>1 DEF Orbit
  <2> QED BY <2>1, <2>2
<1>5. Orbit(g, x, k + 1)
  BY <1>2, <1>3, <1>4 DEF Orbit
<1> QED BY <1>2, <1>5

LEMMA FairStep ==
    ASSUME FairInv, DrawsInv, WhereInv, RandomNext, call' = call, call.f = "nextIntWithBounds"
    PROVE  FairInv'
<1>0. call.seed \in WordOf(SeedBits) /\ call.f \in RandomFunctions /\ call.f \notin NextCalls
      /\ boundAsked = call.bound /\ call.bound \in Int
  <2>1. call.f \in RandomFunctions /\ call.f \notin NextCalls /\ call.f # "isSlimeChunk"
    BY DEF RandomFunctions, NextCalls
  <2>2. call \in RandomCalls
    BY <2>1 DEF WhereInv, CallKnown
  <2>3. call.seed \in Seeds /\ call.bound \in Bounds
    BY <2>2 DEF RandomCalls, NextCalls
  <2> QED BY <2>1, <2>3, ArgumentsAssumption DEF boundAsked
<1>1. CASE Enter
  <2>1. pc' = "bounds" /\ seed' = call.seed
    BY <1>0, <1>1 DEF Enter, Called, NextCalls
  <2> QED BY <2>1 DEF FairInv
<1>2. CASE RefuseBound
  <2>1. pc' = "return" /\ call.bound <= 0
    BY <1>0, <1>2 DEF RefuseBound, Return
  <2> QED BY <1>0, <2>1 DEF FairInv
<1>3. CASE DrawFirst
  <2>1. pc = "bounds" /\ call.bound > 0 /\ seed' = lcg(seed) /\ seed = call.seed
        /\ u' = next(Draw(seed'), IntBits - 1)
        /\ IF IsPowerOfTwo(call.bound)
           THEN r' = ShiftRight(call.bound * u', IntBits - 1) /\ pc' = "result"
           ELSE r' = u' /\ pc' = "reject"
    BY <1>0, <1>3 DEF DrawFirst, DrawWord, mrand48, FairInv
  <2> DEFINE f0 == [n \in 0 .. 0 |-> call.seed]
  <2>2. Orbit(f0, call.seed, 0) /\ f0[0] = call.seed
    BY <1>0 DEF Orbit
  <2> HIDE DEF f0
  <2>3. PICK f : Orbit(f, call.seed, 0 + 1) /\ f[0 + 1] = lcg(f0[0])
    BY <2>2, OrbitMore
  <2>4. Orbit(f, call.seed, 1) /\ f[1] = seed' /\ u' = DrawAt(f, 1) /\ (\A n \in 1 .. 1 - 1 : FALSE)
        /\ 1 \in Nat \ {0}
    BY <2>1, <2>2, <2>3 DEF DrawAt
  <2>5. CASE IsPowerOfTwo(call.bound)
    <3>1. pc' = "result" /\ r' = ResultOf(DrawAt(f, 1), call.bound) /\ Taken(DrawAt(f, 1), call.bound)
      BY <2>1, <2>4, <2>5 DEF ResultOf, Taken
    <3>2. FoundOne(1, f)'
      BY <2>4, <3>1 DEF FoundOne, FirstTaken
    <3> QED BY <2>4, <3>1, <3>2 DEF FairInv
  <2>6. CASE ~IsPowerOfTwo(call.bound)
    <3>1. pc' = "reject" /\ Searching(1, f)'
      BY <2>1, <2>4, <2>6 DEF Searching
    <3> QED BY <2>1, <2>4, <3>1 DEF FairInv
  <2> QED BY <2>5, <2>6
<1>4. CASE DrawAgain
  <2>1. pc = "reject" /\ pc' = "reject" /\ Rejects(u, call.bound) /\ seed' = lcg(seed)
        /\ u' = next(Draw(seed'), IntBits - 1)
    BY <1>0, <1>4 DEF DrawAgain, DrawWord, mrand48
  <2>2. PICK k \in Nat \ {0} : \E f : Searching(k, f)
    BY <2>1 DEF FairInv
  <2>9. PICK f : Searching(k, f)
    BY <2>2
  <2>3. call.bound > 0
    BY <2>1 DEF FairInv
  <2>4. PICK g : Orbit(g, call.seed, k + 1) /\ (\A n \in 0 .. k : g[n] = f[n]) /\ g[k + 1] = lcg(f[k])
    BY <2>9, OrbitMore DEF Searching
  <2>5. ASSUME NEW n \in 1 .. (k + 1) - 1 PROVE ~Taken(DrawAt(g, n), call.bound)
    <3>1. n \in 0 .. k /\ (n = k \/ n \in 1 .. k - 1)
      OBVIOUS
    <3>2. DrawAt(g, n) = DrawAt(f, n)
      BY <2>4, <3>1 DEF DrawAt
    <3> QED BY <2>1, <2>9, <3>1, <3>2 DEF Searching, Taken
  <2>6. Searching(k + 1, g)'
    BY <2>1, <2>9, <2>4, <2>5 DEF Searching, DrawAt
  <2>7. k + 1 \in Nat \ {0}
    OBVIOUS
  <2> QED BY <2>1, <2>3, <2>6, <2>7 DEF FairInv
<1>5. CASE Accept
  <2>1. pc = "reject" /\ pc' = "result" /\ ~Rejects(u, call.bound) /\ r' = u % call.bound
    BY <1>0, <1>5 DEF Accept
  <2>2. PICK k \in Nat \ {0} : \E f : Searching(k, f)
    BY <2>1 DEF FairInv
  <2>9. PICK f : Searching(k, f)
    BY <2>2
  <2>3. FoundOne(k, f)'
    BY <2>1, <2>9 DEF Searching, FoundOne, FirstTaken, Taken, ResultOf
  <2> QED BY <2>1, <2>3 DEF FairInv
<1>6. CASE Result
  <2>1. pc = "result" /\ pc' = "return" /\ r' = r
    BY <1>6 DEF Result, Return
  <2> QED BY <2>1 DEF FairInv, FoundOne, FirstTaken
<1>7. CASE Next1 \/ Next2
  <2>1. pc = "next"
    BY <1>7 DEF Next1, Next2
  <2> QED BY <1>0, <2>1 DEF DrawsInv
<1> QED BY <1>1, <1>2, <1>3, <1>4, <1>5, <1>6, <1>7 DEF RandomNext

LEMMA FairNextKeeps ==
    ASSUME FairInv, DrawsInv, WhereInv, TwisterInv, [Next]_vars
    PROVE  FairInv'
<1>1. call' = call
  BY CallStays
<1>2. CASE call.f # "nextIntWithBounds"
  BY <1>1, <1>2 DEF FairInv
<1>3. CASE call.f = "nextIntWithBounds" /\ RandomNext
  BY <1>1, <1>3, FairStep
<1>4. CASE call.f = "nextIntWithBounds" /\ ~RandomNext
  <2>1. UNCHANGED randomVars /\ UNCHANGED <<call, pc>>
    BY <1>4, OnlyRandom DEF RandomFunctions
  <2> QED BY <2>1 DEF FairInv, Searching, FoundOne, randomVars
<1> QED BY <1>2, <1>3, <1>4

LEMMA FairFound == ASSUME FairInv, WhereInv PROVE BoundedFair
<1> SUFFICES ASSUME Returned("nextIntWithBounds"), call.bound > 0
             PROVE  /\ r \in 0 .. call.bound - 1
                    /\ call.bound \in FairBounds
                    /\ \E k \in 1 .. 2^SeedBits :
                          /\ Taken(NthDraw(call.seed, k), call.bound)
                          /\ \A n \in 1 .. k - 1 : ~Taken(NthDraw(call.seed, n), call.bound)
                          /\ r = ResultOf(NthDraw(call.seed, k), call.bound)
  BY DEF BoundedFair
<1>1. call.bound \in Bounds /\ call.bound \in 1 .. Half
  <2>1. call \in RandomCalls
    BY DEF WhereInv, CallKnown, Returned, RandomFunctions
  <2>2. call.bound \in Bounds
    BY <2>1 DEF RandomCalls, Returned, NextCalls
  <2>3. call.bound \in Int /\ call.bound < Half
    BY <2>2, ArgumentsAssumption DEF Half
  <2>4. 1 <= call.bound /\ call.bound <= Half
    BY <2>3, HalfIs
  <2> QED BY <2>2, <2>3, <2>4, HalfIs
<1>2. PICK k \in Nat \ {0} : \E f : FoundOne(k, f)
  BY DEF FairInv, Returned
<1>10. PICK f : FoundOne(k, f)
  BY <1>2
<1>3. k \in 1 .. 2^SeedBits
  <2>1. k <= 2^SeedBits
    BY <1>10, WithinOneRound DEF FoundOne
  <2> QED BY <2>1, RandomPowers
<1>4. Orbit(f, call.seed, k)
  BY <1>10 DEF FoundOne, FirstTaken
<1>5. \A n \in 0 .. k : NthDraw(call.seed, n) = DrawAt(f, n) /\ DrawAt(f, n) \in WordOf(IntBits - 1)
  BY <1>4, NthDrawIs, DrawAtWord
<1>6. k \in 0 .. k /\ \A n \in 1 .. k - 1 : n \in 0 .. k
  OBVIOUS
<1>7. /\ Taken(NthDraw(call.seed, k), call.bound)
      /\ \A n \in 1 .. k - 1 : ~Taken(NthDraw(call.seed, n), call.bound)
      /\ r = ResultOf(NthDraw(call.seed, k), call.bound)
  BY <1>10, <1>5, <1>6 DEF FoundOne, FirstTaken
<1>8. r \in 0 .. call.bound - 1
  BY <1>1, <1>5, <1>6, <1>7, ResultWithin
<1>9. call.bound \in FairBounds
  BY <1>1, BoundsFair DEF FairBounds
<1> QED BY <1>3, <1>7, <1>8, <1>9

\* A bounded number, by whatever bound and from whatever state, is what the first
\* draw gives that is taken, which comes within one round of the generator, and
\* it is as likely as any other.
THEOREM BoundsCorrect == Spec => []BoundedFair
<1>1. Init => DrawsInv /\ FairInv
  BY DrawsInit, FairInit
<1>2. DrawsInv /\ WhereInv /\ TwisterInv /\ [Next]_vars => DrawsInv'
  BY DrawsNextKeeps
<1>3. FairInv /\ DrawsInv /\ WhereInv /\ TwisterInv /\ [Next]_vars => FairInv'
  BY FairNextKeeps
<1>4. FairInv /\ WhereInv => BoundedFair
  BY FairFound
<1> QED BY <1>1, <1>2, <1>3, <1>4, TwisterCorrect, Where, PTL DEF Spec

-----------------------------------------------------------------------------
(* Counting zeros *)

\* FrontZeros is what its name says: there always is such a number.
LEMMA FrontTold ==
    ASSUME NEW t, Len(t) \in Nat
    PROVE  /\ FrontZeros(t) \in 0 .. Len(t)
           /\ \A k \in 1 .. FrontZeros(t) : t[k] = 0
           /\ FrontZeros(t) < Len(t) => t[FrontZeros(t) + 1] # 0
<1> DEFINE l == Len(t)
           IsFront(n) == (\A k \in 1 .. n : t[k] = 0) /\ (n < l => t[n + 1] # 0)
           T == {n \in 0 .. l : (\A k \in 1 .. n : t[k] = 0) \/ \E z \in 0 .. l : IsFront(z)}
<1>1. \E z \in 0 .. l : IsFront(z)
  <2>1. 0 \in T
    OBVIOUS
  <2>2. ASSUME NEW n \in 0 .. l - 1, n \in T PROVE n + 1 \in T
    <3>1. CASE \E z \in 0 .. l : IsFront(z)
      BY <3>1
    <3>2. CASE (\A k \in 1 .. n : t[k] = 0) /\ t[n + 1] # 0
      <4>1. n \in 0 .. l /\ IsFront(n)
        BY <3>2
      <4> QED BY <4>1
    <3>3. CASE (\A k \in 1 .. n : t[k] = 0) /\ t[n + 1] = 0
      <4>1. \A k \in 1 .. n + 1 : k \in 1 .. n \/ k = n + 1
        OBVIOUS
      <4> QED BY <3>3, <4>1
    <3> QED BY <2>2, <3>1, <3>2, <3>3
  <2>3. l \in T
    <3>1. 0 \in Int /\ l \in Int /\ 0 \in T /\ \A n \in 0 .. l - 1 : n \in T => n + 1 \in T
      BY <2>1, <2>2
    <3> HIDE DEF T, l
    <3>2. 0 .. l \subseteq T
      BY <3>1, IntervalInduction
    <3> QED BY <3>1, <3>2 DEF l
  <2>4. CASE \A k \in 1 .. l : t[k] = 0
    <3>1. l \in 0 .. l /\ IsFront(l)
      BY <2>4
    <3> QED BY <3>1
  <2> QED BY <2>3, <2>4
<1>2. FrontZeros(t) = CHOOSE z \in 0 .. l : IsFront(z)
  BY Zenon DEF FrontZeros
<1> DEFINE w == CHOOSE z \in 0 .. l : IsFront(z)
<1>3. w \in 0 .. l /\ IsFront(w)
  <2> HIDE DEF IsFront
  <2> QED BY <1>1
<1> HIDE DEF w
<1> QED BY <1>2, <1>3 DEF w

\* Where getNLZ is: what it has skipped by longs are zeros as far as it has
\* looked, which is less far than it believes.
GetNLZInv ==
    LET ripe == call.ripe
        l    == Len(ripe)
    IN  /\ lnlz \in 0 .. longlimit(ripe)
        /\ nlz \in 0 .. l
        /\ lnlz > 0 => \A k \in 1 .. l : k < lnlz + LongSize => ripe[k] = 0
        /\ pc # "call" => /\ lnlz * LongSize <= nlz
                          /\ \A k \in 1 .. nlz : lnlz * LongSize < k => ripe[k] = 0
        /\ pc = "return" => (nlz < l => ripe[nlz + 1] # 0)

ZeroInv ==
    /\ call.f = "getNLZ" => GetNLZInv
    /\ call.f = "numberOfLeadingZeros" => pc # "bytes" /\ (pc = "return" => nlz = numberOfLeadingZeros(call.i))
    /\ call.f = "numberOfTrailingZeros" => pc # "bytes" /\ (pc = "return" => nlz = numberOfTrailingZeros(call.i))

LEMMA LimitIs ==
    ASSUME WhereInv, call.f = "getNLZ"
    PROVE  LET ripe == call.ripe
               l    == Len(ripe)
           IN  /\ ripe \in Seq(0 .. 255) /\ l \in Nat
               /\ longlimit(ripe) \in Nat /\ longlimit(ripe) * LongSize <= l
<1> DEFINE ripe == call.ripe
           l == Len(ripe)
           c == l \div LongSize
<1>1. call \in ZeroCalls
  BY DEF WhereInv, CallKnown, ZeroFunctions
<1>2. ripe \in Hashes
  BY <1>1 DEF ZeroCalls
<1>3. ripe \in Seq(0 .. 255)
  BY <1>2, CountedAssumption
<1>4. l \in Nat
  BY <1>3
<1>5. LongSize \in Nat /\ LongSize > 0
  BY HalvesAssumption
<1> HIDE DEF l
<1>6. c \in Nat /\ l % LongSize \in 0 .. LongSize - 1 /\ l = c * LongSize + (l % LongSize)
  BY <1>4, <1>5, DivisionLeaves
<1> HIDE DEF c
<1>7. c * LongSize <= l
  BY <1>4, <1>5, <1>6
<1> QED BY <1>3, <1>4, <1>6, <1>7 DEF longlimit, c, l

LEMMA ZeroInit == ASSUME Init, WhereInv PROVE ZeroInv
<1>1. pc = "call" /\ lnlz = 0 /\ nlz = 0
  BY DEF Init, Idle, ZeroIdle
<1>2. ASSUME call.f = "getNLZ" PROVE GetNLZInv
  <2>1. 0 \in 0 .. longlimit(call.ripe) /\ 0 \in 0 .. Len(call.ripe)
    BY <1>2, LimitIs
  <2> QED BY <1>1, <2>1 DEF GetNLZInv
<1> QED BY <1>1, <1>2 DEF ZeroInv

LEMMA GetNLZStep ==
    ASSUME GetNLZInv, WhereInv, call.f = "getNLZ", ZeroNext, call' = call
    PROVE  GetNLZInv'
<1> DEFINE ripe == call.ripe
           l == Len(ripe)
           c == longlimit(ripe)
<1>1. ripe \in Seq(0 .. 255) /\ l \in Nat /\ c \in Nat /\ c * LongSize <= l
  BY LimitIs
<1>2. LongSize \in Nat /\ LongSize > 0
  BY HalvesAssumption
<1>3. ripe' = ripe /\ l' = l /\ c' = c
  OBVIOUS
<1>4. /\ lnlz \in 0 .. c /\ nlz \in 0 .. l
      /\ lnlz > 0 => \A k \in 1 .. l : k < lnlz + LongSize => ripe[k] = 0
      /\ pc # "call" => /\ lnlz * LongSize <= nlz
                        /\ \A k \in 1 .. nlz : lnlz * LongSize < k => ripe[k] = 0
  BY DEF GetNLZInv
<1>5. SUFFICES /\ lnlz' \in 0 .. c /\ nlz' \in 0 .. l
               /\ lnlz' > 0 => \A k \in 1 .. l : k < lnlz' + LongSize => ripe[k] = 0
               /\ pc' # "call" => /\ lnlz' * LongSize <= nlz'
                                  /\ \A k \in 1 .. nlz' : lnlz' * LongSize < k => ripe[k] = 0
               /\ pc' = "return" => (nlz' < l => ripe[nlz' + 1] # 0)
  BY <1>3 DEF GetNLZInv
<1>6. CASE SkipLong
  <2>1. /\ pc = "call" /\ pc' = pc /\ nlz' = nlz /\ lnlz' = lnlz + 1 /\ lnlz < c
        /\ \A k \in lnlz + 1 .. lnlz + LongSize : k <= l => ripe[k] = 0
    BY <1>6 DEF SkipLong, Called, LongIsZero
  <2> HIDE DEF ripe, l, c
  <2>2. ASSUME NEW k \in 1 .. l, k < lnlz' + LongSize PROVE ripe[k] = 0
    <3>1. CASE k > lnlz
      <4>1. k \in lnlz + 1 .. lnlz + LongSize /\ k <= l
        BY <1>1, <1>2, <1>4, <2>1, <2>2, <3>1
      <4> QED BY <2>1, <4>1
    <3>2. CASE ~(k > lnlz)
      <4>1. lnlz > 0 /\ k < lnlz + LongSize
        BY <1>1, <1>2, <1>4, <3>2
      <4> QED BY <1>4, <4>1
    <3> QED BY <3>1, <3>2
  <2>3. lnlz' \in 0 .. c
    BY <1>1, <1>4, <2>1
  <2> QED BY <1>4, <2>1, <2>2, <2>3
<1>7. CASE LongsSkipped
  <2>1. pc = "call" /\ pc' = "bytes" /\ nlz' = lnlz * LongSize /\ lnlz' = lnlz
    BY <1>7 DEF LongsSkipped, Called
  <2> HIDE DEF ripe, l, c
  <2>2. nlz' \in Nat /\ nlz' <= l
    <3>1. lnlz * LongSize <= c * LongSize /\ lnlz * LongSize \in Nat /\ c * LongSize \in Nat
      BY <1>1, <1>2, <1>4
    <3> QED BY <1>1, <2>1, <3>1
  <2>3. \A k \in 1 .. nlz' : ~(lnlz' * LongSize < k)
    BY <2>1, <2>2
  <2> QED BY <1>1, <1>4, <2>1, <2>2, <2>3
<1>8. CASE SkipByte
  <2>1. pc = "bytes" /\ pc' = pc /\ nlz' = nlz + 1 /\ lnlz' = lnlz /\ nlz < l /\ ripe[nlz + 1] = 0
    BY <1>8 DEF SkipByte, ByteIsZero
  <2> HIDE DEF ripe, l, c
  <2>2. nlz' \in 0 .. l
    BY <1>1, <1>4, <2>1
  <2>3. ASSUME NEW k \in 1 .. nlz', lnlz' * LongSize < k PROVE ripe[k] = 0
    <3>1. k \in 1 .. nlz \/ k = nlz + 1
      BY <1>4, <2>1
    <3> QED BY <1>4, <2>1, <2>3, <3>1
  <2>4. lnlz' * LongSize <= nlz'
    <3>1. lnlz * LongSize <= nlz /\ lnlz * LongSize \in Nat
      BY <1>1, <1>2, <1>4, <2>1
    <3> QED BY <1>1, <1>4, <2>1, <3>1
  <2> QED BY <1>4, <2>1, <2>2, <2>3, <2>4
<1>9. CASE BytesSkipped
  <2>1. pc = "bytes" /\ pc' = "return" /\ nlz' = nlz /\ lnlz' = lnlz /\ (nlz < l => ripe[nlz + 1] # 0)
    BY <1>9 DEF BytesSkipped, ByteIsZero, Return, zeroVars
  <2> HIDE DEF ripe, l, c
  <2> QED BY <1>4, <2>1
<1>10. CASE CountBits
  BY <1>10 DEF CountBits, Called
<1> QED BY <1>6, <1>7, <1>8, <1>9, <1>10 DEF ZeroNext

LEMMA ZeroNextKeeps ==
    ASSUME ZeroInv, WhereInv, TwisterInv, [Next]_vars
    PROVE  ZeroInv'
<1>1. call' = call
  BY CallStays
<1>2. ZeroNext \/ (UNCHANGED zeroVars /\ (call.f \notin ZeroFunctions \/ UNCHANGED <<call, pc>>))
  BY OnlyZero
<1>3. CASE call.f = "getNLZ"
  <2>1. CASE ZeroNext
    BY <1>1, <1>3, <2>1, GetNLZStep DEF ZeroInv
  <2>2. CASE UNCHANGED zeroVars /\ UNCHANGED <<call, pc>>
    BY <1>3, <2>2 DEF ZeroInv, GetNLZInv, zeroVars
  <2> QED BY <1>2, <1>3, <2>1, <2>2 DEF ZeroFunctions
<1>4. CASE call.f \in {"numberOfLeadingZeros", "numberOfTrailingZeros"}
  <2>1. CASE ZeroNext
    <3>1. CountBits \/ pc = "bytes"
      BY <1>4, <2>1 DEF ZeroNext, SkipLong, LongsSkipped, SkipByte, BytesSkipped, Called
    <3>2. CountBits
      BY <1>4, <3>1 DEF ZeroInv
    <3> QED BY <1>1, <1>4, <3>2 DEF CountBits, ZeroInv, Return
  <2>2. CASE UNCHANGED zeroVars /\ UNCHANGED <<call, pc>>
    BY <1>4, <2>2 DEF ZeroInv, zeroVars
  <2> QED BY <1>2, <1>4, <2>1, <2>2 DEF ZeroFunctions
<1>5. CASE call.f \notin ZeroFunctions
  BY <1>1, <1>5 DEF ZeroInv, ZeroFunctions
<1> QED BY <1>3, <1>4, <1>5 DEF ZeroFunctions

\* getNLZ is wrong only where it has skipped two longs: then more than a long is
\* zero, and two longs fit.
LEMMA GetNLZTells ==
    ASSUME GetNLZInv, WhereInv, Returned("getNLZ")
    PROVE  LET zeros == FrontZeros(call.ripe)
           IN  /\ nlz \in zeros .. Len(call.ripe)
               /\ zeros <= LongSize \/ Len(call.ripe) < 2 * LongSize => nlz = zeros
<1> DEFINE ripe == call.ripe
           l == Len(ripe)
           c == longlimit(ripe)
           z == FrontZeros(ripe)
<1>0. pc = "return" /\ call.f = "getNLZ"
  BY DEF Returned
<1>1. l \in Nat /\ c \in Nat /\ c * LongSize <= l
  BY <1>0, LimitIs
<1>2. LongSize \in Nat /\ LongSize > 0
  BY HalvesAssumption
<1>3. /\ lnlz \in 0 .. c /\ nlz \in 0 .. l
      /\ lnlz > 0 => \A k \in 1 .. l : k < lnlz + LongSize => ripe[k] = 0
      /\ lnlz * LongSize <= nlz
      /\ \A k \in 1 .. nlz : lnlz * LongSize < k => ripe[k] = 0
      /\ nlz < l => ripe[nlz + 1] # 0
  BY <1>0 DEF GetNLZInv
<1>4. z \in 0 .. l /\ (\A k \in 1 .. z : ripe[k] = 0) /\ (z < l => ripe[z + 1] # 0)
  BY <1>1, FrontTold
<1> HIDE DEF ripe, l, c, z
<1>5. z <= nlz
  <2>1. CASE nlz < z
    <3>1. nlz + 1 \in 1 .. z /\ nlz < l
      BY <1>1, <1>3, <1>4, <2>1
    <3> QED BY <1>3, <1>4, <3>1
  <2> QED BY <1>1, <1>3, <1>4, <2>1
<1>6. ASSUME lnlz < 2 PROVE nlz = z
  <2>1. \A k \in 1 .. nlz : ripe[k] = 0
    <3>1. CASE lnlz = 0
      <4>1. lnlz * LongSize = 0
        BY <1>2, <3>1
      <4> QED BY <1>3, <4>1
    <3>2. CASE lnlz = 1
      <4>1. lnlz * LongSize = LongSize
        BY <1>2, <3>2
      <4>2. ASSUME NEW k \in 1 .. nlz PROVE ripe[k] = 0
        <5>1. k \in 1 .. l /\ (LongSize < k \/ k < lnlz + LongSize)
          BY <1>1, <1>2, <1>3, <3>2
        <5> QED BY <1>3, <3>2, <4>1, <5>1
      <4> QED BY <4>2
    <3> QED BY <1>3, <1>6, <3>1, <3>2
  <2>2. CASE z < nlz
    <3>1. z + 1 \in 1 .. nlz /\ z < l
      BY <1>1, <1>3, <1>4, <2>2
    <3> QED BY <1>4, <2>1, <3>1
  <2> QED BY <1>1, <1>3, <1>4, <1>5, <2>2
<1>7. ASSUME lnlz >= 2 PROVE z > LongSize /\ l >= 2 * LongSize
  <2>1. l >= 2 * LongSize
    <3>1. c * LongSize >= 2 * LongSize /\ c * LongSize \in Nat /\ 2 * LongSize \in Nat
      BY <1>1, <1>2, <1>3, <1>7
    <3> QED BY <1>1, <3>1
  <2>2. CASE z <= LongSize
    <3>1. z < l /\ z + 1 \in 1 .. l /\ z + 1 < lnlz + LongSize
      BY <1>1, <1>2, <1>3, <1>4, <1>7, <2>1, <2>2
    <3> QED BY <1>3, <1>4, <1>7, <3>1
  <2> QED BY <1>2, <1>4, <2>1, <2>2
<1>8. nlz \in z .. l
  BY <1>1, <1>3, <1>4, <1>5
<1>9. z <= LongSize \/ l < 2 * LongSize => nlz = z
  BY <1>1, <1>2, <1>3, <1>4, <1>6, <1>7
<1> QED BY <1>8, <1>9 DEF z, l, ripe

LEMMA PowersGrow ==
    ASSUME NEW n \in Nat, PowersTo(2, n), NEW a \in 0 .. n, NEW b \in a .. n
    PROVE  2^a \in Nat /\ 2^a > 0 /\ 2^(b - a) \in Nat /\ 2^(b - a) > 0 /\ 2^b = 2^a * 2^(b - a) /\ 2^a <= 2^b
<1>0. \A k \in 0 .. n : 2^k \in Nat /\ 2^k > 0
  BY PowersPositive
<1> DEFINE c == b - a
<1>1. a \in Nat /\ c \in Nat /\ c \in 0 .. n /\ a + c = b /\ a + c <= n /\ 2 \in Nat /\ 2 > 0
  OBVIOUS
<1> HIDE DEF c
<1>2. 2^(a + c) = 2^a * 2^c
  BY <1>1, PowersAdd
<1> DEFINE p == 2^a
           q == 2^c
<1>3. p \in Nat /\ p > 0 /\ q \in Nat /\ q > 0 /\ 2^b = p * q
  BY <1>0, <1>1, <1>2
<1> HIDE DEF p, q
<1>4. p <= p * q
  BY <1>3
<1> QED BY <1>3, <1>4 DEF p, q, c

\* Of two words the bits that are set in both.
LEMMA AndPrefix ==
    ASSUME NEW n \in Nat, PowersTo(2, n), NEW a \in Nat, NEW b \in Nat
    PROVE  \E v : /\ v[0] = 0
                  /\ \A k \in 1 .. n : v[k] = v[k - 1] + (Bit(a, k - 1) * Bit(b, k - 1)) * 2^(k - 1)
                  /\ v[n] = And(a, b, n)
<1> DEFINE bit(k) == Bit(a, k) * Bit(b, k)
           F == [k \in 0 + 1 .. n |-> [x \in Int |-> x + bit(k - 1) * 2^(k - 1)]]
           IsAnd(v) == v = [k \in 0 .. n |-> IF k = 0 THEN 0 ELSE v[k - 1] + bit(k - 1) * 2^(k - 1)]
           w == CHOOSE v : IsAnd(v)
<1>0. \A k \in 0 .. n : 2^k \in Nat /\ 2^k > 0
  BY PowersPositive
<1>1. F \in [0 + 1 .. n -> [Int -> Int]]
  <2>1. ASSUME NEW k \in 0 + 1 .. n PROVE bit(k - 1) * 2^(k - 1) \in Int
    <3>1. k - 1 \in 0 .. n /\ k - 1 \in Nat
      OBVIOUS
    <3>2. Bit(a, k - 1) \in 0 .. 1 /\ Bit(b, k - 1) \in 0 .. 1
      BY <1>0, <3>1, XorBits
    <3>3. 2^(k - 1) \in Nat
      BY <1>0, <3>1
    <3> DEFINE c == Bit(a, k - 1)
               d == Bit(b, k - 1)
               e == 2^(k - 1)
    <3>4. c \in Int /\ d \in Int /\ e \in Int
      BY <3>2, <3>3
    <3> HIDE DEF c, d, e
    <3>5. (c * d) * e \in Int
      BY <3>4
    <3> QED BY <3>5 DEF c, d, e
  <2> HIDE DEF bit
  <2> QED BY <2>1
<1>2. \E f : Recurs(f, Int, 0, F, 0, n)
  <2>1. 0 \in Int /\ n \in Int
    OBVIOUS
  <2> HIDE DEF F
  <2> QED BY <1>1, <2>1, RecursionDefines, Zenon
<1>3. PICK f : Recurs(f, Int, 0, F, 0, n)
  BY <1>2
<1> HIDE DEF bit
<1>4. IsAnd(f)
  <2> HIDE DEF F
  <2>1. f \in [0 .. n -> Int] /\ f = [k \in 0 .. n |-> IF k = 0 THEN 0 ELSE F[k][f[k - 1]]]
    BY <1>3 DEF Recurs
  <2>2. ASSUME NEW k \in 0 .. n, k # 0 PROVE F[k][f[k - 1]] = f[k - 1] + bit(k - 1) * 2^(k - 1)
    <3>1. k \in 0 + 1 .. n /\ k - 1 \in 0 .. n
      BY <2>2
    <3>2. f[k - 1] \in Int
      BY <2>1, <3>1
    <3> QED BY <3>1, <3>2 DEF F
  <2> QED BY <2>1, <2>2
<1>5. IsAnd(w)
  <2> HIDE DEF IsAnd
  <2> QED BY <1>4
<1>6. And(a, b, n) = w[n]
  BY Zenon DEF And, FromBits, bit
<1> HIDE DEF w
<1>7. w[0] = 0 /\ \A k \in 1 .. n : w[k] = w[k - 1] + bit(k - 1) * 2^(k - 1)
  BY <1>5
<1> QED BY <1>6, <1>7 DEF bit

\* Ones below the bit t and zeros above.
LEMMA AndBelow ==
    ASSUME NEW n \in Nat, PowersTo(2, n), NEW a \in Nat, NEW b \in Nat, NEW t \in 0 .. n,
           \A k \in 0 .. t - 1 : Bit(a, k) * Bit(b, k) = 1,
           \A k \in t .. n - 1 : Bit(a, k) * Bit(b, k) = 0
    PROVE  And(a, b, n) = 2^t - 1
<1>0. \A k \in 0 .. n : 2^k \in Nat /\ 2^k > 0
  BY PowersPositive
<1>1. PICK v : /\ v[0] = 0
               /\ \A k \in 1 .. n : v[k] = v[k - 1] + (Bit(a, k - 1) * Bit(b, k - 1)) * 2^(k - 1)
               /\ v[n] = And(a, b, n)
  BY AndPrefix
<1> DEFINE T == {k \in 0 .. n : v[k] = IF k <= t THEN 2^k - 1 ELSE 2^t - 1}
<1>2. 0 \in T
  BY <1>1 DEF PowersTo
<1>3. ASSUME NEW k \in 0 .. n - 1, k \in T PROVE k + 1 \in T
  <2> DEFINE p == 2^k
             q == 2^t
  <2>1. p \in Nat /\ q \in Nat /\ 2^(k + 1) = 2 * p
    BY <1>0 DEF PowersTo
  <2>2. v[k + 1] = v[k] + (Bit(a, k) * Bit(b, k)) * p
    <3>1. k + 1 \in 1 .. n /\ (k + 1) - 1 = k
      OBVIOUS
    <3> QED BY <1>1, <3>1
  <2>3. CASE k < t
    <3>1. v[k] = p - 1 /\ k \in 0 .. t - 1 /\ k + 1 <= t
      BY <1>3, <2>3
    <3>2. v[k + 1] = (p - 1) + 1 * p
      BY <2>2, <3>1
    <3> HIDE DEF p, q
    <3>3. v[k + 1] = 2 * p - 1
      BY <2>1, <3>2
    <3> QED BY <2>1, <3>1, <3>3 DEF p
  <2>4. CASE ~(k < t)
    <3>1. v[k] = q - 1 /\ k \in t .. n - 1 /\ ~(k + 1 <= t)
      BY <1>3, <2>4
    <3>2. v[k + 1] = (q - 1) + 0 * p
      BY <2>2, <3>1
    <3> HIDE DEF p, q
    <3>3. v[k + 1] = q - 1
      BY <2>1, <3>2
    <3> QED BY <3>1, <3>3 DEF q
  <2> QED BY <2>3, <2>4
<1>4. n \in T
  <2>1. 0 \in Int /\ n \in Int /\ 0 \in T /\ (\A k \in 0 .. n - 1 : k \in T => k + 1 \in T) /\ n \in 0 .. n
    BY <1>2, <1>3
  <2> HIDE DEF T
  <2>2. 0 .. n \subseteq T
    BY <2>1, IntervalInduction
  <2> QED BY <2>1, <2>2
<1>5. v[n] = 2^t - 1
  <2>1. n <= t => n = t
    OBVIOUS
  <2> QED BY <1>4, <2>1
<1> QED BY <1>1, <1>5

\* The complement of a word.
LEMMA BitOfComplement ==
    ASSUME NEW n \in Nat, PowersTo(2, n), NEW a \in WordOf(n), NEW k \in 0 .. n - 1
    PROVE  /\ 2^n - 1 - a \in WordOf(n)
           /\ Bit(a, k) \in 0 .. 1
           /\ Bit(2^n - 1 - a, k) = 1 - Bit(a, k)
<1> DEFINE p == 2^k
           e == 2^(n - (k + 1))
           m == 2^n
           q == a \div p
           l == a % p
<1>1. p \in Nat /\ p > 0 /\ e \in Nat /\ m = (2 * p) * e
  <2>1. k \in 0 .. n /\ k + 1 \in 0 .. n /\ n \in (k + 1) .. n
    OBVIOUS
  <2>2. 2^(k + 1) = 2 * 2^k
    BY DEF PowersTo
  <2>3. 2^n = 2^(k + 1) * 2^(n - (k + 1)) /\ 2^(n - (k + 1)) \in Nat
    BY <2>1, PowersGrow
  <2>4. p \in Nat /\ p > 0
    BY <2>1, PowersPositive
  <2> QED BY <2>2, <2>3, <2>4
<1>2. a \in 0 .. m - 1
  BY DEF WordOf
<1> HIDE DEF p, e, m
<1>3. q \in Nat /\ l \in 0 .. p - 1 /\ a = q * p + l
  BY <1>1, <1>2, DivisionLeaves
<1> HIDE DEF q, l
<1> DEFINE x == m - 1 - a
           g == 2 * e - 1 - q
<1>4. m \in Nat /\ x \in 0 .. m - 1 /\ x \in Int
  <2>1. m \in Nat
    BY <1>1
  <2> QED BY <1>2, <2>1
<1>5. x = g * p + (p - 1 - l) /\ p - 1 - l \in 0 .. p - 1 /\ g \in Int
  <2>1. g * p = (2 * p) * e - p - q * p
    BY <1>1, <1>3
  <2>2. q * p \in Int /\ (2 * p) * e \in Int
    BY <1>1, <1>3
  <2> DEFINE y == q * p
             h == (2 * p) * e
             f == g * p
  <2>3. f = h - p - y /\ a = y + l /\ m = h /\ y \in Int /\ h \in Int
    BY <1>1, <1>3, <2>1, <2>2
  <2>4. g \in Int
    BY <1>1, <1>3
  <2> HIDE DEF y, h, f, g
  <2>5. x = f + (p - 1 - l)
    BY <1>1, <1>3, <2>3
  <2> QED BY <1>1, <1>3, <2>4, <2>5 DEF f
<1>6. q % 2 \in 0 .. 1 /\ g % 2 = 1 - (q % 2)
  BY <1>1, <1>3
<1> HIDE DEF g, x
<1>7. x \div p = g
  <2> DEFINE y == p - 1 - l
  <2>1. y \in 0 .. p - 1 /\ x = g * p + y
    BY <1>5
  <2> HIDE DEF y
  <2> QED BY <1>1, <1>4, <1>5, <2>1, DivisionIs
<1>8. Bit(x, k) = g % 2 /\ Bit(a, k) = q % 2
  BY <1>7 DEF Bit, p, q
<1>9. x \in WordOf(n)
  BY <1>4 DEF WordOf, m
<1> QED BY <1>6, <1>8, <1>9 DEF x, m

LEMMA BitOfZero == ASSUME NEW k, 2^k \in Nat, 2^k > 0 PROVE Bit(0, k) = 0
<1> DEFINE p == 2^k
<1>1. p \in Nat /\ p > 0
  OBVIOUS
<1> HIDE DEF p
<1>2. 0 \div p = 0
  BY <1>1
<1>3. 0 % 2 = 0
  OBVIOUS
<1> QED BY <1>2, <1>3 DEF Bit, p

\* One less: the bits up to the lowest one turn over.
LEMMA BitOfPredecessor ==
    ASSUME NEW a \in Nat, a > 0, NEW k \in Nat, 2^k \in Nat, 2^k > 0
    PROVE  Bit(a - 1, k) = IF a % 2^k = 0 THEN 1 - Bit(a, k) ELSE Bit(a, k)
<1> DEFINE p == 2^k
           q == a \div p
           l == a % p
           x == a - 1
<1>1. p \in Nat /\ p > 0
  OBVIOUS
<1> HIDE DEF p
<1>2. q \in Nat /\ l \in 0 .. p - 1 /\ a = q * p + l
  BY <1>1, DivisionLeaves
<1>3. x \in Int /\ x + 1 = a
  OBVIOUS
<1> HIDE DEF q, l, x
<1>4. CASE l = 0
  <2> DEFINE g == q - 1
  <2>1. q > 0
    <3>1. CASE q = 0
      <4>1. q * p = 0
        BY <1>1, <3>1
      <4> QED BY <1>2, <1>4, <4>1
    <3> QED BY <1>2, <3>1
  <2>2. g \in Int /\ g % 2 = 1 - (q % 2)
    BY <1>2, <2>1
  <2>3. x = g * p + (p - 1)
    <3>1. g * p = q * p - p /\ q * p \in Int
      BY <1>1, <1>2
    <3> DEFINE y == q * p
               f == g * p
    <3>2. y \in Int /\ f = y - p /\ a = y
      BY <1>2, <1>4, <3>1
    <3> HIDE DEF y, f, g
    <3>3. x = f + (p - 1)
      BY <1>1, <1>3, <3>2
    <3> QED BY <3>3 DEF f
  <2> HIDE DEF g
  <2>4. p - 1 \in 0 .. p - 1
    BY <1>1
  <2>5. x \div p = g
    BY <1>1, <1>3, <2>2, <2>3, <2>4, DivisionIs
  <2> QED BY <1>4, <2>2, <2>5 DEF Bit, p, q, l, x
<1>5. CASE l # 0
  <2>1. l - 1 \in 0 .. p - 1 /\ x = q * p + (l - 1)
    <3> DEFINE y == q * p
    <3>1. y \in Int /\ a = y + l
      BY <1>1, <1>2
    <3> HIDE DEF y
    <3>2. x = y + (l - 1)
      BY <1>2, <1>3, <3>1
    <3>3. l - 1 \in 0 .. p - 1
      BY <1>1, <1>2, <1>5
    <3> QED BY <3>2, <3>3 DEF y
  <2>2. x \div p = q
    BY <1>1, <1>2, <1>3, <2>1, DivisionIs
  <2> QED BY <1>5, <2>2 DEF Bit, p, q, l, x
<1> QED BY <1>4, <1>5

\* What is below the lowest one.
LEMMA LowZeros ==
    ASSUME NEW n \in Nat, PowersTo(2, n), NEW a \in Nat, NEW t \in 0 .. n,
           \A k \in 0 .. t - 1 : Bit(a, k) = 0, t < n => Bit(a, t) # 0
    PROVE  \A k \in 0 .. n : (a % 2^k = 0) <=> k <= t
<1>0. \A k \in 0 .. n : 2^k \in Nat /\ 2^k > 0
  BY PowersPositive
<1> DEFINE T == {k \in 0 .. n : a % 2^k \in Nat /\ ((a % 2^k = 0) <=> k <= t)}
<1>1. 0 \in T
  BY DEF PowersTo
<1>2. ASSUME NEW k \in 0 .. n - 1, k \in T PROVE k + 1 \in T
  <2> DEFINE p == 2^k
             c == Bit(a, k)
             l == a % p
  <2>1. p \in Nat /\ p > 0 /\ 2^(k + 1) = 2 * p
    BY <1>0 DEF PowersTo
  <2>2. c \in 0 .. 1
    BY <2>1, XorBits
  <2>3. a % (2 * p) = l + c * p
    BY <2>1, OneMoreBit DEF Bit
  <2>4. l \in Nat /\ (l = 0 <=> k <= t)
    BY <1>2
  <2>5. /\ k < t => c = 0
        /\ k = t => c # 0
    <3>1. (k < t => k \in 0 .. t - 1) /\ k < n
      OBVIOUS
    <3> QED BY <3>1
  <2> HIDE DEF p, c, l
  <2>6. (c * p = 0 /\ c = 0) \/ (c * p = p /\ c = 1)
    <3>1. 0 * p = 0 /\ 1 * p = p
      BY <2>1
    <3>2. c = 0 \/ c = 1
      BY <2>2
    <3> QED BY <3>1, <3>2
  <2>7. l + c * p \in Nat /\ ((l + c * p = 0) <=> k + 1 <= t)
    BY <2>1, <2>2, <2>4, <2>5, <2>6
  <2> QED BY <2>1, <2>3, <2>7
<1>3. 0 .. n \subseteq T
  <2>1. 0 \in Int /\ n \in Int /\ 0 \in T /\ (\A k \in 0 .. n - 1 : k \in T => k + 1 \in T)
    BY <1>1, <1>2
  <2> HIDE DEF T
  <2> QED BY <2>1, IntervalInduction
<1> QED BY <1>3

LEMMA SizeFacts ==
    /\ IntSize \in Nat /\ IntSize > 0 /\ PowersTo(2, IntSize)
    /\ \A k \in 0 .. IntSize : 2^k \in Nat /\ 2^k > 0
<1>1. Halves[1] \in Nat /\ Halves[1] > 0
  <2> DEFINE m == Len(Halves)
             T == {k \in 1 .. m : Halves[1] = 0 => Halves[k] = 0}
  <2>1. m \in Nat /\ m > 0 /\ \A k \in 1 .. m : Halves[k] \in Nat
    BY HalvesAssumption
  <2>2. 1 \in Int /\ m \in Int /\ 1 \in T /\ (\A k \in 1 .. m - 1 : k \in T => k + 1 \in T) /\ m \in 1 .. m
    <3>1. ASSUME NEW k \in 1 .. m - 1, k \in T PROVE k + 1 \in T
      <4>1. k + 1 \in 1 .. m /\ Halves[k] = 2 * Halves[k + 1]
        BY <2>1, HalvesAssumption
      <4>2. Halves[k + 1] \in Nat
        BY <2>1, <4>1
      <4> QED BY <3>1, <4>1, <4>2
    <3> QED BY <2>1, <3>1
  <2>3. m \in T
    <3> HIDE DEF T, m
    <3>1. 1 .. m \subseteq T
      BY <2>2, IntervalInduction
    <3> QED BY <2>2, <3>1
  <2>4. Halves[1] # 0
    BY <2>3, HalvesAssumption
  <2> QED BY <2>1, <2>4
<1>2. IntSize \in Nat /\ IntSize > 0
  BY <1>1 DEF IntSize
<1> QED BY <1>2, CountedAssumption, PowersPositive

\* ~i & (i - 1) has ones just where i has its zeros below its lowest one.
LEMMA BelowIs ==
    ASSUME NEW i \in WordOf(IntSize), NEW t \in 0 .. IntSize,
           \A k \in 0 .. t - 1 : Bit(i, k) = 0, t < IntSize => Bit(i, t) # 0
    PROVE  Below(i) = 2^t - 1
<1> DEFINE n == IntSize
           m == 2^n
           a == m - 1 - i
           b == (i - 1) % m
<1>1. n \in Nat /\ PowersTo(2, n) /\ (\A k \in 0 .. n : 2^k \in Nat /\ 2^k > 0) /\ m \in Nat /\ m > 0
  <2>1. n \in 0 .. n
    BY SizeFacts
  <2> QED BY <2>1, SizeFacts
<1>2. i \in 0 .. m - 1
  BY DEF WordOf
<1>3. t \in 0 .. n /\ (\A k \in 0 .. t - 1 : Bit(i, k) = 0) /\ (t < n => Bit(i, t) # 0)
  OBVIOUS
<1>4. i \in WordOf(n) /\ Below(i) = And(a, b, n)
  BY DEF Below
<1> HIDE DEF n
<1>5. \A k \in 0 .. n - 1 : Bit(i, k) \in 0 .. 1 /\ Bit(a, k) = 1 - Bit(i, k)
  BY <1>1, <1>4, BitOfComplement
<1>6. ASSUME NEW k \in 0 .. n - 1 PROVE Bit(a, k) * Bit(b, k) = IF k < t THEN 1 ELSE 0
  <2>1. Bit(i, k) \in 0 .. 1 /\ Bit(a, k) = 1 - Bit(i, k) /\ k \in 0 .. n /\ k \in Nat
    BY <1>1, <1>5
  <2>2. CASE i = 0
    <3>1. b = a
      <4>1. i - 1 = (-1) * m + (m - 1) /\ m - 1 \in 0 .. m - 1 /\ i - 1 \in Int /\ -1 \in Int
        BY <1>1, <2>2
      <4> HIDE DEF m
      <4>2. (i - 1) % m = m - 1
        BY <1>1, <4>1, DivisionIs
      <4> QED BY <1>1, <2>2, <4>2
    <3>2. Bit(i, k) = 0
      <4>1. 2^k \in Nat /\ 2^k > 0
        BY <1>1, <2>1
      <4> QED BY <2>2, <4>1, BitOfZero
    <3>3. k < t
      <4>1. CASE t < n
        <5>1. 2^t \in Nat /\ 2^t > 0
          BY <1>1, <1>3
        <5>2. Bit(i, t) = 0
          BY <2>2, <5>1, BitOfZero
        <5> QED BY <1>3, <4>1, <5>2
      <4> QED BY <1>1, <1>3, <4>1
    <3> HIDE DEF a, b
    <3>4. Bit(a, k) = 1 /\ Bit(b, k) = 1
      BY <2>1, <3>1, <3>2
    <3> QED BY <3>3, <3>4
  <2>3. CASE i # 0
    <3>1. b = i - 1
      <4>1. i - 1 = 0 * m + (i - 1) /\ i - 1 \in 0 .. m - 1 /\ i - 1 \in Int /\ 0 \in Int
        BY <1>1, <1>2, <2>3
      <4> DEFINE x == i - 1
      <4> HIDE DEF m, x
      <4>2. x % m = x
        BY <1>1, <4>1, DivisionIs DEF x
      <4> QED BY <4>2 DEF x
    <3>2. i \in Nat /\ i > 0 /\ 2^k \in Nat /\ 2^k > 0
      BY <1>1, <1>2, <2>1, <2>3
    <3>3. (i % 2^k = 0) <=> k <= t
      BY <1>1, <1>3, <2>1, <3>2, LowZeros
    <3>4. Bit(b, k) = IF k <= t THEN 1 - Bit(i, k) ELSE Bit(i, k)
      <4>1. Bit(i - 1, k) = IF i % 2^k = 0 THEN 1 - Bit(i, k) ELSE Bit(i, k)
        BY <2>1, <3>2, BitOfPredecessor
      <4> QED BY <3>1, <3>3, <4>1
    <3> HIDE DEF a, b
    <3>5. CASE k < t
      <4>1. Bit(i, k) = 0
        BY <1>3, <2>1, <3>5
      <4>2. Bit(a, k) = 1 /\ Bit(b, k) = 1
        BY <1>3, <2>1, <3>4, <3>5, <4>1
      <4> QED BY <3>5, <4>2
    <3>6. CASE k = t
      <4>1. Bit(i, k) = 1 /\ ~(k < t)
        BY <1>1, <1>3, <2>1, <3>6
      <4>2. Bit(a, k) = 0 /\ Bit(b, k) = 0
        BY <1>3, <2>1, <3>4, <3>6, <4>1
      <4> QED BY <4>1, <4>2
    <3>7. CASE k > t
      <4>1. Bit(b, k) = Bit(i, k) /\ ~(k < t)
        BY <1>3, <3>4, <3>7
      <4>2. Bit(i, k) = 0 \/ Bit(i, k) = 1
        BY <2>1
      <4>3. (Bit(a, k) = 0 /\ Bit(b, k) = 1) \/ (Bit(a, k) = 1 /\ Bit(b, k) = 0)
        BY <2>1, <4>1, <4>2
      <4> QED BY <4>1, <4>3
    <3> QED BY <1>3, <2>1, <3>5, <3>6, <3>7
  <2> QED BY <2>2, <2>3
<1>7. a \in Nat /\ b \in Nat
  <2>1. a \in Nat
    BY <1>1, <1>2
  <2> DEFINE x == i - 1
  <2>2. x \in Int
    BY <1>2
  <2> HIDE DEF m, x
  <2>3. x % m \in 0 .. m - 1
    BY <1>1, <2>2
  <2> QED BY <1>1, <2>1, <2>3 DEF x
<1>8. /\ \A k \in 0 .. t - 1 : Bit(a, k) * Bit(b, k) = 1
      /\ \A k \in t .. n - 1 : Bit(a, k) * Bit(b, k) = 0
  <2> HIDE DEF a, b
  <2>1. ASSUME NEW k \in 0 .. t - 1 PROVE Bit(a, k) * Bit(b, k) = 1
    <3>1. k \in 0 .. n - 1 /\ k < t
      BY <1>1, <1>3
    <3> QED BY <1>6, <3>1
  <2>2. ASSUME NEW k \in t .. n - 1 PROVE Bit(a, k) * Bit(b, k) = 0
    <3>1. k \in 0 .. n - 1 /\ ~(k < t)
      BY <1>1, <1>3
    <3> QED BY <1>6, <3>1
  <2> QED BY <2>1, <2>2
<1> HIDE DEF a, b, m
<1>9. And(a, b, n) = 2^t - 1
  BY <1>1, <1>3, <1>7, <1>8, AndBelow
<1> QED BY <1>4, <1>9

\* What is left before a rung, at most; the next rung takes half of it off.
LeftFor(k) == IF k = 0 THEN IntSize ELSE Halves[k]

LEMMA RungFacts ==
    /\ Len(Halves) \in Nat /\ LeftFor(0) = IntSize /\ LeftFor(Len(Halves)) = 2
    /\ \A k \in 1 .. Len(Halves) :
          Halves[k] \in 1 .. IntSize /\ LeftFor(k - 1) = 2 * Halves[k] /\ LeftFor(k) = Halves[k]
<1> DEFINE m == Len(Halves)
<1>1. /\ m \in Nat /\ m > 0 /\ Halves[m] = 2
      /\ \A k \in 1 .. m : Halves[k] \in Nat
      /\ \A k \in 1 .. m - 1 : Halves[k] = 2 * Halves[k + 1]
  BY HalvesAssumption
<1> HIDE DEF m
<1>2. ASSUME NEW k \in 1 .. m PROVE LeftFor(k - 1) = 2 * Halves[k] /\ LeftFor(k) = Halves[k]
  <2>1. LeftFor(k) = Halves[k]
    <3>1. k # 0
      BY <1>1
    <3> QED BY <3>1 DEF LeftFor
  <2>2. CASE k = 1
    <3>1. k - 1 = 0
      BY <2>2
    <3> QED BY <2>1, <2>2, <3>1 DEF LeftFor, IntSize
  <2>3. CASE k # 1
    <3>1. k - 1 \in 1 .. m - 1 /\ (k - 1) + 1 = k /\ k - 1 # 0
      BY <1>1, <2>3
    <3>2. Halves[k - 1] = 2 * Halves[k]
      BY <1>1, <3>1
    <3> QED BY <2>1, <3>1, <3>2 DEF LeftFor
  <2> QED BY <2>2, <2>3
<1> DEFINE S0 == {k \in 1 .. m : Halves[k] <= IntSize}
           T == {c \in 0 .. m - 1 : Halves[m - c] >= 1}
<1>3. 1 .. m \subseteq S0
  <2>1. 1 \in S0
    BY <1>1 DEF IntSize
  <2>2. ASSUME NEW k \in 1 .. m - 1, k \in S0 PROVE k + 1 \in S0
    <3>1. k + 1 \in 1 .. m /\ Halves[k] \in Nat /\ Halves[k + 1] \in Nat /\ Halves[k] = 2 * Halves[k + 1]
      BY <1>1
    <3>2. Halves[k] <= IntSize /\ IntSize \in Nat
      BY <2>2, SizeFacts
    <3> QED BY <3>1, <3>2
  <2>3. 1 \in Int /\ m \in Int /\ 1 \in S0 /\ (\A k \in 1 .. m - 1 : k \in S0 => k + 1 \in S0)
    BY <1>1, <2>1, <2>2
  <2> HIDE DEF S0
  <2> QED BY <2>3, IntervalInduction
<1>4. 0 .. m - 1 \subseteq T
  <2>1. 0 \in T
    <3>1. m - 0 = m /\ 0 \in 0 .. m - 1
      BY <1>1
    <3> QED BY <1>1, <3>1
  <2>2. ASSUME NEW c \in 0 .. (m - 1) - 1, c \in T PROVE c + 1 \in T
    <3>1. /\ m - (c + 1) \in 1 .. m - 1 /\ (m - (c + 1)) + 1 = m - c
          /\ m - (c + 1) \in 1 .. m /\ m - c \in 1 .. m /\ c + 1 \in 0 .. m - 1
      BY <1>1
    <3>2. Halves[m - (c + 1)] = 2 * Halves[m - c]
      BY <1>1, <3>1
    <3>3. Halves[m - c] \in Nat /\ Halves[m - c] >= 1
      BY <1>1, <2>2, <3>1
    <3>4. Halves[m - (c + 1)] >= 1
      BY <3>2, <3>3
    <3> QED BY <3>1, <3>4
  <2>3. 0 \in Int /\ m - 1 \in Int /\ 0 \in T /\ (\A c \in 0 .. (m - 1) - 1 : c \in T => c + 1 \in T)
    BY <1>1, <2>1, <2>2
  <2> DEFINE l == m - 1
  <2> HIDE DEF T, l
  <2>4. 0 .. l \subseteq T
    BY <2>3, IntervalInduction DEF l
  <2> QED BY <2>4 DEF l
<1>5. ASSUME NEW k \in 1 .. m PROVE Halves[k] \in 1 .. IntSize
  <2>1. m - k \in 0 .. m - 1 /\ m - (m - k) = k
    BY <1>1
  <2>2. Halves[k] >= 1
    <3>1. m - k \in T
      BY <1>4, <2>1
    <3> QED BY <2>1, <3>1
  <2>3. Halves[k] <= IntSize
    BY <1>3
  <2> QED BY <1>1, <2>2, <2>3, SizeFacts
<1>6. LeftFor(m) = 2 /\ LeftFor(0) = IntSize
  <2>1. m # 0
    BY <1>1
  <2> QED BY <1>1, <2>1 DEF LeftFor
<1> QED BY <1>1, <1>2, <1>5, <1>6 DEF m

Rung == [n : Int, i : Nat]

LeadingStep(k, x) ==
    IF x.i >= 2^Halves[k] THEN [n |-> x.n - Halves[k], i |-> x.i \div 2^Halves[k]] ELSE x

TrailingStep(k, x) ==
    IF x.i > 2^Halves[k] THEN [n |-> x.n + Halves[k], i |-> x.i \div 2^Halves[k]] ELSE x

LEMMA StepsAre ==
    ASSUME NEW k \in 1 .. Len(Halves), NEW x \in Rung
    PROVE  LeadingStep(k, x) \in Rung /\ TrailingStep(k, x) \in Rung
<1> DEFINE h == Halves[k]
           p == 2^h
<1>1. h \in Nat /\ h \in 0 .. IntSize
  BY RungFacts, SizeFacts
<1>2. p \in Nat /\ p > 0
  BY <1>1, SizeFacts
<1>3. x.n \in Int /\ x.i \in Nat
  BY DEF Rung
<1> HIDE DEF h, p
<1>4. x.i \div p \in Nat /\ x.n - h \in Int /\ x.n + h \in Int
  BY <1>1, <1>2, <1>3, DivisionLeaves
<1> QED BY <1>4 DEF LeadingStep, TrailingStep, Rung, h, p

LEMMA LeadingRungs ==
    ASSUME NEW i \in Nat
    PROVE  \E f : /\ f \in [0 .. Len(Halves) -> Rung]
                  /\ f[0] = [n |-> IntSize, i |-> i]
                  /\ \A k \in 1 .. Len(Halves) : f[k] = LeadingStep(k, f[k - 1])
                  /\ f[Len(Halves)] = LeadingLadder(i)
<1> DEFINE m == Len(Halves)
           first == [n |-> IntSize, i |-> i]
           F == [k \in 0 + 1 .. m |-> [x \in Rung |-> LeadingStep(k, x)]]
           IsIt(f) == f = [k \in 0 .. m |-> IF k = 0 THEN first ELSE LeadingStep(k, f[k - 1])]
           w == CHOOSE f : IsIt(f)
<1>1. m \in Nat /\ first \in Rung
  BY RungFacts, SizeFacts DEF Rung
<1>2. F \in [0 + 1 .. m -> [Rung -> Rung]]
  <2>1. \A k \in 0 + 1 .. m : \A x \in Rung : LeadingStep(k, x) \in Rung
    BY StepsAre
  <2> QED BY <2>1
<1> HIDE DEF m, first
<1>3. PICK f : Recurs(f, Rung, first, F, 0, m)
  <2>1. 0 \in Int /\ m \in Int
    BY <1>1
  <2> HIDE DEF F
  <2>2. \E f : Recurs(f, Rung, first, F, 0, m)
    BY <1>1, <1>2, <2>1, RecursionDefines, Zenon
  <2> QED BY <2>2
<1>4. f \in [0 .. m -> Rung] /\ f = [k \in 0 .. m |-> IF k = 0 THEN first ELSE F[k][f[k - 1]]]
  BY <1>3 DEF Recurs
<1>5. IsIt(f)
  <2>1. ASSUME NEW k \in 0 .. m, k # 0 PROVE F[k][f[k - 1]] = LeadingStep(k, f[k - 1])
    <3>1. k \in 0 + 1 .. m /\ k - 1 \in 0 .. m
      BY <1>1, <2>1
    <3>2. f[k - 1] \in Rung
      BY <1>4, <3>1
    <3> QED BY <3>1, <3>2
  <2> HIDE DEF F
  <2> QED BY <1>4, <2>1
<1>6. IsIt(w)
  <2> HIDE DEF IsIt
  <2> QED BY <1>5
<1>7. LeadingLadder(i) = w[m]
  BY Zenon DEF LeadingLadder, LeadingStep, first, m
<1> HIDE DEF w
<1>8. w[0] = first /\ \A k \in 1 .. m : w[k] = LeadingStep(k, w[k - 1])
  <2>1. 0 \in 0 .. m /\ \A k \in 1 .. m : k \in 0 .. m /\ k # 0
    BY <1>1
  <2> QED BY <1>6, <2>1
<1>9. w \in [0 .. m -> Rung]
  <2> DEFINE T == {k \in 0 .. m : w[k] \in Rung}
  <2>1. 0 \in Int /\ m \in Int /\ 0 \in T
    BY <1>1, <1>8
  <2>2. ASSUME NEW k \in 0 .. m - 1, k \in T PROVE k + 1 \in T
    <3>1. k + 1 \in 1 .. m /\ (k + 1) - 1 = k /\ k + 1 \in 0 .. m
      BY <1>1
    <3>2. LeadingStep(k + 1, w[k]) \in Rung
      BY <2>2, <3>1, StepsAre DEF m
    <3> QED BY <1>8, <3>1, <3>2
  <2>3. \A k \in 0 .. m - 1 : k \in T => k + 1 \in T
    BY <2>2
  <2>4. 0 .. m \subseteq T
    <3> HIDE DEF T
    <3> QED BY <2>1, <2>3, IntervalInduction
  <2>5. w = [k \in 0 .. m |-> w[k]]
    <3> DEFINE e(k) == IF k = 0 THEN first ELSE LeadingStep(k, w[k - 1])
    <3>1. w = [k \in 0 .. m |-> e(k)]
      BY <1>6
    <3> HIDE DEF e
    <3> QED BY <3>1
  <2> QED BY <2>4, <2>5
<1> QED BY <1>7, <1>8, <1>9 DEF m, first

LEMMA TrailingRungs ==
    ASSUME NEW i \in Nat
    PROVE  \E f : /\ f \in [0 .. Len(Halves) -> Rung]
                  /\ f[0] = [n |-> 1, i |-> i]
                  /\ \A k \in 1 .. Len(Halves) : f[k] = TrailingStep(k, f[k - 1])
                  /\ f[Len(Halves)] = TrailingLadder(i)
<1> DEFINE m == Len(Halves)
           first == [n |-> 1, i |-> i]
           F == [k \in 0 + 1 .. m |-> [x \in Rung |-> TrailingStep(k, x)]]
           IsIt(f) == f = [k \in 0 .. m |-> IF k = 0 THEN first ELSE TrailingStep(k, f[k - 1])]
           w == CHOOSE f : IsIt(f)
<1>1. m \in Nat /\ first \in Rung
  BY RungFacts DEF Rung
<1>2. F \in [0 + 1 .. m -> [Rung -> Rung]]
  <2>1. \A k \in 0 + 1 .. m : \A x \in Rung : TrailingStep(k, x) \in Rung
    BY StepsAre
  <2> QED BY <2>1
<1> HIDE DEF m, first
<1>3. PICK f : Recurs(f, Rung, first, F, 0, m)
  <2>1. 0 \in Int /\ m \in Int
    BY <1>1
  <2> HIDE DEF F
  <2>2. \E f : Recurs(f, Rung, first, F, 0, m)
    BY <1>1, <1>2, <2>1, RecursionDefines, Zenon
  <2> QED BY <2>2
<1>4. f \in [0 .. m -> Rung] /\ f = [k \in 0 .. m |-> IF k = 0 THEN first ELSE F[k][f[k - 1]]]
  BY <1>3 DEF Recurs
<1>5. IsIt(f)
  <2>1. ASSUME NEW k \in 0 .. m, k # 0 PROVE F[k][f[k - 1]] = TrailingStep(k, f[k - 1])
    <3>1. k \in 0 + 1 .. m /\ k - 1 \in 0 .. m
      BY <1>1, <2>1
    <3>2. f[k - 1] \in Rung
      BY <1>4, <3>1
    <3> QED BY <3>1, <3>2
  <2> HIDE DEF F
  <2> QED BY <1>4, <2>1
<1>6. IsIt(w)
  <2> HIDE DEF IsIt
  <2> QED BY <1>5
<1>7. TrailingLadder(i) = w[m]
  BY Zenon DEF TrailingLadder, TrailingStep, first, m
<1> HIDE DEF w
<1>8. w[0] = first /\ \A k \in 1 .. m : w[k] = TrailingStep(k, w[k - 1])
  <2>1. 0 \in 0 .. m /\ \A k \in 1 .. m : k \in 0 .. m /\ k # 0
    BY <1>1
  <2> QED BY <1>6, <2>1
<1>9. w \in [0 .. m -> Rung]
  <2> DEFINE T == {k \in 0 .. m : w[k] \in Rung}
  <2>1. 0 \in Int /\ m \in Int /\ 0 \in T
    BY <1>1, <1>8
  <2>2. ASSUME NEW k \in 0 .. m - 1, k \in T PROVE k + 1 \in T
    <3>1. k + 1 \in 1 .. m /\ (k + 1) - 1 = k /\ k + 1 \in 0 .. m
      BY <1>1
    <3>2. TrailingStep(k + 1, w[k]) \in Rung
      BY <2>2, <3>1, StepsAre DEF m
    <3> QED BY <1>8, <3>1, <3>2
  <2>3. \A k \in 0 .. m - 1 : k \in T => k + 1 \in T
    BY <2>2
  <2>4. 0 .. m \subseteq T
    <3> HIDE DEF T
    <3> QED BY <2>1, <2>3, IntervalInduction
  <2>5. w = [k \in 0 .. m |-> w[k]]
    <3> DEFINE e(k) == IF k = 0 THEN first ELSE TrailingStep(k, w[k - 1])
    <3>1. w = [k \in 0 .. m |-> e(k)]
      BY <1>6
    <3> HIDE DEF e
    <3> QED BY <3>1
  <2> QED BY <2>4, <2>5
<1> QED BY <1>7, <1>8, <1>9 DEF m, first

\* A word with the highest bit p loses the widths of the rungs that are not
\* above p, and p with it.
LEMMA LeadingIs ==
    ASSUME NEW i \in Nat, NEW p \in 0 .. IntSize - 1, 2^p <= i, i < 2^(p + 1)
    PROVE  LeadingLadder(i).n - LeadingLadder(i).i \div 2 = IntSize - p
<1> DEFINE m == Len(Halves)
           N == IntSize
<1>1. PICK f : /\ f \in [0 .. m -> Rung]
               /\ f[0] = [n |-> N, i |-> i]
               /\ \A k \in 1 .. m : f[k] = LeadingStep(k, f[k - 1])
               /\ f[m] = LeadingLadder(i)
  BY LeadingRungs
<1>2. /\ m \in Nat /\ LeftFor(0) = N /\ LeftFor(m) = 2
      /\ \A k \in 1 .. m : Halves[k] \in 1 .. N /\ LeftFor(k - 1) = 2 * Halves[k] /\ LeftFor(k) = Halves[k]
  BY RungFacts
<1>3. N \in Nat /\ PowersTo(2, N) /\ (\A k \in 0 .. N : 2^k \in Nat /\ 2^k > 0) /\ p \in 0 .. N - 1
  BY SizeFacts
<1> HIDE DEF m, N
<1> DEFINE Top(k, c) == /\ c \in 0 .. LeftFor(k) - 1 /\ c \in 0 .. N - 1
                        /\ 2^c <= f[k].i /\ f[k].i < 2^(c + 1)
                        /\ f[k].n = N - p + c
           T == {k \in 0 .. m : \E c \in 0 .. N - 1 : Top(k, c)}
<1>4. 0 \in T
  <2>1. f[0].i = i /\ f[0].n = N
    BY <1>1
  <2>2. Top(0, p)
    BY <1>2, <1>3, <2>1
  <2> QED BY <1>2, <1>3, <2>2
<1>5. ASSUME NEW k \in 0 .. m - 1, k \in T PROVE k + 1 \in T
  <2>1. PICK c \in 0 .. N - 1 : Top(k, c)
    BY <1>5
  <2> DEFINE h == Halves[k + 1]
             x == f[k]
             y == f[k + 1]
  <2>2. /\ k + 1 \in 1 .. m /\ (k + 1) - 1 = k /\ k + 1 \in 0 .. m /\ k \in 0 .. m
        /\ h \in 1 .. N /\ LeftFor(k) = 2 * h /\ LeftFor(k + 1) = h
    <3>1. k + 1 \in 1 .. m /\ (k + 1) - 1 = k /\ k + 1 \in 0 .. m /\ k \in 0 .. m
      BY <1>2
    <3> QED BY <1>2, <3>1
  <2>3. y = IF x.i >= 2^h THEN [n |-> x.n - h, i |-> x.i \div 2^h] ELSE x
    BY <1>1, <2>2 DEF LeadingStep
  <2>4. x.i \in Nat /\ x.n = N - p + c /\ 2^c <= x.i /\ x.i < 2^(c + 1) /\ c \in 0 .. 2 * h - 1
    BY <1>1, <2>1, <2>2 DEF Rung
  <2> HIDE DEF x, y, h
  <2>5. h \in Nat /\ c \in Nat /\ h \in 0 .. N /\ c \in 0 .. N /\ c + 1 \in 0 .. N
    BY <1>3, <2>2
  <2>6. CASE c >= h
    <3> DEFINE d == c - h
               e == 2^h
               g == 2^d
               q == x.i \div e
               l == x.i % e
    <3>1. h \in 0 .. N /\ c \in h .. N /\ c + 1 \in h .. N /\ (c + 1) - h = d + 1 /\ d \in 0 .. N - 1
          /\ d \in 0 .. LeftFor(k + 1) - 1
      BY <1>3, <2>2, <2>4, <2>5, <2>6
    <3>2. e \in Nat /\ e > 0 /\ g \in Nat /\ 2^c = e * g /\ e <= 2^c
      BY <1>3, <3>1, PowersGrow
    <3>3. 2^(c + 1) = e * 2^(d + 1) /\ 2^(d + 1) = 2 * g /\ g > 0
      <4>1. 2^(c + 1) = 2^h * 2^((c + 1) - h)
        BY <1>3, <3>1, PowersGrow
      <4>2. 2^(d + 1) = 2 * 2^d /\ d \in 0 .. N
        BY <1>3, <3>1 DEF PowersTo
      <4> QED BY <1>3, <3>1, <4>1, <4>2
    <3>4. q \in Nat /\ l \in 0 .. e - 1 /\ x.i = q * e + l
      BY <2>4, <3>2, DivisionLeaves
    <3>5. 2^c \in Nat
      BY <1>3, <2>5
    <3>6. x.i >= e
      BY <2>4, <3>2, <3>5
    <3>7. y.n = (N - p + c) - h /\ y.i = q
      BY <2>3, <2>4, <3>6
    <3> HIDE DEF d, e, g, q, l
    <3>8. g <= q
      <4>1. CASE q < g
        <5>1. (q + 1) * e <= g * e /\ (q + 1) * e = q * e + e /\ g * e = e * g /\ q * e \in Nat /\ e * g \in Nat
          BY <3>2, <3>4, <4>1
        <5> DEFINE a == q * e
                   b == e * g
        <5>2. a + e <= b /\ a \in Nat /\ b \in Nat /\ x.i = a + l /\ b <= x.i
          BY <2>4, <3>2, <3>4, <5>1
        <5> HIDE DEF a, b
        <5> QED BY <3>2, <3>4, <5>2
      <4> QED BY <3>2, <3>4, <4>1
    <3>9. q < 2 * g
      <4>1. CASE q >= 2 * g
        <5>1. (2 * g) * e <= q * e /\ (2 * g) * e = e * (2 * g) /\ q * e \in Nat /\ e * (2 * g) \in Nat
          BY <3>2, <3>4, <4>1
        <5> DEFINE a == q * e
                   b == e * (2 * g)
        <5>2. b <= a /\ a \in Nat /\ b \in Nat /\ x.i = a + l /\ x.i < b
          BY <2>4, <3>3, <3>4, <5>1
        <5> HIDE DEF a, b
        <5> QED BY <3>2, <3>4, <5>2
      <4> QED BY <3>2, <3>4, <4>1
    <3>10. y.n = N - p + d
      BY <1>3, <2>5, <3>7 DEF d
    <3>11. Top(k + 1, d)
      BY <3>1, <3>3, <3>7, <3>8, <3>9, <3>10 DEF g, y
    <3>12. d \in 0 .. N - 1
      BY <3>1
    <3> QED BY <2>2, <3>11, <3>12
  <2>7. CASE ~(c >= h)
    <3>1. c + 1 \in 0 .. N /\ h \in (c + 1) .. N /\ c \in 0 .. h - 1
      BY <2>5, <2>7
    <3>2. 2^(c + 1) <= 2^h /\ 2^(c + 1) \in Nat /\ 2^h \in Nat
      BY <1>3, <2>5, <3>1, PowersGrow
    <3>3. ~(x.i >= 2^h)
      BY <2>4, <3>2
    <3>4. y = x
      BY <2>3, <3>3
    <3>5. Top(k + 1, c)
      BY <2>1, <2>2, <2>4, <3>1, <3>4 DEF x, y
    <3> QED BY <2>1, <2>2, <3>5
  <2> QED BY <2>6, <2>7
<1>6. PICK c \in 0 .. N - 1 : Top(m, c)
  <2>1. 0 \in Int /\ m \in Int /\ m \in 0 .. m
    BY <1>2
  <2>2. m \in T
    <3> HIDE DEF T
    <3>1. 0 \in T /\ \A k \in 0 .. m - 1 : k \in T => k + 1 \in T
      BY <1>4, <1>5
    <3>2. 0 .. m \subseteq T
      BY <2>1, <3>1, IntervalInduction
    <3> QED BY <2>1, <3>2
  <2> QED BY <2>2
<1> DEFINE z == f[m]
<1>7. /\ z = LeadingLadder(i) /\ z.i \in Nat /\ z.n = N - p + c /\ 2^c <= z.i /\ z.i < 2^(c + 1) /\ c \in 0 .. 1
  <2>1. z \in Rung
    BY <1>1, <1>2
  <2> QED BY <1>1, <1>2, <1>6, <2>1 DEF Rung
<1> HIDE DEF z, Top
<1>8. z.i \div 2 = c
  <2>1. 2^0 = 1 /\ 2^1 = 2 /\ (c = 1 => 2^(c + 1) = 4)
    <3>1. 2^0 = 1 /\ 2^(0 + 1) = 2 * 2^0
      BY <1>3 DEF PowersTo
    <3>2. 2^1 = 2
      BY <3>1
    <3>3. ASSUME c = 1 PROVE 2^(c + 1) = 4
      <4>1. 2^(c + 1) = 2 * 2^c
        BY <1>3, <1>6 DEF PowersTo
      <4> QED BY <3>2, <3>3, <4>1
    <3> QED BY <3>1, <3>2, <3>3
  <2>2. CASE c = 0
    <3>1. z.i = 1
      BY <1>7, <2>1, <2>2
    <3> QED BY <2>2, <3>1
  <2>3. CASE c = 1
    <3>1. z.i \in 2 .. 3
      BY <1>7, <2>1, <2>3
    <3> QED BY <2>3, <3>1
  <2> QED BY <1>7, <2>2, <2>3
<1>9. z.n - z.i \div 2 = N - p
  BY <1>3, <1>7, <1>8
<1> QED BY <1>7, <1>9 DEF N

\* t ones lose the widths of the rungs, as long as more than these are left.
LEMMA TrailingIs ==
    ASSUME NEW t \in 1 .. IntSize
    PROVE  TrailingLadder(2^t - 1).n + TrailingLadder(2^t - 1).i \div 2 = t
<1> DEFINE m == Len(Halves)
           N == IntSize
           i == 2^t - 1
<1>2. /\ m \in Nat /\ LeftFor(0) = N /\ LeftFor(m) = 2
      /\ \A k \in 1 .. m : Halves[k] \in 1 .. N /\ LeftFor(k - 1) = 2 * Halves[k] /\ LeftFor(k) = Halves[k]
  BY RungFacts
<1>3. N \in Nat /\ PowersTo(2, N) /\ (\A k \in 0 .. N : 2^k \in Nat /\ 2^k > 0) /\ t \in 1 .. N
  BY SizeFacts
<1>0. i \in Nat
  <2>1. t \in 0 .. N
    BY <1>3
  <2> QED BY <1>3, <2>1
<1>1. PICK f : /\ f \in [0 .. m -> Rung]
               /\ f[0] = [n |-> 1, i |-> i]
               /\ \A k \in 1 .. m : f[k] = TrailingStep(k, f[k - 1])
               /\ f[m] = TrailingLadder(i)
  <2> HIDE DEF i
  <2> QED BY <1>0, TrailingRungs
<1> HIDE DEF m, N
<1> DEFINE Ones(k, c) == c \in 1 .. LeftFor(k) /\ c \in 1 .. N /\ f[k].i = 2^c - 1 /\ f[k].n = 1 + t - c
           T == {k \in 0 .. m : \E c \in 1 .. N : Ones(k, c)}
<1>4. 0 \in T
  <2>1. f[0].i = i /\ f[0].n = 1
    BY <1>1
  <2>2. Ones(0, t)
    BY <1>2, <1>3, <2>1
  <2> QED BY <1>2, <1>3, <2>2
<1>5. ASSUME NEW k \in 0 .. m - 1, k \in T PROVE k + 1 \in T
  <2>1. PICK c \in 1 .. N : Ones(k, c)
    BY <1>5
  <2> DEFINE h == Halves[k + 1]
             x == f[k]
             y == f[k + 1]
  <2>2. /\ k + 1 \in 1 .. m /\ (k + 1) - 1 = k /\ k + 1 \in 0 .. m /\ k \in 0 .. m
        /\ h \in 1 .. N /\ LeftFor(k) = 2 * h /\ LeftFor(k + 1) = h
    <3>1. k + 1 \in 1 .. m /\ (k + 1) - 1 = k /\ k + 1 \in 0 .. m /\ k \in 0 .. m
      BY <1>2
    <3> QED BY <1>2, <3>1
  <2>3. y = IF x.i > 2^h THEN [n |-> x.n + h, i |-> x.i \div 2^h] ELSE x
    BY <1>1, <2>2 DEF TrailingStep
  <2>4. x.n = 1 + t - c /\ x.i = 2^c - 1 /\ c \in 1 .. 2 * h
    BY <2>1, <2>2
  <2> HIDE DEF x, y, h
  <2>5. h \in Nat /\ c \in Nat /\ h \in 0 .. N /\ c \in 0 .. N
    BY <1>3, <2>2
  <2>6. CASE c > h
    <3> DEFINE d == c - h
               e == 2^h
               g == 2^d
    <3>1. h \in 0 .. N /\ c \in h .. N /\ d \in 1 .. N /\ d - 1 \in 0 .. N - 1 /\ (d - 1) + 1 = d
          /\ h - 1 \in 0 .. N - 1 /\ (h - 1) + 1 = h /\ d \in 1 .. LeftFor(k + 1) /\ d - 1 \in 0 .. N /\ h - 1 \in 0 .. N
      BY <1>3, <2>2, <2>4, <2>5, <2>6
    <3>2. e \in Nat /\ e > 0 /\ g \in Nat /\ 2^c = e * g
      BY <1>3, <3>1, PowersGrow
    <3>3. g >= 2 /\ e >= 2
      <4>1. 2^d = 2 * 2^(d - 1) /\ 2^h = 2 * 2^(h - 1)
        BY <1>3, <3>1 DEF PowersTo
      <4>2. 2^(d - 1) \in Nat /\ 2^(d - 1) > 0 /\ 2^(h - 1) \in Nat /\ 2^(h - 1) > 0
        BY <1>3, <3>1
      <4> QED BY <4>1, <4>2
    <3> HIDE DEF d, e, g
    <3>4. e * g >= 2 * e /\ e * g \in Nat /\ e * g = g * e
      BY <3>2, <3>3
    <3>5. x.i > e
      <4> DEFINE a == e * g
      <4>1. a >= 2 * e /\ a \in Nat /\ x.i = a - 1
        BY <2>4, <3>2, <3>4
      <4> HIDE DEF a
      <4> QED BY <3>2, <3>3, <4>1
    <3>6. x.i = (g - 1) * e + (e - 1) /\ x.i \in Int
      <4>1. (g - 1) * e = g * e - e
        BY <3>2
      <4> DEFINE a == e * g
                 b == (g - 1) * e
      <4>2. a \in Nat /\ x.i = a - 1 /\ b = a - e
        BY <2>4, <3>2, <3>4, <4>1
      <4> HIDE DEF a, b
      <4>3. x.i = b + (e - 1) /\ x.i \in Int
        BY <3>2, <4>2
      <4> QED BY <4>3 DEF b
    <3>7. x.i \div e = g - 1
      <4> DEFINE a == g - 1
                 b == e - 1
      <4>1. a \in Int /\ b \in 0 .. e - 1 /\ x.i = a * e + b
        BY <3>2, <3>3, <3>6
      <4> HIDE DEF a, b
      <4>2. x.i \div e = a
        BY <3>2, <3>6, <4>1, DivisionIs
      <4> QED BY <4>2 DEF a
    <3>8. y.n = (1 + t - c) + h /\ y.i = g - 1
      BY <2>3, <2>4, <3>5, <3>7 DEF e
    <3>9. y.n = 1 + t - d
      BY <1>3, <2>5, <3>8 DEF d
    <3>10. Ones(k + 1, d)
      BY <3>1, <3>8, <3>9 DEF g, y
    <3> QED BY <2>2, <3>1, <3>10
  <2>7. CASE ~(c > h)
    <3>1. h \in c .. N /\ c \in 1 .. h
      BY <2>5, <2>7
    <3>2. 2^c <= 2^h /\ 2^c \in Nat /\ 2^h \in Nat
      BY <1>3, <2>5, <3>1, PowersGrow
    <3>3. ~(x.i > 2^h)
      BY <2>4, <3>2
    <3>4. y = x
      BY <2>3, <3>3
    <3>5. Ones(k + 1, c)
      BY <2>1, <2>2, <2>4, <3>1, <3>4 DEF x, y
    <3> QED BY <2>1, <2>2, <3>5
  <2> QED BY <2>6, <2>7
<1>6. PICK c \in 1 .. N : Ones(m, c)
  <2>1. 0 \in Int /\ m \in Int /\ m \in 0 .. m
    BY <1>2
  <2>2. m \in T
    <3> HIDE DEF T
    <3>1. 0 \in T /\ \A k \in 0 .. m - 1 : k \in T => k + 1 \in T
      BY <1>4, <1>5
    <3>2. 0 .. m \subseteq T
      BY <2>1, <3>1, IntervalInduction
    <3> QED BY <2>1, <3>2
  <2> QED BY <2>2
<1> DEFINE z == f[m]
<1>7. z = TrailingLadder(i) /\ z.n = 1 + t - c /\ z.i = 2^c - 1 /\ c \in 1 .. 2
  BY <1>1, <1>2, <1>6
<1> HIDE DEF z, Ones
<1>8. z.i \div 2 = c - 1
  <2>1. 2^1 = 2 /\ (c = 2 => 2^c = 4)
    <3>1. 2^0 = 1 /\ 2^(0 + 1) = 2 * 2^0
      BY <1>3 DEF PowersTo
    <3>2. 2^1 = 2
      BY <3>1
    <3>3. ASSUME c = 2 PROVE 2^c = 4
      <4>1. 1 \in 0 .. N - 1
        BY <1>3, <1>6, <3>3
      <4>2. 2^(1 + 1) = 2 * 2^1
        BY <1>3, <4>1 DEF PowersTo
      <4> QED BY <3>2, <3>3, <4>2
    <3> QED BY <3>2, <3>3
  <2>2. CASE c = 1
    <3>1. z.i = 1
      BY <1>7, <2>1, <2>2
    <3> QED BY <2>2, <3>1
  <2>3. CASE c = 2
    <3>1. z.i = 3
      BY <1>7, <2>1, <2>3
    <3> QED BY <2>3, <3>1
  <2> QED BY <1>7, <2>2, <2>3
<1>9. z.n + z.i \div 2 = t
  BY <1>3, <1>7, <1>8
<1> QED BY <1>7, <1>9 DEF i

LEMMA HighestBit ==
    ASSUME NEW i \in WordOf(IntSize), i > 0, NEW z \in 0 .. IntSize,
           \A k \in 1 .. z : Bit(i, IntSize - k) = 0, z < IntSize => Bit(i, IntSize - (z + 1)) # 0
    PROVE  z < IntSize /\ 2^(IntSize - (z + 1)) <= i /\ i < 2^(IntSize - z)
<1> DEFINE N == IntSize
<1>1. N \in Nat /\ PowersTo(2, N) /\ (\A k \in 0 .. N : 2^k \in Nat /\ 2^k > 0) /\ N \in 0 .. N
  <2>1. N \in 0 .. N
    BY SizeFacts
  <2> QED BY <2>1, SizeFacts
<1>2. /\ i \in 0 .. 2^N - 1 /\ z \in 0 .. N /\ \A k \in 1 .. z : Bit(i, N - k) = 0
      /\ z < N => Bit(i, N - (z + 1)) # 0
  BY DEF WordOf
<1> HIDE DEF N
<1>3. i \in Nat
  BY <1>1, <1>2
\* One place further down.
<1>4. ASSUME NEW k \in 0 .. N - 1
      PROVE  /\ 2^(N - (k + 1)) \in Nat /\ 2^(N - (k + 1)) > 0 /\ 2^(N - k) = 2 * 2^(N - (k + 1))
             /\ i < 2^(N - k) => (Bit(i, N - (k + 1)) = 0 <=> i < 2^(N - (k + 1)))
  <2> DEFINE q == 2^(N - (k + 1))
             c == i \div q
             l == i % q
  <2>1. N - (k + 1) \in 0 .. N - 1 /\ (N - (k + 1)) + 1 = N - k /\ N - (k + 1) \in 0 .. N
    BY <1>1
  <2>2. q \in Nat /\ q > 0 /\ 2^(N - k) = 2 * q
    <3>1. 2^((N - (k + 1)) + 1) = 2 * 2^(N - (k + 1))
      BY <1>1, <2>1 DEF PowersTo
    <3> QED BY <1>1, <2>1, <3>1
  <2>3. Bit(i, N - (k + 1)) = c % 2
    BY DEF Bit
  <2> HIDE DEF q
  <2>4. c \in Nat /\ l \in 0 .. q - 1 /\ i = c * q + l
    BY <1>3, <2>2, DivisionLeaves
  <2> HIDE DEF c, l
  <2>5. ASSUME i < 2 * q PROVE c % 2 = 0 <=> i < q
    <3>1. CASE c = 0
      <4>1. c * q = 0
        BY <2>2, <3>1
      <4> QED BY <2>2, <2>4, <3>1, <4>1
    <3>2. CASE c = 1
      <4>1. c * q = q /\ c % 2 = 1
        BY <2>2, <3>2
      <4> QED BY <2>2, <2>4, <4>1
    <3>3. CASE c >= 2
      <4>1. c * q >= 2 * q /\ c * q \in Nat
        BY <2>2, <2>4, <3>3
      <4> DEFINE a == c * q
      <4> HIDE DEF a
      <4>2. i >= 2 * q
        BY <2>2, <2>4, <4>1 DEF a
      <4> QED BY <1>3, <2>2, <2>5, <4>2
    <3> QED BY <2>4, <3>1, <3>2, <3>3
  <2> QED BY <2>2, <2>3, <2>5 DEF q
<1> DEFINE T == {k \in 0 .. z : i < 2^(N - k)}
<1>5. 0 \in T
  <2>1. N - 0 = N /\ 0 \in 0 .. z
    BY <1>1, <1>2
  <2>2. 2^N \in Nat
    BY <1>1
  <2> QED BY <1>2, <2>1, <2>2
<1>6. ASSUME NEW k \in 0 .. z - 1, k \in T PROVE k + 1 \in T
  <2>1. k \in 0 .. N - 1 /\ k + 1 \in 1 .. z /\ k + 1 \in 0 .. z /\ i < 2^(N - k)
    BY <1>1, <1>2, <1>6
  <2>2. Bit(i, N - (k + 1)) = 0
    BY <1>2, <2>1
  <2>3. i < 2^(N - (k + 1))
    BY <1>4, <2>1, <2>2
  <2> QED BY <2>1, <2>3
<1>7. i < 2^(N - z)
  <2>1. 0 \in Int /\ z \in Int /\ z \in 0 .. z
    BY <1>1, <1>2
  <2>2. z \in T
    <3> HIDE DEF T
    <3>1. \A k \in 0 .. z - 1 : k \in T => k + 1 \in T
      BY <1>6
    <3>2. 0 .. z \subseteq T
      BY <1>5, <2>1, <3>1, IntervalInduction
    <3> QED BY <2>1, <3>2
  <2> QED BY <2>2
<1>8. z < N
  <2>1. CASE z = N
    <3>1. N - z = 0
      BY <1>1, <2>1
    <3>2. 2^0 = 1
      BY <1>1 DEF PowersTo
    <3>3. i < 1
      BY <1>7, <3>1, <3>2
    <3> QED BY <1>3, <3>3
  <2> QED BY <1>1, <1>2, <2>1
<1>9. 2^(N - (z + 1)) <= i
  <2>1. z \in 0 .. N - 1
    BY <1>1, <1>2, <1>8
  <2>2. ~(i < 2^(N - (z + 1))) /\ 2^(N - (z + 1)) \in Nat
    BY <1>2, <1>4, <1>7, <1>8, <2>1
  <2> QED BY <1>3, <2>2
<1> QED BY <1>7, <1>8, <1>9 DEF N

\* numberOfLeadingZeros gives one more than there are, but for the word 0.
LEMMA LeadingTells ==
    ASSUME NEW i \in WordOf(IntSize)
    PROVE  numberOfLeadingZeros(i) = FrontZeros(FromHighest(i)) + (IF i = 0 THEN 0 ELSE 1)
<1> DEFINE N == IntSize
           t == FromHighest(i)
           z == FrontZeros(t)
<1>1. N \in Nat /\ N > 0 /\ (\A k \in 0 .. N : 2^k \in Nat /\ 2^k > 0)
  BY SizeFacts
<1>2. Len(t) = N /\ \A k \in 1 .. N : t[k] = Bit(i, N - k)
  BY <1>1 DEF FromHighest
<1>3. i \in Nat
  <2>1. 2^IntSize \in Nat
    BY <1>1
  <2> QED BY <2>1 DEF WordOf
<1>4. z \in 0 .. N /\ (\A k \in 1 .. z : t[k] = 0) /\ (z < N => t[z + 1] # 0)
  <2> HIDE DEF t
  <2>1. Len(t) \in Nat
    BY <1>1, <1>2
  <2> QED BY <1>2, <2>1, FrontTold
<1> HIDE DEF t, z
<1>5. (\A k \in 1 .. z : Bit(i, N - k) = 0) /\ (z < N => Bit(i, N - (z + 1)) # 0)
  <2>1. \A k \in 1 .. z : k \in 1 .. N
    BY <1>1, <1>4
  <2>2. z < N => z + 1 \in 1 .. N
    BY <1>1, <1>4
  <2> QED BY <1>2, <1>4, <2>1, <2>2
<1>6. CASE i = 0
  <2>1. z = N
    <3>1. CASE z < N
      <4>1. N - (z + 1) \in 0 .. N
        BY <1>1, <1>4, <3>1
      <4>2. Bit(0, N - (z + 1)) = 0
        BY <1>1, <4>1, BitOfZero
      <4> QED BY <1>5, <1>6, <3>1, <4>2
    <3> QED BY <1>1, <1>4, <3>1
  <2> QED BY <1>1, <1>6, <2>1 DEF numberOfLeadingZeros, z, t
<1>7. CASE i # 0
  <2> DEFINE p == N - (z + 1)
  <2>1. z < N /\ 2^(N - (z + 1)) <= i /\ i < 2^(N - z)
    BY <1>3, <1>4, <1>5, <1>7, HighestBit
  <2>2. p \in 0 .. N - 1 /\ p + 1 = N - z /\ N - p = z + 1
    BY <1>1, <1>4, <2>1
  <2>3. 2^p <= i /\ i < 2^(p + 1)
    BY <2>1, <2>2
  <2> HIDE DEF p
  <2>4. LeadingLadder(i).n - LeadingLadder(i).i \div 2 = N - p
    BY <1>3, <2>2, <2>3, LeadingIs
  <2> QED BY <1>7, <2>2, <2>4 DEF numberOfLeadingZeros, z, t
<1> QED BY <1>6, <1>7

\* numberOfTrailingZeros is right for every word.
LEMMA TrailingTells ==
    ASSUME NEW i \in WordOf(IntSize)
    PROVE  numberOfTrailingZeros(i) = FrontZeros(FromLowest(i))
<1> DEFINE N == IntSize
           t == FromLowest(i)
           z == FrontZeros(t)
<1>1. N \in Nat /\ N > 0 /\ PowersTo(2, N) /\ (\A k \in 0 .. N : 2^k \in Nat /\ 2^k > 0)
  BY SizeFacts
<1>2. Len(t) = N /\ \A k \in 1 .. N : t[k] = Bit(i, k - 1)
  BY <1>1 DEF FromLowest
<1>4. z \in 0 .. N /\ (\A k \in 1 .. z : t[k] = 0) /\ (z < N => t[z + 1] # 0)
  <2> HIDE DEF t
  <2>1. Len(t) \in Nat
    BY <1>1, <1>2
  <2> QED BY <1>2, <2>1, FrontTold
<1> HIDE DEF t, z
<1>5. \A k \in 0 .. z - 1 : Bit(i, k) = 0
  <2> TAKE k \in 0 .. z - 1
  <2>1. k + 1 \in 1 .. z /\ k + 1 \in 1 .. N /\ (k + 1) - 1 = k
    BY <1>1, <1>4
  <2>2. t[k + 1] = 0 /\ t[k + 1] = Bit(i, (k + 1) - 1)
    BY <1>2, <1>4, <2>1
  <2> QED BY <2>1, <2>2
<1>6. z < N => Bit(i, z) # 0
  <2> HAVE z < N
  <2>1. z + 1 \in 1 .. N /\ (z + 1) - 1 = z
    BY <1>1, <1>4
  <2>2. t[z + 1] # 0 /\ t[z + 1] = Bit(i, (z + 1) - 1)
    BY <1>2, <1>4, <2>1
  <2> QED BY <2>1, <2>2
<1>7. Below(i) = 2^z - 1
  BY <1>4, <1>5, <1>6, BelowIs
<1>8. CASE z = 0
  <2>1. 2^0 = 1
    BY <1>1 DEF PowersTo
  <2>2. Below(i) = 0
    BY <1>7, <1>8, <2>1
  <2> QED BY <1>8, <2>2 DEF numberOfTrailingZeros, z, t
<1>9. CASE z # 0
  <2>1. z \in 1 .. N /\ z - 1 \in 0 .. N - 1 /\ (z - 1) + 1 = z /\ z - 1 \in 0 .. N
    BY <1>1, <1>4, <1>9
  <2>2. 2^z = 2 * 2^(z - 1)
    BY <1>1, <2>1 DEF PowersTo
  <2>3. 2^(z - 1) \in Nat /\ 2^(z - 1) > 0
    BY <1>1, <2>1
  <2>4. Below(i) # 0
    BY <1>7, <2>2, <2>3
  <2>5. TrailingLadder(2^z - 1).n + TrailingLadder(2^z - 1).i \div 2 = z
    BY <2>1, TrailingIs
  <2> QED BY <1>7, <2>4, <2>5 DEF numberOfTrailingZeros, z, t
<1> QED BY <1>8, <1>9

LEMMA ZerosTold == ASSUME ZeroInv, WhereInv PROVE ZerosCounted
<1>1. ASSUME Returned("getNLZ")
      PROVE  LET zeros == FrontZeros(call.ripe)
             IN  /\ nlz \in zeros .. Len(call.ripe)
                 /\ zeros <= LongSize \/ Len(call.ripe) < 2 * LongSize => nlz = zeros
  <2>1. GetNLZInv
    BY <1>1 DEF ZeroInv, Returned
  <2> QED BY <1>1, <2>1, GetNLZTells
<1>2. ASSUME call.f \in {"numberOfLeadingZeros", "numberOfTrailingZeros"} PROVE call.i \in WordOf(IntSize)
  <2>1. call \in ZeroCalls
    BY <1>2 DEF WhereInv, CallKnown, ZeroFunctions
  <2>2. call.i \in CountedWords
    BY <1>2, <2>1 DEF ZeroCalls
  <2> QED BY <2>2, CountedAssumption
<1>3. ASSUME Returned("numberOfLeadingZeros")
      PROVE  nlz = FrontZeros(FromHighest(call.i)) + (IF call.i = 0 THEN 0 ELSE 1)
  <2>1. nlz = numberOfLeadingZeros(call.i) /\ call.i \in WordOf(IntSize)
    BY <1>2, <1>3 DEF ZeroInv, Returned
  <2> QED BY <2>1, LeadingTells
<1>4. ASSUME Returned("numberOfTrailingZeros") PROVE nlz = FrontZeros(FromLowest(call.i))
  <2>1. nlz = numberOfTrailingZeros(call.i) /\ call.i \in WordOf(IntSize)
    BY <1>2, <1>4 DEF ZeroInv, Returned
  <2> QED BY <2>1, TrailingTells
<1> QED BY <1>1, <1>3, <1>4 DEF ZerosCounted

\* Whatever the hash, the word and their sizes, the three functions give the
\* zeros there are, and where they do not they are off as ZerosCounted says.
THEOREM ZerosCorrect == Spec => []ZerosCounted
<1>1. Init => WhereInv
  BY WhereInit
<1>2. Init => ZeroInv
  BY <1>1, ZeroInit
<1>3. ZeroInv /\ WhereInv /\ TwisterInv /\ [Next]_vars => ZeroInv'
  BY ZeroNextKeeps
<1>4. ZeroInv /\ WhereInv => ZerosCounted
  BY ZerosTold
<1> QED BY <1>2, <1>3, <1>4, TwisterCorrect, Where, PTL DEF Spec

-----------------------------------------------------------------------------
(* snprintUInt64 divides by shifts: its pairs of digits come from a sum of  *)
(* shifted quotients, its last digits from a multiplication that stands for *)
(* a division.  Both are right for every number that reaches them, in 32    *)
(* bits as in the code, where TLC's integers would overflow.                *)

\* What the loops of pairs write is what is left of a division by 100: two
\* digits, and they and the quotient are the number.
THEOREM PairIsRemainder ==
    ASSUME NEW n \in Nat
    PROVE  /\ n - hundred(n \div 100) \in 0 .. 99
           /\ n - hundred(n \div 100) = n % 100
<1>1. n \div 100 \in Nat /\ n % 100 \in 0 .. 99
  OBVIOUS
<1>2. n = 100 * (n \div 100) + (n % 100)
  OBVIOUS
<1>3. hundred(n \div 100) = 100 * (n \div 100)
  BY <1>1 DEF hundred
<1> QED BY <1>1, <1>2, <1>3

\* Below 65536 a tenth is 52429 / 2^19 of a number, rounded down.
LEMMA MagicTenth ==
    ASSUME NEW i \in Nat, i <= 65535
    PROVE  (i * 52429) \div 524288 = i \div 10
OBVIOUS

\* Where single digits are written the product fits into 32 bits and its shift
\* is the division by ten; the character is the last digit.
THEOREM TenthIsATenth ==
    ASSUME NEW i \in 0 .. Small - 1
    PROVE  tenth(i) = i \div 10 /\ i - ten(tenth(i)) = i % 10
<1>1. i \in Nat /\ i <= 65535 /\ Word \in Nat /\ i * 52429 \in Nat
  BY WordAssumption
<1>2. i * 52429 < Word
  <2>1. Small \in Nat /\ i < Small /\ Small * 52429 <= Word
    BY WordAssumption
  <2> QED BY <2>1, <1>1
<1>3. (i * 52429) % Word = i * 52429
  BY <1>1, <1>2
<1>4. tenth(i) = i \div 10
  <2>1. (i * 52429) \div 524288 = i \div 10
    BY <1>1, MagicTenth
  <2> QED BY <1>3, <2>1 DEF tenth
<1>5. i \div 10 \in Nat
  BY <1>1
<1>6. i = 10 * (i \div 10) + (i % 10)
  BY <1>1
<1>7. ten(tenth(i)) = 10 * (i \div 10)
  BY <1>4, <1>5 DEF ten
<1> QED BY <1>1, <1>4, <1>5, <1>6, <1>7
===============================================================================
