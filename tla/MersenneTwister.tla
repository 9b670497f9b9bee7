--------------------------- MODULE MersenneTwister ---------------------------
(***************************************************************************)
(* The generator of random.c: a table of NN words, 312 in the code, that   *)
(* is regenerated in place whenever it is used up.  Its variables are      *)
(* static: they outlive the calls.  A word has WordBits bits, 64.          *)
(***************************************************************************)
EXTENDS Calls, Words

CONSTANTS NN, MM,               \* 312, 156
          WordBits,             \* 64
          LowerBits,            \* the bits of LM: 31
          MATRIX_A,
          InitMultiplier,       \* 6364136223846793005
          KeyMultipliers,       \* <<3935559000370003845, 2862933555777941757>>
          ShiftsMasks,          \* of tempering: <<29, m1>>, <<17, m2>>, <<37, m3>>, <<43, m4>>
          DefaultSeed, ArraySeed,   \* 5489, 19650218
          TwisterSeeds, TwisterKeys,    \* what the generator is seeded with
          MaxDrawn, MaxSeeded   \* bounds: numbers drawn, seedings

ASSUME TwisterAssumption == NN \in Nat /\ MM \in Nat /\ 1 < MM /\ MM < NN
ASSUME KeysAssumption == \A s \in TwisterKeys : s \in Seq(Nat) /\ s # <<>>
ASSUME TwistAssumption ==
    /\ WordBits \in Nat /\ LowerBits \in 1 .. WordBits - 1 /\ PowersTo(2, WordBits)
    /\ MATRIX_A \in WordOf(WordBits) /\ MATRIX_A >= 2^(WordBits - 1)
    /\ InitMultiplier \in Nat /\ KeyMultipliers[1] \in Nat /\ KeyMultipliers[2] \in Nat
    /\ TwisterSeeds \cup {DefaultSeed, ArraySeed} \subseteq WordOf(WordBits)
ASSUME TemperAssumption ==
    \A n \in 1 .. 4 : ShiftsMasks[n][1] \in 0 .. WordBits /\ ShiftsMasks[n][2] \in Nat

VARIABLES mt, mti,              \* the table and the index of the next word
          row, col, left,       \* the counters i, j and k of the loops
          then,                 \* what follows the loop of init_genrand64
          key,                  \* the argument of init_by_array64
          given,               \* the number given last
          previous,             \* the table before it was regenerated
          drawn, seeded         \* how many numbers, how many seedings

twisterVars == <<mt, mti, row, col, left, then, key, given, previous, drawn, seeded>>

TwisterCalls == {[f |-> "genrand64_int64"]}

TwisterIdle ==
    /\ mt = [n \in 0 .. NN - 1 |-> 0] /\ mti = NN + 1
    /\ row = 0 /\ col = 0 /\ left = 0 /\ then = "ready" /\ key = <<>> /\ given = 0
    /\ previous = [n \in 0 .. NN - 1 |-> 0] /\ drawn = 0 /\ seeded = 0

-----------------------------------------------------------------------------
\* Slips a change to this code could make.

FarShort(n) == (n + MM - 1) % NN                        \* MM - 1 for MM

NextInitPlain(w) ==                                     \* forgets the + 1
    (InitMultiplier * Xor(w, ShiftRight(w, WordBits - 2), WordBits)) % 2^WordBits

-----------------------------------------------------------------------------
(* The words *)

\* UM is the upper bits, LM the lower ones.
Twist(high, low, far) ==
    LET x == ShiftRight(high, LowerBits) * 2^LowerBits + (low % 2^LowerBits)
    IN  Xor(Xor(far, ShiftRight(x, 1), WordBits),
            IF Bit(x, 0) = 1 THEN MATRIX_A ELSE 0, WordBits)

\* x ^= (x >> s1) & m1; x ^= (x << s2) & m2; x ^= (x << s3) & m3; x ^= x >> s4
Temper(w) ==
    LET x[n \in 0 .. 4] ==
          IF n = 0 THEN w
          ELSE LET s == ShiftsMasks[n]
                   y == IF n \in 2 .. 3 THEN ShiftLeft(x[n - 1], s[1], WordBits)
                        ELSE ShiftRight(x[n - 1], s[1])
               IN  Xor(x[n - 1], And(y, s[2], WordBits), WordBits)
    IN  x[4]

\* What both ways of seeding do to the word before.
Folded(w) == Xor(w, ShiftRight(w, WordBits - 2), WordBits)

NextInit(w) == (InitMultiplier * Folded(w) + 1) % 2^WordBits

\* The word MM places further on, one table later behind the end.
Far(n) == IF n < NN - MM THEN n + MM ELSE n + MM - NN

-----------------------------------------------------------------------------
(* init_genrand64 *)

StartInit(s, after) ==
    /\ mt' = [mt EXCEPT ![0] = s]
    /\ mti' = 1
    /\ then' = after
    /\ pc' = "init"

CallInit ==
    /\ pc = "ready" /\ seeded < MaxSeeded
    /\ \E s \in TwisterSeeds : StartInit(s, "ready")
    /\ seeded' = seeded + 1
    /\ UNCHANGED <<call, row, col, left, key, given, previous, drawn>>

InitWord ==
    /\ pc = "init" /\ mti < NN
    /\ mt' = [mt EXCEPT ![mti] = NextInit(mt[mti - 1])]
    /\ mti' = mti + 1
    /\ UNCHANGED <<call, pc, row, col, left, then, key, given, previous, drawn, seeded>>

\* Regenerating begins where init_genrand64 was called for it.
InitDone ==
    /\ pc = "init" /\ mti = NN
    /\ pc' = then
    /\ row' = IF then = "key" THEN 1 ELSE 0
    /\ col' = 0
    /\ left' = IF Len(key) > NN THEN Len(key) ELSE NN
    /\ previous' = mt
    /\ UNCHANGED <<call, mt, mti, then, key, given, drawn, seeded>>

(* init_by_array64 *)

CallInitByArray ==
    /\ pc = "ready" /\ seeded < MaxSeeded
    /\ \E s \in TwisterKeys : key' = s
    /\ StartInit(ArraySeed, "key")
    /\ seeded' = seeded + 1
    /\ UNCHANGED <<call, row, col, left, given, previous, drawn>>

\* mt[i] is written and i goes on, round the end by way of mt[0].
Mix(word) ==
    /\ mt' = IF row + 1 >= NN THEN [mt EXCEPT ![row] = word, ![0] = word]
             ELSE [mt EXCEPT ![row] = word]
    /\ row' = IF row + 1 >= NN THEN 1 ELSE row + 1

Mixed(multiplier, plus) ==
    (Xor(mt[row], (Folded(mt[row - 1]) * multiplier) % 2^WordBits, WordBits) + plus) % 2^WordBits

MixKey ==
    /\ pc = "key" /\ left > 0
    /\ Mix(Mixed(KeyMultipliers[1], key[col + 1] + col))
    /\ col' = IF col + 1 >= Len(key) THEN 0 ELSE col + 1
    /\ left' = left - 1
    /\ UNCHANGED <<call, pc, mti, then, key, given, previous, drawn, seeded>>

KeyMixed ==
    /\ pc = "key" /\ left = 0
    /\ left' = NN - 1
    /\ pc' = "mix"
    /\ UNCHANGED <<call, mt, mti, row, col, then, key, given, previous, drawn, seeded>>

MixAgain ==
    /\ pc = "mix" /\ left > 0
    /\ Mix(Mixed(KeyMultipliers[2], -row))
    /\ left' = left - 1
    /\ UNCHANGED <<call, pc, mti, col, then, key, given, previous, drawn, seeded>>

\* Not all words are 0.
InitByArrayDone ==
    /\ pc = "mix" /\ left = 0
    /\ mt' = [mt EXCEPT ![0] = 2^(WordBits - 1)]
    /\ pc' = "ready"
    /\ UNCHANGED <<call, mti, row, col, left, then, key, given, previous, drawn, seeded>>

-----------------------------------------------------------------------------
(* genrand64_int64 *)

Open ==
    /\ Called("genrand64_int64")
    /\ pc' = "ready"
    /\ UNCHANGED <<call, twisterVars>>

\* Nobody has seeded it: a default seed is used.
CallUnseeded ==
    /\ pc = "ready" /\ drawn < MaxDrawn /\ mti = NN + 1
    /\ StartInit(DefaultSeed, "refill")
    /\ UNCHANGED <<call, row, col, left, key, given, previous, drawn, seeded>>

CallUsedUp ==
    /\ pc = "ready" /\ drawn < MaxDrawn /\ mti = NN
    /\ row' = 0
    /\ previous' = mt
    /\ pc' = "refill"
    /\ UNCHANGED <<call, mt, mti, col, left, then, key, given, drawn, seeded>>

RefillWord ==
    /\ pc = "refill" /\ row < NN - 1
    /\ mt' = [mt EXCEPT ![row] = Twist(mt[row], mt[row + 1], mt[Far(row)])]
    /\ row' = row + 1
    /\ UNCHANGED <<call, pc, mti, col, left, then, key, given, previous, drawn, seeded>>

RefillLast ==
    /\ pc = "refill" /\ row = NN - 1
    /\ mt' = [mt EXCEPT ![NN - 1] = Twist(mt[NN - 1], mt[0], mt[MM - 1])]
    /\ mti' = 0
    /\ pc' = "draw"
    /\ UNCHANGED <<call, row, col, left, then, key, given, previous, drawn, seeded>>

Give ==
    /\ given' = Temper(mt[mti])
    /\ mti' = mti + 1
    /\ drawn' = drawn + 1
    /\ UNCHANGED <<call, mt, row, col, left, then, key, previous, seeded>>

GiveFirst == pc = "draw" /\ Give /\ pc' = "ready"
GiveNext  == pc = "ready" /\ drawn < MaxDrawn /\ mti < NN /\ Give /\ UNCHANGED pc

Leave ==
    /\ pc = "ready" /\ drawn = MaxDrawn
    /\ Return
    /\ UNCHANGED <<call, twisterVars>>

TwisterNext ==
    \/ Open \/ CallInit \/ InitWord \/ InitDone
    \/ CallInitByArray \/ MixKey \/ KeyMixed \/ MixAgain \/ InitByArrayDone
    \/ CallUnseeded \/ CallUsedUp \/ RefillWord \/ RefillLast \/ GiveFirst \/ GiveNext
    \/ Leave

-----------------------------------------------------------------------------
(* Properties *)

\* Every variable has its type.
TwisterTypeOK ==
    /\ mt \in [0 .. NN - 1 -> WordOf(WordBits)]
    /\ previous \in [0 .. NN - 1 -> WordOf(WordBits)]
    /\ mti \in 0 .. NN + 1
    /\ row \in 0 .. NN - 1 /\ col \in Nat /\ left \in Nat
    /\ then \in {"ready", "key", "refill"}
    /\ key \in TwisterKeys \cup {<<>>}
    /\ given \in WordOf(WordBits)
    /\ drawn \in Nat /\ seeded \in Nat

\* The words of the last two tables in one row: those that are still to come
\* out of the table follow those it was made of.
Stream(n) == IF n < NN THEN previous[n] ELSE mt[n - NN]

Seeding == pc \in {"init", "key", "mix"}

Window ==
    IF pc = "refill" THEN previous
    ELSE IF ~Seeding /\ mti < NN THEN [n \in 0 .. NN - 1 |-> Stream(mti + n)]
    ELSE mt

\* The table is regenerated in place, word by word, reading some words before
\* and some after they were written.  What comes out is nevertheless the one
\* endless recurrence, whenever the generator is seeded again, and whether it
\* was seeded at all.
Recurrence ==
    INSTANCE TwisterStream WITH window <- Window, seeding <- Seeding, output <- given
ImplementsStream == Recurrence!Spec

\* What of a table the recurrence goes on with: all but the lower bits of its
\* first word.
Alive(table) ==
    \/ ShiftRight(table[0], LowerBits) # 0
    \/ \E n \in 1 .. NN - 1 : table[n] # 0

\* Seeded by either function or not at all, and however often regenerated, the
\* table is not one of zeros, which the recurrence would never leave: not even
\* with bits in the one place where the recurrence does not look.
TableAlive == pc \in {"refill", "draw"} => Alive(previous)
=============================================================================
