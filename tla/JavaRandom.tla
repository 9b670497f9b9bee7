------------------------------ MODULE JavaRandom ------------------------------
(***************************************************************************)
(* java_random.c: the generator of java.util.Random on top of drand48_r,   *)
(* and isSlimeChunk of minecraft.c.                                        *)
(*                                                                         *)
(* The state has SeedBits bits, 48 in the code, and an int IntBits, 32.    *)
(***************************************************************************)
EXTENDS Calls, Words, FiniteSets

CONSTANTS SeedBits, IntBits,
          MULTIPLIER, ADDEND, INVERSE_MULTIPLIER,
          HighBits, LowBits, FloatBits,     \* 26, 27, 24: the draws of floats
          SlimeBound,       \* one chunk in 10 is a slime chunk
          Seeds,            \* the states that a call finds
          Bounds            \* the bounds that are asked for

ASSUME BitsAssumption ==
    /\ SeedBits \in Nat /\ IntBits \in Nat
    /\ 1 < IntBits /\ IntBits < SeedBits /\ SeedBits % 3 = 0
    /\ HighBits \in 0 .. IntBits /\ LowBits \in 0 .. IntBits /\ FloatBits \in 0 .. IntBits
ASSUME ConstantsAssumption ==
    /\ MULTIPLIER \in Nat /\ ADDEND \in Nat /\ INVERSE_MULTIPLIER \in Nat
    /\ (MULTIPLIER * INVERSE_MULTIPLIER) % 2^SeedBits = 1

\* Powers are beyond the provers, but for this much of them.
ASSUME PowersAssumption ==
    PowersTo(2, 2 * SeedBits) /\ PowersTo(2^(SeedBits \div 3), 2)

\* States have SeedBits bits, and bounds are ints.
ASSUME ArgumentsAssumption ==
    /\ Seeds \subseteq WordOf(SeedBits)
    /\ Bounds \subseteq Int /\ SlimeBound \in Nat \ {0}
    /\ \A bound \in Bounds \cup {SlimeBound} : bound < 2^(IntBits - 1)

VARIABLES seed,     \* the state of drand48_r
          draws,    \* the last two words it has given
          u,        \* the draw that is looked at
          r         \* the result

randomVars == <<seed, draws, u, r>>

NextCalls == {"nextInt", "nextLong", "nextDouble", "nextFloat"}
RandomCalls ==
    {[f |-> "nextIntWithBounds", seed |-> x, bound |-> bound] : x \in Seeds, bound \in Bounds}
    \cup {[f |-> f, seed |-> x] : f \in NextCalls, x \in Seeds}
    \cup {[f |-> "isSlimeChunk", seed |-> x] : x \in Seeds}

RandomIdle == seed = 0 /\ draws = <<>> /\ u = 0 /\ r = 0

-----------------------------------------------------------------------------
\* Slips a change to this code could make.

RejectsEarly(d, bound) ==                   \* without - r
    Signed((d + (bound - 1)) % 2^IntBits, IntBits) < 0
mrand48_unstored(x) == x                    \* the next state not kept
lcgInverseUnsubtracted(x) == (x * INVERSE_MULTIPLIER) % 2^SeedBits

-----------------------------------------------------------------------------
(* The generator *)

lcg(x) == (x * MULTIPLIER + ADDEND) % 2^SeedBits
lcgInverse(x) == ((x - ADDEND) * INVERSE_MULTIPLIER) % 2^SeedBits

initialScramble(x) == Xor(x, MULTIPLIER % 2^SeedBits, SeedBits)

\* mrand48_r: the next state; the draw is its upper word.
mrand48(x) == lcg(x)
Draw(x) == ShiftRight(x, SeedBits - IntBits)

\* next(rnd, bits): the upper bits of the draw d, shifted as unsigned.
next(d, bits) == ShiftRight(d, IntBits - bits)

\* seed48_r from the three shorts that isSlimeChunk cuts the seed into.
Short == 2^(SeedBits \div 3)
buf(x) == <<x % Short, (x \div Short) % Short, (x \div Short^2) % Short>>
seed48(b) == b[1] + b[2] * Short + b[3] * Short^2

-----------------------------------------------------------------------------
(* nextIntWithBounds, nextintwithbounds2_r *)

IsPowerOfTwo(bound) == \E k \in 0 .. IntBits - 2 : bound = 2^k

\* u - (r = u % bound) + m < 0: the sum has left the ints, and wrapped.
Rejects(d, bound) ==
    Signed((d - (d % bound) + (bound - 1)) % 2^IntBits, IntBits) < 0

Enter ==
    /\ \/ Called("nextIntWithBounds")
       \/ Called("isSlimeChunk")
       \/ \E f \in NextCalls : Called(f)
    /\ seed' = IF call.f = "isSlimeChunk" THEN seed48(buf(initialScramble(call.seed)))
               ELSE call.seed
    /\ pc' = IF call.f \in NextCalls THEN "next" ELSE "bounds"
    /\ UNCHANGED <<call, draws, u, r>>

\* What nextIntWithBounds is called with, from isSlimeChunk too.
boundAsked == IF call.f = "isSlimeChunk" THEN SlimeBound ELSE call.bound

\* err!
RefuseBound ==
    /\ pc = "bounds" /\ boundAsked <= 0
    /\ r' = 0
    /\ Return
    /\ UNCHANGED <<call, seed, draws, u>>

DrawWord ==
    /\ seed' = mrand48(seed)
    /\ draws' = (IF draws = <<>> THEN <<>> ELSE <<draws[Len(draws)]>>) \o <<Draw(seed')>>

DrawFirst ==
    /\ pc = "bounds" /\ boundAsked > 0
    /\ DrawWord
    /\ u' = next(Draw(seed'), IntBits - 1)
    /\ IF IsPowerOfTwo(boundAsked)
       THEN r' = ShiftRight(boundAsked * u', IntBits - 1) /\ pc' = "result"
       ELSE r' = u' /\ pc' = "reject"
    /\ UNCHANGED call

DrawAgain ==
    /\ pc = "reject" /\ Rejects(u, boundAsked)
    /\ DrawWord
    /\ u' = next(Draw(seed'), IntBits - 1)
    /\ r' = u % boundAsked
    /\ UNCHANGED <<call, pc>>

Accept ==
    /\ pc = "reject" /\ ~Rejects(u, boundAsked)
    /\ r' = u % boundAsked
    /\ pc' = "result"
    /\ UNCHANGED <<call, seed, draws, u>>

Result ==
    /\ pc = "result"
    /\ r' = IF call.f = "isSlimeChunk" THEN (IF r = 0 THEN 1 ELSE 0) ELSE r
    /\ Return
    /\ UNCHANGED <<call, seed, draws, u>>

-----------------------------------------------------------------------------
(* nextInt, nextLong, nextDouble, nextFloat: one draw or two *)

\* Two signed halves added; a negative low half borrows from the high one.
Joined(high, low) ==
    Signed((Signed(high, IntBits) * 2^IntBits + Signed(low, IntBits)) % 2^(2 * IntBits),
           2 * IntBits)

Next1 ==
    /\ pc = "next" /\ draws = <<>>
    /\ DrawWord
    /\ CASE call.f = "nextInt"   -> r' = Signed(draws'[1], IntBits) /\ Return
         [] call.f = "nextFloat" -> r' = next(draws'[1], FloatBits) /\ Return
         [] OTHER                -> UNCHANGED <<r, pc>>
    /\ UNCHANGED <<call, u>>

Next2 ==
    /\ pc = "next" /\ draws # <<>>
    /\ DrawWord
    /\ r' = IF call.f = "nextLong" THEN Joined(draws'[1], draws'[2])
            ELSE next(draws'[1], HighBits) * 2^LowBits + next(draws'[2], LowBits)
    /\ Return
    /\ UNCHANGED <<call, u>>

RandomNext ==
    Enter \/ RefuseBound \/ DrawFirst \/ DrawAgain \/ Accept \/ Result \/ Next1 \/ Next2

-----------------------------------------------------------------------------
(* Properties *)

\* Every variable has its type: the state and the draws are words of their sizes,
\* and no more than two draws are kept.
RandomTypeOK ==
    /\ seed \in WordOf(SeedBits)
    /\ draws \in Seq(WordOf(IntBits)) /\ Len(draws) <= 2
    /\ u \in WordOf(IntBits - 1)
    /\ r \in Int

\* A call of this module that has begun.
Running == call.f \in NextCalls \cup {"nextIntWithBounds", "isSlimeChunk"} /\ pc # "call"

\* The state k draws ago.
StateBefore(k) ==
    LET state[n \in 0 .. k] == IF n = 0 THEN seed ELSE lcgInverse(state[n - 1])
    IN  state[k]

\* What a draw gives, if it is taken.
ResultOf(d, bound) ==
    IF IsPowerOfTwo(bound) THEN ShiftRight(bound * d, IntBits - 1) ELSE d % bound
Taken(d, bound) == IsPowerOfTwo(bound) \/ ~Rejects(d, bound)
EquallyLikely(bound) ==
    LET ways(x) ==
          Cardinality({d \in WordOf(IntBits - 1) : Taken(d, bound) /\ ResultOf(d, bound) = x})
    IN  ways(0) > 0 /\ \A x \in 0 .. bound - 1 : ways(x) = ways(0)
FairBounds == {bound \in Bounds : bound > 0 /\ EquallyLikely(bound)}

\* What the k-th draw from the state x on is taken for.
NthDraw(x, k) ==
    LET state[n \in 0 .. k] == IF n = 0 THEN x ELSE lcg(state[n - 1])
    IN  next(Draw(state[k]), IntBits - 1)

\* A bounded number is what the first draw gives that is taken; it is within its
\* bound; and of the draws that are taken as many give one number as give any
\* other, in the branch for powers of two too.
BoundedFair ==
    (Returned("nextIntWithBounds") /\ call.bound > 0) =>
        /\ r \in 0 .. call.bound - 1
        /\ call.bound \in FairBounds
        /\ \E k \in 1 .. 2^SeedBits :
              /\ Taken(NthDraw(call.seed, k), call.bound)
              /\ \A n \in 1 .. k - 1 : ~Taken(NthDraw(call.seed, n), call.bound)
              /\ r = ResultOf(NthDraw(call.seed, k), call.bound)

\* Every draw can be told from the state behind it, going back with lcgInverse,
\* and so can the state that the call found, the one that isSlimeChunk cuts into
\* shorts included; and both draws can be told from a long and from a double,
\* although the halves of a long are added as signed numbers.
DrawsTold ==
    /\ Running =>
          /\ \A k \in 1 .. Len(draws) : draws[k] = Draw(StateBefore(Len(draws) - k))
          /\ call.f \in NextCalls => StateBefore(Len(draws)) = call.seed
          /\ (call.f = "isSlimeChunk" /\ draws = <<>>) =>
                initialScramble(seed) = call.seed % 2^SeedBits
    /\ Returned("nextLong") =>
          LET low == r % 2^IntBits
          IN  /\ draws[2] = low
              /\ draws[1] = ((r - Signed(low, IntBits)) \div 2^IntBits) % 2^IntBits
    /\ Returned("nextDouble") =>
          /\ r \in 0 .. 2^(HighBits + LowBits) - 1
          /\ \A k \in 1 .. 2 : next(draws[k], <<HighBits, LowBits>>[k])
                    = <<r \div 2^LowBits, r % 2^LowBits>>[k]
=============================================================================
