------------------------------- MODULE Shuffle -------------------------------
(***************************************************************************)
(* shuffle of shuffle.c, with the xorshift generator of xorshift.c.  Its   *)
(* seed is a static variable without a lock: each swap loads it and stores *)
(* its successor, and before, between and after the two another thread     *)
(* that shuffles, or that holds getseedp's pointer, may store its own.     *)
(***************************************************************************)
EXTENDS Calls, Words

CONSTANTS ShiftBits,    \* the bits of the seed: 32
          Shifts,       \* <<13, 17, 15>>
          ArraySizes    \* the sizes of the arrays that are shuffled

ASSUME ArraySizesAssumption ==
    /\ ArraySizes \subseteq Nat /\ \A n \in ArraySizes : n < 2^ShiftBits
    /\ ShiftBits \in Nat /\ PowersTo(2, ShiftBits) /\ 2 < 2^ShiftBits
    /\ Shifts \in [1 .. 3 -> 1 .. ShiftBits]

VARIABLES rng,          \* seed
          loaded,       \* what this swap has loaded from seed
          array,        \* base, element by element
          at            \* i

shuffleVars == <<rng, loaded, array, at>>

ShuffleCalls == {[f |-> "shuffle", size |-> n] : n \in ArraySizes}
ShuffleIdle == rng = 0 /\ loaded = 0 /\ array = <<>> /\ at = 0

-----------------------------------------------------------------------------
\* Slips a change to this code could make.

PartnerAnywhere(w, i, n) == (w % n) + i           \* size for size - i
PartnerAmongAll(w, i, n) == w % n                 \* the naive shuffle

-----------------------------------------------------------------------------
xorshift(w) ==
    LET a == Xor(w, ShiftLeft(w, Shifts[1], ShiftBits), ShiftBits)
        b == Xor(a, ShiftRight(a, Shifts[2]), ShiftBits)
    IN  Xor(b, ShiftLeft(b, Shifts[3], ShiftBits), ShiftBits)

\* The element that element i of n is swapped with.
Partner(w, i, n) == (w % (n - i)) + i

\* a: computed without a sign, it is huge for fewer than two elements.
limit == (call.size - 2) % 2^ShiftBits
Swapping == pc = "swap" /\ at < limit

\* The seed is what the last caller left, or 0 if there was none.
StartShuffle ==
    /\ Called("shuffle")
    /\ \E w \in WordOf(ShiftBits) : rng' = w
    /\ array' = [i \in 0 .. call.size - 1 |-> i]
    /\ pc' = "swap"
    /\ UNCHANGED <<call, loaded, at>>

\* Another thread stores its seed.
Disturb ==
    /\ Swapping \/ pc = "loaded"
    /\ \E w \in WordOf(ShiftBits) : rng' = w
    /\ UNCHANGED <<call, pc, loaded, array, at>>

LoadSeed ==
    /\ Swapping
    /\ loaded' = rng
    /\ pc' = "loaded"
    /\ UNCHANGED <<call, rng, array, at>>

\* The successor of the loaded seed is stored and picks the element: what another
\* thread has stored in between is lost.
SwapNext ==
    /\ pc = "loaded" /\ at < call.size
    /\ rng' = xorshift(loaded)
    /\ LET j == Partner(rng', at, call.size)
       IN  array' = [array EXCEPT ![at] = array[j], ![j] = array[at]]
    /\ at' = at + 1
    /\ pc' = "swap"
    /\ UNCHANGED <<call, loaded>>

\* % 0: the program ends.
DivideByZero ==
    /\ pc = "loaded" /\ at = call.size
    /\ rng' = xorshift(loaded)
    /\ pc' = "crashed"
    /\ UNCHANGED <<call, loaded, array, at>>

Shuffled ==
    /\ pc = "swap" /\ at >= limit
    /\ Return
    /\ UNCHANGED <<call, shuffleVars>>

ShuffleNext == StartShuffle \/ LoadSeed \/ SwapNext \/ DivideByZero \/ Shuffled

-----------------------------------------------------------------------------
(* Properties *)

\* Every variable has its type.
ShuffleTypeOK ==
    /\ rng \in WordOf(ShiftBits) /\ loaded \in WordOf(ShiftBits)
    /\ at \in Nat
    /\ array # <<>> => array \in [0 .. call.size - 1 -> 0 .. call.size - 1]

\* However often the seed changes under it, a shuffle swaps within the array and
\* loses no element; one of fewer than two elements never returns, and no other
\* shuffle ends the program.
ShufflePermutes ==
    /\ (call.f = "shuffle" /\ pc = "crashed") => call.size < 2
    /\ Returned("shuffle") => call.size >= 2
    /\ (pc = "loaded" /\ at < call.size) =>
          \A w \in WordOf(ShiftBits) : Partner(w, at, call.size) \in at .. call.size - 1
    /\ (pc \in {"swap", "loaded"} \/ Returned("shuffle")) =>
          /\ DOMAIN array = 0 .. call.size - 1
          /\ {array[i] : i \in DOMAIN array} = DOMAIN array

\* What has been drawn stays where it is: a step moves nothing in front of at.
\* And a swap stores 0 only when it has loaded 0 (from 0 there is no way back, and
\* nothing is ever moved again), and then always, over whatever another thread
\* has stored since: that thread's seed is lost.
SwapsKeep ==
    [][/\ pc \in {"swap", "loaded"} => \A i \in 0 .. at - 1 : array'[i] = array[i]
       /\ at' > at => (loaded = 0 <=> rng' = 0)]_<<call, pc, shuffleVars>>
=============================================================================
