----------------------------- MODULE LibraryCalls -----------------------------
(***************************************************************************)
(* A thread calls one of the library's functions that encode, convert,     *)
(* count, split, shuffle or draw, and the call runs to its end.            *)
(***************************************************************************)
EXTENDS VarintList, BmAddress, TextBuffers, ZeroCounts, StringArray,
        JavaRandom, MersenneTwister, Shuffle

Idle ==
    /\ ListIdle /\ AddressIdle /\ TextIdle /\ ZeroIdle /\ ArrayIdle
    /\ RandomIdle /\ TwisterIdle /\ ShuffleIdle

Init ==
    /\ call \in ListCalls \cup AddressCalls \cup TextCalls \cup ZeroCalls \cup ArrayCalls
                  \cup RandomCalls \cup TwisterCalls \cup ShuffleCalls
    /\ pc = "call"
    /\ Idle

vars == <<call, pc, listVars, addressVars, textVars, zeroVars, arrayVars,
          randomVars, twisterVars, shuffleVars>>

\* The variables of all functions but these are left alone.
ListStep    == ListNext    /\ UNCHANGED <<addressVars, textVars, zeroVars, arrayVars, randomVars, twisterVars, shuffleVars>>
AddressStep == AddressNext /\ UNCHANGED <<listVars, textVars, zeroVars, arrayVars, randomVars, twisterVars, shuffleVars>>
TextStep    == TextNext    /\ UNCHANGED <<listVars, addressVars, zeroVars, arrayVars, randomVars, twisterVars, shuffleVars>>
ZeroStep    == ZeroNext    /\ UNCHANGED <<listVars, addressVars, textVars, arrayVars, randomVars, twisterVars, shuffleVars>>
ArrayStep   == ArrayNext   /\ UNCHANGED <<listVars, addressVars, textVars, zeroVars, randomVars, twisterVars, shuffleVars>>
RandomStep  == RandomNext  /\ UNCHANGED <<listVars, addressVars, textVars, zeroVars, arrayVars, twisterVars, shuffleVars>>
TwisterStep == TwisterNext /\ UNCHANGED <<listVars, addressVars, textVars, zeroVars, arrayVars, randomVars, shuffleVars>>
ShuffleStep == ShuffleNext /\ UNCHANGED <<listVars, addressVars, textVars, zeroVars, arrayVars, randomVars, twisterVars>>

\* What another thread does while the call runs.
OtherThread == Disturb /\ UNCHANGED <<listVars, addressVars, textVars, zeroVars, arrayVars, randomVars, twisterVars>>

OwnStep ==
    \/ ListStep \/ AddressStep \/ TextStep \/ ZeroStep
    \/ ArrayStep \/ RandomStep \/ TwisterStep \/ ShuffleStep

Next == OwnStep \/ OtherThread

\* A thread that is in a call goes on.
Spec == Init /\ [][Next]_vars /\ WF_vars(OwnStep)

-----------------------------------------------------------------------------
\* The functions of each module that has several, and the places of their own
\* loops.
AddressFunctions == {"address", "wif", "bytes"}
ZeroFunctions    == {"getNLZ", "numberOfLeadingZeros", "numberOfTrailingZeros"}
RandomFunctions  == {"nextIntWithBounds", "isSlimeChunk"} \cup NextCalls

ListPlaces    == {"size", "encode", "decode"}
AddressPlaces == {"divide", "lead"}
TextPlaces    == TextFunctions \cup {"wide", "narrow", "single", "digits", "reverse", "join"}
ZeroPlaces    == {"bytes"}
SplitPlaces   == {"split", "trimmed", "undo"}
RandomPlaces  == {"bounds", "next", "reject", "result"}
TwisterPlaces == {"init", "key", "mix", "ready", "refill", "draw"}
ShufflePlaces == {"swap", "loaded"}

PlacesOf(f) ==
    CASE f = "list"               -> ListPlaces
      [] f \in AddressFunctions   -> AddressPlaces
      [] f \in TextFunctions      -> TextPlaces
      [] f \in ZeroFunctions      -> ZeroPlaces
      [] f = "string_array_split" -> SplitPlaces
      [] f \in RandomFunctions    -> RandomPlaces
      [] f = "genrand64_int64"    -> TwisterPlaces
      [] f = "shuffle"            -> ShufflePlaces

\* Every variable has its type, those of the functions that are not called too.
\* What is called is one of the library's functions, and pc a place of its own;
\* its arguments, the rest of call, no step assigns.
TypeOK ==
    /\ call.f \in {"list", "string_array_split", "genrand64_int64", "shuffle"}
                 \cup AddressFunctions \cup TextFunctions \cup ZeroFunctions \cup RandomFunctions
    /\ pc \in PlacesOf(call.f) \cup {"call", "return", "crashed"}
    /\ ListTypeOK /\ AddressTypeOK /\ TextTypeOK /\ ZeroTypeOK /\ ArrayTypeOK
    /\ RandomTypeOK /\ TwisterTypeOK /\ ShuffleTypeOK

\* base58encode does not write in front of its scratch array, and no text is
\* written outside its buffer, but for the first digit of a number that
\* snprintUInt64 prints into a single byte: it stands in front of it.  The array of
\* tokens is written within its slots as long as there are no more tokens than a
\* new one has slots; of a longer text one token, and never more than one, stands
\* behind them each time that the array is full.
BuffersInBounds == ScratchInBounds /\ TextInBounds /\ SplitInBounds

\* A number that is divided into digits is never lost: what is left to divide
\* and what has been written are the number, in base58encode's bytes as in
\* snprintUInt64's words.
NothingLost == ValueKept /\ DigitsKept

\* Every call comes to its end: none of the loops runs on for ever, neither the
\* divisions in place nor the draws that are thrown away.  Two functions may end the
\* program: shuffle does when there are fewer than two elements, and
\* string_array_split may when there are fewer than two tokens or no memory for its
\* result.
EveryCallReturns ==
    <>(\/ pc = "return" /\ (call.f = "shuffle" => call.size >= 2)
       \/ /\ pc = "crashed"
          /\ \/ call.f = "shuffle" /\ call.size < 2
             \/ call.f = "string_array_split" /\ (call.tokens < 2 \/ failed = "data"))
=============================================================================
