---------------------------- MODULE MCLibraryCalls ----------------------------
(***************************************************************************)
(* LibraryCalls on the inputs at which its functions change their ways:    *)
(* numbers round the limits of the encodings, of the decimal digits and of *)
(* the loops; hashes with zeros in front, in the middle and at the end;    *)
(* every state and bound of a generator of 9 bits.                         *)
(***************************************************************************)
EXTENDS LibraryCalls

\* Lists of numbers.
Boundaries == {0, Mark(1) - 1, Mark(1), Mark(3), B^2 - 1, B^2, B^4 - 1, B^4, B^8 - 1}

\* Addresses: one hash too short, streams of one, three and five bytes.
Bits == {0, 1, B - 1}
AllRipes == [1 .. 3 -> Bits] \cup [1 .. 2 -> Bits]
SomeStreams == {1, B + 1, B^2 + 1}
AllKeys == [1 .. 3 -> Bits]
AllInputs == UNION {[1 .. n -> 0 .. B - 1] : n \in 0 .. 3}

\* Text.
Around(m) == {m - 1, m, m + 1}
SomeNumbers ==
    {0, 42, 2147483646} \cup UNION {Around(10^e) : e \in 0 .. 9}
    \cup Around(Small) \cup Around(Big)
SomeSizes == 1 .. 12
SomeInts == -130 .. 300 \cup {-32767, 32767}
SomeRadices == {2, 10, 16}
SomeData == UNION {[1 .. n -> {0, 1, 100, 255}] : n \in 0 .. 4}
SomeHexTexts == UNION {[1 .. n -> {0, 1, 10, 15, 16}] : n \in 0 .. 4}
SomeItems == {<<>>, <<1>>, <<2, 3>>}
SomeArrays == UNION {[1 .. n -> SomeItems] : n \in 0 .. 3}
SomeDelimiters == {<<>>, <<9>>, <<9, 9>>}

\* Zeros.
SomeHalves == <<8, 4, 2>>
SomeHashes == UNION {[1 .. n -> {0, 1}] : n \in 1 .. 7}
SomeWords == UNION {{2^e - 1, 2^e, 2^e + 1} : e \in 0 .. 15} \cup {65535, 65534, 43690}

\* Tokens.
SomeCounts == 0 .. Initial + 2 * Growth

\* Generators.
AllSeeds == WordOf(SeedBits)
AllBounds == -1 .. 15
SomeKeyMultipliers == <<5, 5>>
SomeShiftsMasks == << <<2, 5>>, <<1, 6>>, <<2, 4>>, <<2, 7>> >>
SomeKeys == {<<0>>, <<3, 1, 0, 2, 5>>}
SomeShifts == <<1, 3, 2>>
SomeArraySizes == 0 .. 5
=============================================================================
