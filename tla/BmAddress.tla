------------------------------ MODULE BmAddress ------------------------------
(***************************************************************************)
(* Bitmessage addresses and wallet import keys: encodeAddress0 and         *)
(* encodeWIF of bm_sonota.c put a byte string together, base58encode of    *)
(* changebase.c turns it into text, one division at a time, in a scratch   *)
(* array that it fills from the end.                                       *)
(*                                                                         *)
(* Bytes are digits to the base B and characters digits to the base D, 256 *)
(* and 58 in the code; a character is its place in ALPHABET.  Array        *)
(* indices are the code's, from 0; sequences start at 1.                   *)
(***************************************************************************)
EXTENDS Varint, Calls

CONSTANTS D,                    \* characters of the alphabet: 58
          RipeSize,             \* bytes of a ripe hash: 20
          ChecksumSize,         \* bytes of a checksum: 4
          TextSize,             \* characters of an address after its BM-: 41
          Ripes,                \* the ripe hashes that addresses are made of
          Streams,              \* the stream numbers
          Keys,                 \* the private keys
          Inputs                \* what base58encode is called with by itself

\* Twice as many characters as bytes are enough.
ASSUME ScratchAssumption == D \in Nat /\ D > 1 /\ B <= D * D
ASSUME SizesAssumption == RipeSize \in Nat /\ RipeSize > 2 /\ ChecksumSize \in Nat
                             /\ TextSize \in Nat
ASSUME InputsAssumption ==
    Ripes \cup Keys \cup Inputs \subseteq Seq(Byte) /\ Streams \subseteq 0 .. B^4 - 1

\* The most bytes of an address: a version of one byte, a stream of five.  The
\* buffer of an address has room for all of their characters: in the code
\* 256^30 <= 58^41.
Longest == 1 + 5 + RipeSize + ChecksumSize
ASSUME TextSizeAssumption == 4 < Mark(1) /\ B^Longest <= D^TextSize
ASSUME LengthsAssumption ==
    /\ PowersTo(D, TextSize) /\ PowersTo(B, Longest)
    /\ \A key \in Keys : PowersTo(B, 1 + Len(key) + ChecksumSize)
    /\ \A input \in Inputs : PowersTo(B, Len(input))

VARIABLES
    stored,         \* the bytes to encode
    work,           \* base58encode's copy of them, divided again and again
    startAt,        \* the bytes of work that are 0 from the left
    zeroCount,      \* leading zero bytes still to be written as characters
    temp,           \* the scratch array
    j,              \* its first character in use
    output          \* the result, or <<>>

addressVars == <<stored, work, startAt, zeroCount, temp, j, output>>

-----------------------------------------------------------------------------
\* Slips a change to this code could make.

DropZerosTooMany(ripe) ==                       \* stops one byte late
    LET n == CHOOSE k \in 0 .. Len(ripe) :
                /\ \A i \in 1 .. k : ripe[i] = 0
                /\ k = Len(ripe) \/ ripe[k + 1] # 0
    IN  SubSeq(ripe, n + 2, Len(ripe))
ScratchSizeSame(s) == Len(s)                    \* as many characters as bytes

-----------------------------------------------------------------------------
(* encodeAddress0 *)

LeadingZeros(s) ==
    CHOOSE k \in 0 .. Len(s) :
        /\ \A i \in 1 .. k : s[i] = 0
        /\ k = Len(s) \/ s[k + 1] # 0

\* Version 4: all zero bytes in front are left out.
DropZeros(ripe) == SubSeq(ripe, LeadingZeros(ripe) + 1, Len(ripe))

\* Versions 2 and 3: up to two of them if max allows it, otherwise none.
DropTwoZeros(ripe) ==
    IF ripe[1] # 0 THEN ripe
    ELSE IF ripe[2] # 0 THEN SubSeq(ripe, 2, Len(ripe))
    ELSE SubSeq(ripe, 3, Len(ripe))

workripe(version, ripe, max) ==
    IF version \notin 2 .. 3 THEN DropZeros(ripe)
    ELSE IF max < RipeSize THEN DropTwoZeros(ripe)
    ELSE ripe

\* The first bytes of a SHA hash taken twice; any function of s will do.
Hash(s) == [k \in 1 .. ChecksumSize |-> (k * Len(s) + s[Len(s)] + s[1]) % B]

WithChecksum(s) == s \o Hash(s)

AddressBytes(version, stream, ripe, max) ==
    WithChecksum(encodeVarint(version) \o encodeVarint(stream) \o workripe(version, ripe, max))

\* 0x80 and the key.
KeyBytes(key) == WithChecksum(<<B \div 2>> \o key)

Address(version, stream, ripe, max) ==
    [f |-> "address", version |-> version, stream |-> stream, ripe |-> ripe, max |-> max]

encodeAddress(version, stream, ripe) == Address(version, stream, ripe, RipeSize)
encodeV4Address(ripe)                == Address(4, 1, ripe, RipeSize)
encodeV3Address(ripe)                == Address(3, 1, ripe, 2)
encodeShorterV3Address(ripe)         == Address(3, 1, ripe, RipeSize)
encodeWIF(key)                       == [f |-> "wif", key |-> key]
base58encode(input)                  == [f |-> "bytes", input |-> input]

AddressCalls ==
    {encodeAddress(version, stream, ripe) :
        version \in {2, 4}, stream \in Streams, ripe \in Ripes}
    \cup {encodeV4Address(ripe) : ripe \in Ripes}
    \cup {encodeV3Address(ripe) : ripe \in Ripes}
    \cup {encodeShorterV3Address(ripe) : ripe \in Ripes}
    \cup {encodeWIF(key) : key \in Keys}
    \cup {base58encode(input) : input \in Inputs}

\* A hash of another length has no address, and no bytes no text.
Refused(c) ==
    \/ c.f = "address" /\ Len(c.ripe) # RipeSize
    \/ c.f = "bytes" /\ c.input = <<>>

-----------------------------------------------------------------------------
(* base58encode *)

\* What is left of the first i + 1 bytes of number when divmod58 has divided
\* them from byte "from" on.
remainder(number, from, i) ==
    LET rem[k \in from - 1 .. i] ==
          IF k < from THEN 0 ELSE (rem[k - 1] * B + number[k + 1]) % D
    IN  rem[i]

\* divmod58: number divided by D from byte "from" on.
quotient(number, from) ==
    [n \in DOMAIN number |->
        IF n <= from THEN number[n]
        ELSE ((IF n = from + 1 THEN 0 ELSE remainder(number, from, n - 2)) * B
                + number[n]) \div D]

ScratchSize(s) == 2 * Len(s)

templen == ScratchSize(stored)

\* The first character of the scratch array from k on that is not a zero.
SkipZeros(k) ==
    CHOOSE n \in k .. templen :
        /\ \A i \in k .. n - 1 : temp[i] = 0
        /\ n = templen \/ temp[n] # 0

AddressIdle ==
    /\ stored = <<>> /\ work = <<>> /\ startAt = 0 /\ zeroCount = 0
    /\ temp = <<>> /\ j = 0 /\ output = <<>>

\* The bytes are put together; base58encode copies them, counts the zeros in
\* front and clears its scratch array.
Assemble ==
    /\ Called("address") \/ Called("wif") \/ Called("bytes")
    /\ ~Refused(call)
    /\ stored' =
          CASE call.f = "bytes"   -> call.input
            [] call.f = "wif"     -> KeyBytes(call.key)
            [] call.f = "address" ->
                  AddressBytes(call.version, call.stream, call.ripe, call.max)
    /\ work' = stored'
    /\ zeroCount' = LeadingZeros(stored')
    /\ startAt' = zeroCount'
    /\ temp' = [k \in 0 .. ScratchSize(stored') - 1 |-> 0]
    /\ j' = ScratchSize(stored')
    /\ pc' = "divide"
    /\ UNCHANGED <<call, output>>

Reject ==
    /\ Called("address") \/ Called("bytes")
    /\ Refused(call)
    /\ Return
    /\ UNCHANGED <<call, addressVars>>

\* One more character, from the right.
Divide ==
    /\ pc = "divide"
    /\ startAt < Len(work)
    /\ work' = quotient(work, startAt)
    /\ startAt' = IF work'[startAt + 1] = 0 THEN startAt + 1 ELSE startAt
    /\ j' = j - 1
    /\ temp' = [temp EXCEPT ![j - 1] = remainder(work, startAt, Len(work) - 1)]
    /\ UNCHANGED <<call, pc, stored, zeroCount, output>>

\* Zeros in front that stand for nothing.
Trim ==
    /\ pc = "divide"
    /\ startAt = Len(work)
    /\ j' = SkipZeros(j)
    /\ pc' = "lead"
    /\ UNCHANGED <<call, stored, work, startAt, zeroCount, temp, output>>

\* One character for every zero byte in front.
Lead ==
    /\ pc = "lead"
    /\ zeroCount > 0
    /\ zeroCount' = zeroCount - 1
    /\ j' = j - 1
    /\ temp' = [temp EXCEPT ![j - 1] = 0]
    /\ UNCHANGED <<call, pc, stored, work, startAt, output>>

\* An address is cut off where its buffer ends.
AtMost(m, n) == IF m < n THEN m ELSE n
Printed(c, text) ==
    IF c.f = "address" THEN SubSeq(text, 1, AtMost(Len(text), TextSize)) ELSE text

Finish ==
    /\ pc = "lead"
    /\ zeroCount = 0
    /\ output' = Printed(call, [k \in 1 .. templen - j |-> temp[j + k - 1]])
    /\ Return
    /\ UNCHANGED <<call, stored, work, startAt, zeroCount, temp, j>>

AddressNext == Assemble \/ Reject \/ Divide \/ Trim \/ Lead \/ Finish

-----------------------------------------------------------------------------
(* Properties *)

\* Every variable has its type.
AddressTypeOK ==
    /\ stored \in Seq(Byte)
    /\ work \in Seq(Byte)
    /\ startAt \in 0 .. Len(work)
    /\ zeroCount \in 0 .. Len(stored)
    /\ \A k \in DOMAIN temp : temp[k] \in 0 .. D - 1
    /\ j \in Int
    /\ output \in Seq(0 .. D - 1)

\* The scratch array is never written in front of its first element: neither
\* the characters nor the zeros in front are more than it has room for.
ScratchInBounds == j >= 0

\* No division loses anything: what is left to divide, followed by the
\* characters written, is still the number that the bytes stand for.
ValueKept ==
    (pc = "divide" /\ j \in 0 .. templen) =>
        Continued(Value(work), temp, D, j - 1, templen - 1) = Value(stored)

\* The bytes that a text stands for: as many zeros in front, then the number.
BytesOf(s) ==
    LET number == Numeral(s, D, 0, Len(s))
        size   == CHOOSE n \in 0 .. Len(stored) : number < B^n /\ (n = 0 \/ number >= B^(n - 1))
    IN  [k \in 1 .. LeadingZeros(s) |-> 0] \o BigEndian(number, size)

\* The text can be read back, byte by byte, zeros in front included; and an
\* address names its version, its stream and all of its ripe hash, although the
\* zeros in front of the hash were left out.  (Streams of more than 32 bits have
\* no room in the buffer and are not among Streams.)
AddressTellsRipe ==
    (pc = "return" /\ call.f \in {"address", "wif", "bytes"} /\ ~Refused(call)) =>
        /\ BytesOf(output) = stored
        /\ call.f = "address" =>
              LET body    == SubSeq(stored, 1, Len(stored) - ChecksumSize)
                  version == decodeVarint(body, 1)
                  stream  == decodeVarint(body, 1 + version.size)
                  rest    == SubSeq(body, 1 + version.size + stream.size, Len(body))
              IN  /\ version.value = call.version
                  /\ stream.value = call.stream
                  /\ Len(rest) <= RipeSize
                  /\ [k \in 1 .. RipeSize - Len(rest) |-> 0] \o rest = call.ripe
=============================================================================
