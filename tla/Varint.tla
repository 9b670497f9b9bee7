------------------------------- MODULE Varint -------------------------------
(***************************************************************************)
(* The variable-length integers of bm_sonota.c and bm_protocol.c, and the  *)
(* fixed-width integers (htobeXX and its inverses) they are made of.       *)
(*                                                                         *)
(* A byte is a digit to the base B, 256 in the code; the markers are its   *)
(* three largest values.  The widths, 2, 4 and 8 bytes, are the code's.    *)
(* Bytes are 1..n here and 0..n-1 there.                                   *)
(***************************************************************************)
EXTENDS Numerals, Sequences

CONSTANT B              \* the number of values of a byte
ASSUME BaseAssumption == B \in Nat /\ B > 3 /\ PowersTo(B, 8)

Byte == 0 .. B - 1
Mark(i) == B - 4 + i                    \* 0xfd, 0xfe, 0xff: i = 1, 2, 3
Width == <<2, 4, 8>>                    \* the bytes that follow a marker

\* What a varint can hold: 64 bits.
Number == 0 .. B^8 - 1

\* The n bytes of s from position i on.
Slice(s, i, n) == SubSeq(s, i, i + n - 1)

-----------------------------------------------------------------------------
\* Slips a change to this code could make.

LittleEndianValue(s) ==             \* the order read before the bug fix
    LET v[i \in 0 .. Len(s)] == IF i = 0 THEN 0 ELSE v[i - 1] * B + s[Len(s) - i + 1]
    IN  v[Len(s)]
BigEndianUnmasked(v, n) ==          \* forgets to cut the digits off
    [i \in 1 .. n |-> v \div B^(n - i)]
get_varint_size_off_by_one(u) ==    \* u < 0xffff
    IF u < Mark(1) THEN 1 ELSE IF u < B^2 - 1 THEN 3 ELSE IF u < B^4 THEN 5 ELSE 9
encodeVarint_32_bits(u) ==          \* no case for more than 32 bits
    LET digits(n) == [i \in 1 .. n |-> (u \div B^(n - i)) % B] IN
    IF u < Mark(1) THEN <<u>>
    ELSE IF u < B^2 THEN <<Mark(1)>> \o digits(2)
    ELSE <<Mark(2)>> \o digits(4)

-----------------------------------------------------------------------------
\* htobe16, htobe32, htobe64: n bytes of v, the most significant first.
BigEndian(v, n) == [i \in 1 .. n |-> (v \div B^(n - i)) % B]

\* be16toh, be32toh, be64toh, ntohl, ntohs of all bytes of s.
Value(s) == Numeral(s, B, 0, Len(s))

get_varint_size(u) ==
    IF u < Mark(1) THEN 1 ELSE IF u < B^2 THEN 3 ELSE IF u < B^4 THEN 5 ELSE 9

encodeVarint(u) ==
    IF u < Mark(1) THEN <<u>>
    ELSE IF u < B^2 THEN <<Mark(1)>> \o BigEndian(u, 2)
    ELSE IF u < B^4 THEN <<Mark(2)>> \o BigEndian(u, 4)
    ELSE <<Mark(3)>> \o BigEndian(u, 8)

\* The number at position i of s and the bytes it takes (*consumed_bytes).
decodeVarint(s, i) ==
    IF s[i] < Mark(1) THEN [value |-> s[i], size |-> 1]
    ELSE LET w == Width[s[i] - Mark(0)]
         IN  [value |-> Value(Slice(s, i + 1, w)), size |-> 1 + w]

-----------------------------------------------------------------------------
\* A string is the sequence of its bytes, none of which is 0.
get_varstr_size(str) == get_varint_size(Len(str)) + Len(str)

encodeVarStr(str) == encodeVarint(Len(str)) \o str
=============================================================================
