----------------------------- MODULE TextBuffers -----------------------------
(***************************************************************************)
(* Numbers and bytes as text: snprintUInt64, itoa and ltoa of printint.c,  *)
(* base64encode of base64.c, parseHex of changebase.c and strjoin.  Each   *)
(* fills a buffer by computed indices: the first from its end, two digits  *)
(* at a time and then one, the next two backwards and then turned round,   *)
(* base64encode in groups of four, strjoin item by item.                   *)
(*                                                                         *)
(* A character is the digit it stands for, or its place in BASE64_TABLE;   *)
(* -3 is the character three places below '0', and the others are the      *)
(* numbers far below.  Indices are the code's.                             *)
(***************************************************************************)
EXTENDS Calls, Numerals

CONSTANTS Word,         \* the values of a uint32_t: 2^32
          Big,          \* the largest number that goes to 32 bits: 0x7FFFFFFF
          Small,        \* where single digits begin: 65536
          MaxDigits,    \* the digits of the largest number: 20
          Numbers,      \* the numbers that snprintUInt64 prints
          Sizes,        \* the sizes of the buffers it is given
          Ints,         \* the numbers that itoa and ltoa print
          Radices,      \* the bases they print them to
          Data,         \* the byte strings that base64encode encodes
          HexTexts,     \* what parseHex reads, 16 is no hexadecimal digit
          Arrays,       \* what strjoin joins
          Delimiters    \* and with what between them; <<>> is NULL or empty

ASSUME WordAssumption ==
    /\ Word \in Nat \ {0} /\ Big \in Nat /\ Small \in Nat
    /\ Big < Word
    /\ 100 <= Small /\ Small * 52429 <= Word /\ Small <= 65536
    /\ Small <= Big + 1
ASSUME NumbersAssumption ==
    /\ MaxDigits \in Nat \ {0} /\ PowersTo(10, MaxDigits - 1)
    /\ \A l \in Numbers : l \in Nat /\ l \div 10^(MaxDigits - 1) < 10
ASSUME BufferSizesAssumption == \A n \in Sizes : n \in Nat /\ n > 0
\* A number of an int, as is its negative: -2^31, which itoa turns to no number of
\* an int, is left out.
IsInt(value) == value \in Int /\ \A v \in {value, -value} : v \div 2^16 < 2^15
ASSUME IntsAssumption == \A value \in Ints : IsInt(value)
ASSUME RadicesAssumption == Radices \subseteq 2 .. 36 /\ PowersTo(2, 16)
ASSUME DataAssumption ==
    /\ Data \subseteq Seq(0 .. 255) /\ HexTexts \subseteq Seq(0 .. 16)
    /\ Arrays \subseteq Seq(Seq(0 .. 255)) /\ Delimiters \subseteq Seq(0 .. 255)

Nul   == -101
Minus == -102
Pad   == -103
Unset == -104           \* what the buffer holds before

VARIABLES
    num,        \* tmp and i2 of snprintUInt64; value of itoa; bytes or items done
    s,          \* the buffer
    pos,        \* charPos; i; cursor
    length,     \* the characters of the text
    start,      \* reverse: the next two characters to swap
    end

textVars == <<num, s, pos, length, start, end>>

-----------------------------------------------------------------------------
\* Slips a change to this code could make.

tenthCoarse(i2) == ((i2 * 6554) % Word) \div 65536  \* the next smaller shift
HasSwapLate(from, to) == from + 1 < to          \* leaves the middle pair
QuartetUnmasked(a, b, c) ==                     \* << 4 without & 0x30
    <<a \div 4, a * 16 + b \div 16, ((b * 4) % 64) + c \div 64, c % 64>>

-----------------------------------------------------------------------------
(* The pieces *)

\* The decimal digits of l.
stringSize(l) ==
    CHOOSE i \in 1 .. MaxDigits :
        /\ i = MaxDigits \/ l < 10^i
        /\ i = 1 \/ l >= 10^(i - 1)

\* More digits than the buffer and its terminator hold.
MustCut(len, n) == len >= n

\* (q << 6) + (q << 5) + (q << 2) and (q << 3) + (q << 1)
hundred(q) == q * 64 + q * 32 + q * 4
ten(q)     == q * 8 + q * 2

\* i2 / 10 without a division, in 32 bits: (i2 * 52429) >> 19.
tenth(i2) == ((i2 * 52429) % Word) \div 524288

\* reverse goes on until its two ends meet.
HasSwap(from, to) == from < to

\* Three bytes as four characters.
Quartet(a, b, c) ==
    <<a \div 4, ((a * 16) % 64) + b \div 16, ((b * 4) % 64) + c \div 64, c % 64>>

\* The bytes of s from i on as four characters; j bytes are left.
Group(data, i, j) ==
    LET a == data[i + 1]
    IN  IF j = 1 THEN SubSeq(Quartet(a, 0, 0), 1, 2) \o <<Pad, Pad>>
        ELSE IF j = 2 THEN SubSeq(Quartet(a, data[i + 2], 0), 1, 3) \o <<Pad>>
        ELSE Quartet(a, data[i + 2], data[i + 3])

\* The bytes that base64encode allocates.
base64length(size) == (size * 4) \div 3 + 3 + 1

\* A call, and the size of the buffer that it fills: what itoa needs at most is
\* the caller's to know.
snprintUInt64(n, l)  == [f |-> "snprintUInt64", l |-> l, room |-> n]
itoa(value, radix)   == [f |-> "itoa", l |-> value, radix |-> radix, room |-> 34]
base64encode(data)   == [f |-> "base64encode", data |-> data, room |-> base64length(Len(data))]
parseHex(str)        == [f |-> "parseHex", str |-> str, room |-> Len(str) \div 2]
strjoin(delimiter, array) ==
    [f |-> "strjoin", delimiter |-> delimiter, array |-> array, room |-> 0]

TextFunctions == {"snprintUInt64", "itoa", "base64encode", "parseHex", "strjoin"}
TextCalls ==
    {snprintUInt64(n, l) : n \in Sizes, l \in Numbers}
    \cup {itoa(value, radix) : value \in Ints, radix \in Radices}
    \cup {base64encode(data) : data \in Data}
    \cup {parseHex(str) : str \in HexTexts}
    \cup {strjoin(delimiter, array) : delimiter \in Delimiters, array \in Arrays}

-----------------------------------------------------------------------------
TextIdle == num = 0 /\ s = <<>> /\ pos = 0 /\ length = 0 /\ start = 0 /\ end = 0

\* The locals of the function called; the buffer is as it was allocated.
EnterText ==
    /\ \E f \in TextFunctions : Called(f)
    /\ pc' = call.f
    /\ num' = IF "l" \in DOMAIN call THEN call.l ELSE 0
    /\ s' = [i \in 0 .. call.room - 1 |-> Unset]
    /\ length' = IF call.f = "snprintUInt64" THEN stringSize(call.l) ELSE 0
    /\ UNCHANGED <<call, pos, start, end>>

(* snprintUInt64 *)

\* One digit less than the number has.
Cut ==
    /\ pc = "snprintUInt64"
    /\ MustCut(length, call.room)
    /\ length' = length - 1
    /\ num' = num \div 10
    /\ UNCHANGED <<call, pc, s, pos, start, end>>

Terminate ==
    /\ pc = "snprintUInt64"
    /\ ~MustCut(length, call.room)
    /\ pos' = length
    /\ s' = [s EXCEPT ![length] = Nul]
    /\ pc' = "wide"
    /\ UNCHANGED <<call, num, length, start, end>>

\* Two digits at a time.
WritePair ==
    LET q == num \div 100
        r == num - hundred(q)
    IN  /\ s' = [s EXCEPT ![pos - 1] = r % 10, ![pos - 2] = r \div 10]
        /\ pos' = pos - 2
        /\ num' = q
        /\ UNCHANGED <<call, pc, length, start, end>>

WidePair   == pc = "wide" /\ num > Big /\ WritePair
NarrowPair == pc = "narrow" /\ num >= Small /\ WritePair

\* From 64 bits to 32.
Narrow ==
    /\ pc = "wide"
    /\ num <= Big
    /\ num' = num % Word
    /\ pc' = "narrow"
    /\ UNCHANGED <<call, s, pos, length, start, end>>

Single ==
    /\ pc = "narrow"
    /\ num < Small
    /\ pc' = "single"
    /\ UNCHANGED <<call, num, s, pos, length, start, end>>

\* One digit at a time; in a buffer of one byte the first stands in front of it.
WriteDigit ==
    /\ pc = "single"
    /\ s' = [s EXCEPT ![pos - 1] = num - ten(tenth(num))]
    /\ pos' = pos - 1
    /\ num' = tenth(num)
    /\ pc' = IF num' = 0 THEN "return" ELSE "single"
    /\ UNCHANGED <<call, length, start, end>>

-----------------------------------------------------------------------------
(* itoa, ltoa *)

\* Division and remainder of C: towards zero.
Quotient(a, b)  == IF a < 0 THEN -((-a) \div b) ELSE a \div b
Remainder(a, b) == a - Quotient(a, b) * b

isNegative == call.l < 0 /\ call.radix = 10

Zero ==
    /\ pc = "itoa"
    /\ num = 0
    /\ s' = [s EXCEPT ![0] = 0, ![1] = Nul]
    /\ length' = 1
    /\ Return
    /\ UNCHANGED <<call, num, pos, start, end>>

Begin ==
    /\ pc = "itoa"
    /\ num # 0
    /\ num' = IF isNegative THEN -num ELSE num
    /\ pc' = "digits"
    /\ UNCHANGED <<call, s, pos, length, start, end>>

Digit ==
    /\ pc = "digits"
    /\ num # 0
    /\ s' = [s EXCEPT ![pos] = Remainder(num, call.radix)]
    /\ pos' = pos + 1
    /\ num' = Quotient(num, call.radix)
    /\ UNCHANGED <<call, pc, length, start, end>>

\* The sign, the terminator and the call of reverse.
Sign ==
    /\ pc = "digits"
    /\ num = 0
    /\ length' = IF isNegative THEN pos + 1 ELSE pos
    /\ s' = IF isNegative THEN [s EXCEPT ![pos] = Minus, ![pos + 1] = Nul]
            ELSE [s EXCEPT ![pos] = Nul]
    /\ end' = length' - 1
    /\ pc' = "reverse"
    /\ UNCHANGED <<call, num, pos, start>>

Swap ==
    /\ pc = "reverse"
    /\ HasSwap(start, end)
    /\ s' = [s EXCEPT ![start] = s[end], ![end] = s[start]]
    /\ start' = start + 1
    /\ end' = end - 1
    /\ UNCHANGED <<call, pc, num, pos, length>>

Reversed ==
    /\ pc = "reverse"
    /\ ~HasSwap(start, end)
    /\ Return
    /\ UNCHANGED <<call, num, s, pos, length, start, end>>

-----------------------------------------------------------------------------
(* base64encode *)

\* num bytes are encoded, and as many groups as (size + 2) / 3 are written.
EncodeGroup ==
    /\ pc = "base64encode"
    /\ num < Len(call.data)
    /\ s' = LET group == Group(call.data, num, Len(call.data) - num)
            IN  [i \in DOMAIN s |-> IF i \in pos .. pos + 3 THEN group[i - pos + 1] ELSE s[i]]
    /\ pos' = pos + 4
    /\ num' = num + 3
    /\ UNCHANGED <<call, pc, length, start, end>>

EndText ==
    /\ pc = "base64encode"
    /\ num >= Len(call.data)
    /\ s' = [s EXCEPT ![pos] = Nul]
    /\ length' = pos
    /\ Return
    /\ UNCHANGED <<call, num, pos, start, end>>

-----------------------------------------------------------------------------
(* parseHex and strjoin *)

\* TABLE: what is no hexadecimal digit counts as 0.
HexDigit(c) == IF c \in 0 .. 15 THEN c ELSE 0

HexByte ==
    /\ pc = "parseHex"
    /\ num < call.room
    /\ s' = [s EXCEPT ![num] = HexDigit(call.str[2 * num + 1]) * 16 + HexDigit(call.str[2 * num + 2])]
    /\ num' = num + 1
    /\ UNCHANGED <<call, pc, pos, length, start, end>>

EndHex ==
    /\ pc = "parseHex"
    /\ num = call.room
    /\ length' = num
    /\ Return
    /\ UNCHANGED <<call, num, s, pos, start, end>>

\* A delimiter that is there is taken for none.
deli == IF call.delimiter = <<>> THEN call.delimiter ELSE <<>>

MeasureItem ==
    /\ pc = "strjoin"
    /\ num < Len(call.array)
    /\ length' = length + Len(call.array[num + 1])
    /\ num' = num + 1
    /\ UNCHANGED <<call, pc, s, pos, start, end>>

\* calloc: terminators all over.
AllocateJoin ==
    /\ pc = "strjoin"
    /\ num = Len(call.array)
    /\ length' = IF num = 0 THEN 0 ELSE length + (num - 1) * Len(deli)
    /\ s' = [i \in 0 .. length' |-> Nul]
    /\ num' = 0
    /\ pc' = "join"
    /\ UNCHANGED <<call, pos, start, end>>

JoinItem ==
    /\ pc = "join"
    /\ num < Len(call.array)
    /\ LET item == (IF num = 0 THEN <<>> ELSE deli) \o call.array[num + 1] IN
          /\ s' = [i \in DOMAIN s |->
                      IF i \in pos .. pos + Len(item) - 1 THEN item[i - pos + 1] ELSE s[i]]
          /\ pos' = pos + Len(item)
    /\ num' = num + 1
    /\ UNCHANGED <<call, pc, length, start, end>>

EndJoin ==
    /\ pc = "join"
    /\ num = Len(call.array)
    /\ Return
    /\ UNCHANGED <<call, textVars>>

TextNext ==
    \/ EnterText
    \/ Cut \/ Terminate \/ WidePair \/ Narrow \/ NarrowPair \/ Single \/ WriteDigit
    \/ Zero \/ Begin \/ Digit \/ Sign \/ Swap \/ Reversed
    \/ EncodeGroup \/ EndText
    \/ HexByte \/ EndHex \/ MeasureItem \/ AllocateJoin \/ JoinItem \/ EndJoin

-----------------------------------------------------------------------------
(* Properties *)

\* Every variable has its type; no character is anything but a digit, a letter
\* of the table or one of the others.
TextTypeOK ==
    /\ num \in Nat \/ (call.f = "itoa" /\ num \in Int)
    /\ \A i \in DOMAIN s : s[i] \in Unset .. 255
    /\ length \in Nat /\ start \in Nat
    /\ pos \in Int /\ end \in Int

\* No function writes outside its buffer, but snprintUInt64 one character in
\* front of one that has a single byte: it arrives at its first character with
\* the last digit, base64encode's text ends in its array, and what strjoin copies
\* is no longer than what it measured.
TextInBounds ==
    /\ call.f = "snprintUInt64" =>
          pos \in (IF call.room = 1 /\ pc = "return" THEN {-1} ELSE 0 .. call.room - 1)
    /\ call.f = "itoa" => pos < call.room - 1
    /\ call.f = "base64encode" => pos < call.room
    /\ call.f = "strjoin" /\ pc # "call" => pos <= length

\* The number whose digits to the base radix stand in s from i on, before k.
NumberAt(radix, i, k) == Numeral(s, radix, i - 1, k - 1)

AreDigits(radix, i, k) == \A n \in i .. k - 1 : s[n] \in 0 .. radix - 1

\* The first k digits of l.
FirstDigits(l, k) == IF k = 0 THEN 0 ELSE l \div 10^(stringSize(l) - k)

\* What snprintUInt64 has still to print, followed by what it has printed, is
\* the number without the digits that were cut off, whatever loop it is in; and
\* what it has printed are digits.
DigitsKept ==
    (pc \in {"wide", "narrow", "single"} /\ pos \in 0 .. length) =>
        /\ AreDigits(10, pos, length)
        /\ Continued(num, s, 10, pos - 1, length - 1) = FirstDigits(call.l, length)

\* The bytes of four characters of the table.
Triple(a, b, c, d) ==
    <<a * 4 + b \div 16, (b % 16) * 16 + c \div 4, (c % 4) * 64 + d>>

\* The bytes of all characters before k, those of padding left out.
Decoded(k) ==
    LET at(i)   == IF s[i] = Pad THEN 0 ELSE s[i]
        bytes[i \in 0 .. k \div 4] ==
            IF i = 0 THEN <<>>
            ELSE bytes[i - 1] \o Triple(at(4 * i - 4), at(4 * i - 3), at(4 * i - 2), at(4 * i - 1))
        padding == {i \in 0 .. k - 1 : s[i] = Pad}
        whole   == bytes[k \div 4]
        pads    == IF padding = {} THEN 0 ELSE IF padding = {k - 1} THEN 1 ELSE 2
    IN  SubSeq(whole, 1, Len(whole) - pads)

\* The first k items one after the other.
JoinedItems(array, k) ==
    LET joined[i \in 0 .. k] == IF i = 0 THEN <<>> ELSE joined[i - 1] \o array[i]
    IN  joined[k]

\* The number of hexadecimal digits, those that are none left as zeros.
HexValue(digits) ==
    Numeral([i \in 1 .. Len(digits) |-> digits[i] % 16], 16, 0, Len(digits))

\* When a function is done its text ends where it says and reads back to what
\* was printed: the number, or as many of its first digits as there was room
\* for, with no zeros in front; the number with its sign; the bytes; the items one
\* after the other, if nothing was to stand between them.  parseHex gives the bytes
\* of the number that its digits stand for, without the last one of an odd number
\* of them.  What itoa makes of a negative number to another base than 10, and
\* strjoin of a delimiter, TextsAsCommented says.
TextReadsBack ==
    (pc = "return" /\ call.f \in TextFunctions) =>
        /\ call.f # "parseHex" => s[length] = Nul
        /\ call.f = "snprintUInt64" =>
              /\ pos = (IF call.room = 1 THEN -1 ELSE 0) /\ AreDigits(10, 0, length)
              /\ s[0] = 0 => call.l = 0
              /\ NumberAt(10, 0, length) = FirstDigits(call.l, length)
              /\ length = stringSize(call.l) \/ length = call.room - 1
        /\ call.f = "itoa" /\ (isNegative \/ call.l >= 0) =>
              LET first == IF isNegative THEN 1 ELSE 0
              IN  /\ isNegative => s[0] = Minus
                  /\ AreDigits(call.radix, first, length)
                  /\ NumberAt(call.radix, first, length) = IF isNegative THEN -call.l ELSE call.l
        /\ call.f = "base64encode" => length % 4 = 0 /\ Decoded(length) = call.data
        /\ call.f = "parseHex" =>
              /\ length = Len(call.str) \div 2
              /\ NumberAt(256, 0, length) = HexValue(SubSeq(call.str, 1, 2 * length))
        /\ call.f = "strjoin" /\ call.delimiter = <<>> =>
              [i \in 1 .. length |-> s[i - 1]] = JoinedItems(call.array, Len(call.array))

\* The items with the delimiter in front of all but the first.
Delimited(array, delimiter) ==
    [i \in 1 .. Len(array) |-> (IF i = 1 THEN <<>> ELSE delimiter) \o array[i]]

\* What the comments say of the other cases: to another base than 10 a negative
\* number is printed as the unsigned number of its bits, and a delimiter stands
\* between the items.
TextsAsCommented ==
    /\ Returned("itoa") /\ call.l < 0 /\ call.radix # 10 =>
          /\ AreDigits(call.radix, 0, length)
          /\ NumberAt(call.radix, 0, length) = call.l + Word
    /\ Returned("strjoin") /\ call.delimiter # <<>> =>
          [i \in 1 .. length |-> s[i - 1]] =
              JoinedItems(Delimited(call.array, call.delimiter), Len(call.array))
=============================================================================
