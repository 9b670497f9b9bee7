---------------------------- MODULE BmWireProofs ----------------------------
(***************************************************************************)
(* What is put into a message comes out of it at the other end, however    *)
(* the bytes are cut into pieces on their way.                             *)
(*                                                                         *)
(* A part of a sequence is found where it was put (Holds), which carries   *)
(* the theorems about the codecs from VarintProofs into the middle of a    *)
(* payload, a message and a buffer.  For each direction of the connection  *)
(* the bytes of all that was said are those of what was heard, followed by *)
(* the buffer and the wire (Flow): a message at the front of the buffer    *)
(* can only be the next one.  So it is never refused, and the two ends     *)
(* lead the conversation of BmConversation.                                *)
(***************************************************************************)
EXTENDS BmWire, VarintProofs

USE BaseAssumption

-----------------------------------------------------------------------------
(* Parts of sequences *)

\* t is found in s from i on.
Holds(s, i, t) ==
    /\ i \in Nat /\ i > 0 /\ i + Len(t) <= Len(s) + 1
    /\ \A k \in 1 .. Len(t) : s[i + k - 1] = t[k]

\* Two sequences are where they were put when they are joined.
LEMMA Joins ==
    ASSUME NEW S, NEW s \in Seq(S), NEW t \in Seq(S)
    PROVE  /\ s \o t \in Seq(S) /\ Len(s \o t) = Len(s) + Len(t)
           /\ Len(s) \in Nat /\ Len(t) \in Nat
           /\ Holds(s \o t, 1, s) /\ Holds(s \o t, Len(s) + 1, t)
<1> DEFINE w == s \o t
           m == Len(s)
           n == Len(t)
<1>1. /\ w \in Seq(S) /\ Len(w) = m + n /\ m \in Nat /\ n \in Nat
      /\ \A i \in 1 .. m : w[i] = s[i]
      /\ \A i \in m + 1 .. m + n : w[i] = t[i - m]
  <2>1. /\ w \in Seq(S) /\ Len(w) = m + n
        /\ \A i \in 1 .. m + n : w[i] = IF i <= m THEN s[i] ELSE t[i - m]
    BY ConcatProperties
  <2>2. m \in Nat /\ n \in Nat
    OBVIOUS
  <2> HIDE DEF w, m, n
  <2>3. ASSUME NEW i \in 1 .. m PROVE i \in 1 .. m + n /\ i <= m
    BY <2>2
  <2>4. ASSUME NEW i \in m + 1 .. m + n PROVE i \in 1 .. m + n /\ ~(i <= m)
    BY <2>2
  <2> QED BY <2>1, <2>2, <2>3, <2>4
<1> HIDE DEF w
<1>2. Holds(w, 1, s)
  <2> HIDE DEF m
  <2>1. \A k \in 1 .. m : 1 + k - 1 = k
    BY <1>1
  <2> QED BY <1>1, <2>1 DEF Holds, m
<1>3. Holds(w, m + 1, t)
  <2> HIDE DEF m, n
  <2>1. ASSUME NEW k \in 1 .. n PROVE w[(m + 1) + k - 1] = t[k]
    <3>1. (m + 1) + k - 1 = m + k /\ m + k \in m + 1 .. m + n /\ (m + k) - m = k
      BY <1>1
    <3> QED BY <1>1, <3>1
  <2> QED BY <1>1, <2>1 DEF Holds, n
<1> QED BY <1>1, <1>2, <1>3 DEF w

\* What is found in a part is found in the whole.
LEMMA Within ==
    ASSUME NEW S, NEW s \in Seq(S), NEW t \in Seq(S), NEW u \in Seq(S), NEW i, NEW j, Holds(s, i, t), Holds(t, j, u)
    PROVE  Holds(s, i + j - 1, u)
<1> DEFINE l == Len(s)
           m == Len(t)
           n == Len(u)
           h == i + j - 1
<1>1. l \in Nat /\ m \in Nat /\ n \in Nat
  OBVIOUS
<1> HIDE DEF l, m, n
<1>2. /\ i \in Nat /\ i > 0 /\ i + m <= l + 1 /\ (\A k \in 1 .. m : s[i + k - 1] = t[k])
      /\ j \in Nat /\ j > 0 /\ j + n <= m + 1 /\ (\A k \in 1 .. n : t[j + k - 1] = u[k])
  BY DEF Holds, l, m, n
<1>3. h \in Nat /\ h > 0 /\ h + n <= l + 1
  BY <1>1, <1>2
<1>4. ASSUME NEW k \in 1 .. n PROVE s[h + k - 1] = u[k]
  <2>1. j + k - 1 \in 1 .. m /\ i + (j + k - 1) - 1 = h + k - 1
    BY <1>1, <1>2
  <2> QED BY <1>2, <2>1
<1> QED BY <1>3, <1>4 DEF Holds, n, l

\* What comes behind does not move it.
LEMMA Prefixed ==
    ASSUME NEW S, NEW s \in Seq(S), NEW t \in Seq(S), NEW u \in Seq(S), NEW i, Holds(s, i, u)
    PROVE  Holds(s \o t, i, u)
<1>1. s \o t \in Seq(S) /\ Holds(s \o t, 1, s)
  BY Joins
<1>2. Holds(s \o t, 1 + i - 1, u)
  BY <1>1, Within
<1>3. 1 + i - 1 = i
  BY DEF Holds
<1> QED BY <1>2, <1>3

\* Taking out what is there.
LEMMA SliceIs ==
    ASSUME NEW S, NEW s \in Seq(S), NEW t \in Seq(S), NEW i, Holds(s, i, t)
    PROVE  Slice(s, i, Len(t)) = t
<1> DEFINE n == Len(t)
           h == i + n - 1
           y == SubSeq(s, i, h)
<1>1. n \in Nat /\ Len(s) \in Nat /\ i \in Nat /\ i > 0 /\ i + n <= Len(s) + 1
      /\ \A k \in 1 .. n : s[i + k - 1] = t[k]
  BY DEF Holds
<1>2. \A k \in 1 .. n : t[k] \in S
  OBVIOUS
<1> HIDE DEF n
<1>3. h \in Int /\ i \in Int /\ h - i + 1 = n
  BY <1>1
<1>4. \A k \in i .. h : s[k] \in S
  <2> SUFFICES ASSUME NEW k \in i .. h PROVE s[k] \in S
    OBVIOUS
  <2>1. k - i + 1 \in 1 .. n /\ i + (k - i + 1) - 1 = k
    BY <1>1
  <2> QED BY <1>1, <1>2, <2>1
<1> HIDE DEF h
<1>5. /\ y \in Seq(S) /\ Len(y) = (IF i <= h THEN h - i + 1 ELSE 0)
      /\ \A k \in 1 .. h - i + 1 : y[k] = s[i + k - 1]
  BY <1>3, <1>4, SubSeqProperties
<1>6. Len(y) = n
  <2>1. i <= h \/ n = 0
    BY <1>1, <1>3 DEF h
  <2>2. ~(i <= h) => n <= 0
    BY <1>1, <1>3
  <2> QED BY <1>1, <1>3, <1>5, <2>1, <2>2
<1>7. \A k \in 1 .. n : y[k] = t[k]
  BY <1>1, <1>3, <1>5
<1> HIDE DEF y
<1>8. y = t
  <2>1. Len(t) = n
    BY DEF n
  <2> QED BY <1>5, <1>6, <1>7, <2>1, SeqEqual
<1> QED BY <1>8 DEF y, h, n, Slice

-----------------------------------------------------------------------------
(* A message and its header *)

\* The four fields of a header and the payload.
Framed(f, c, l, h, p) == f \o c \o l \o h \o p

LEMMA FramedParts ==
    ASSUME NEW S, NEW f \in Seq(S), NEW c \in Seq(S), NEW l \in Seq(S), NEW h \in Seq(S), NEW p \in Seq(S),
           Len(f) = 4, Len(c) = 12, Len(l) = 4, Len(h) = 4
    PROVE  LET m == Framed(f, c, l, h, p)
           IN  /\ m \in Seq(S) /\ Len(m) = 24 + Len(p)
               /\ Holds(m, 5, c) /\ Holds(m, 17, l) /\ Holds(m, 21, h) /\ Holds(m, 25, p)
<1> DEFINE x == f \o c
           y == x \o l
           z == y \o h
           m == z \o p
<1>1. x \in Seq(S) /\ Len(x) = 16 /\ Holds(x, 5, c)
  <2>1. x \in Seq(S) /\ Len(x) = Len(f) + Len(c) /\ Holds(x, Len(f) + 1, c)
    BY Joins
  <2> HIDE DEF x
  <2> QED BY <2>1
<1> HIDE DEF x
<1>2. y \in Seq(S) /\ Len(y) = 20 /\ Holds(y, 5, c) /\ Holds(y, 17, l)
  <2>1. y \in Seq(S) /\ Len(y) = Len(x) + Len(l) /\ Holds(y, Len(x) + 1, l)
    BY <1>1, Joins
  <2>2. Holds(y, 5, c)
    BY <1>1, Prefixed
  <2> HIDE DEF y
  <2> QED BY <1>1, <2>1, <2>2
<1> HIDE DEF y
<1>3. z \in Seq(S) /\ Len(z) = 24 /\ Holds(z, 5, c) /\ Holds(z, 17, l) /\ Holds(z, 21, h)
  <2>1. z \in Seq(S) /\ Len(z) = Len(y) + Len(h) /\ Holds(z, Len(y) + 1, h)
    BY <1>2, Joins
  <2>2. Holds(z, 5, c) /\ Holds(z, 17, l)
    BY <1>2, Prefixed
  <2> HIDE DEF z
  <2> QED BY <1>2, <2>1, <2>2
<1> HIDE DEF z
<1>4. /\ m \in Seq(S) /\ Len(m) = 24 + Len(p)
      /\ Holds(m, 5, c) /\ Holds(m, 17, l) /\ Holds(m, 21, h) /\ Holds(m, 25, p)
  <2>1. m \in Seq(S) /\ Len(m) = Len(z) + Len(p) /\ Holds(m, Len(z) + 1, p)
    BY <1>3, Joins
  <2>2. Holds(m, 5, c) /\ Holds(m, 17, l) /\ Holds(m, 21, h)
    BY <1>3, Prefixed
  <2> HIDE DEF m
  <2> QED BY <1>3, <2>1, <2>2
<1> QED BY <1>4 DEF Framed, x, y, z

\* A byte has eight values at least.
LEMMA EightValues == B >= 8 /\ High \in Byte /\ 0 \in Byte /\ 1 \in Byte /\ 2 \in Byte /\ 3 \in Byte
<1>1. B >= 8
  BY OctalAssumption
<1> QED BY <1>1 DEF High, Byte

LEMMA FunctionBytes ==
    ASSUME NEW n \in Nat, NEW S, NEW f \in [1 .. n -> S]
    PROVE  f \in Seq(S) /\ Len(f) = n
<1>1. f \in Seq(S)
  OBVIOUS
<1> QED BY <1>1, FunctionLen, LengthOf

LEMMA ZerosAre ==
    ASSUME NEW n \in Nat
    PROVE  Zeros(n) \in Seq(Byte) /\ Len(Zeros(n)) = n /\ \A k \in 1 .. n : Zeros(n)[k] = 0
<1>1. Zeros(n) \in [1 .. n -> Byte] /\ \A k \in 1 .. n : Zeros(n)[k] = 0
  BY EightValues DEF Zeros
<1> QED BY <1>1, FunctionBytes

CommandNames == {"verack", "version", "addr", "inv", "ping", "getdata", "object", "pong"}

LEMMA CommandIs ==
    ASSUME NEW c \in CommandNames
    PROVE  CommandBytes(c) \in Seq(Byte) /\ Len(CommandBytes(c)) = 12 /\ CommandOf(CommandBytes(c)) = c
<1> DEFINE x == CHOOSE k \in Byte : Commands[k + 1] = c
           z == Zeros(11)
<1>1. \E k \in Byte : Commands[k + 1] = c
  <2>1. 0 \in Byte /\ 1 \in Byte /\ 2 \in Byte /\ 3 \in Byte /\ 4 \in Byte /\ 5 \in Byte /\ 6 \in Byte /\ 7 \in Byte
    BY EightValues DEF Byte
  <2> QED BY <2>1 DEF CommandNames, Commands
<1>2. x \in Byte /\ Commands[x + 1] = c
  BY <1>1
<1> HIDE DEF x
<1>3. z \in Seq(Byte) /\ Len(z) = 11
  BY ZerosAre
<1> HIDE DEF z
<1>4. <<x>> \in Seq(Byte) /\ Len(<<x>>) = 1 /\ <<x>>[1] = x
  BY <1>2
<1> DEFINE w == <<x>> \o z
<1>5. w \in Seq(Byte) /\ Len(w) = 12 /\ w[1] = x
  <2>1. w \in Seq(Byte) /\ Len(w) = Len(<<x>>) + Len(z) /\ Holds(w, 1, <<x>>)
    BY <1>3, <1>4, Joins
  <2> HIDE DEF w
  <2>2. w[1 + 1 - 1] = <<x>>[1]
    BY <1>4, <2>1 DEF Holds
  <2> QED BY <1>3, <1>4, <2>1, <2>2
<1>6. CommandBytes(c) = w
  BY DEF CommandBytes, x, z
<1> QED BY <1>2, <1>5, <1>6 DEF CommandOf

LEMMA ChecksumIs ==
    ASSUME NEW p \in Seq(Byte)
    PROVE  Checksum(p) \in Seq(Byte) /\ Len(Checksum(p)) = 4
<1>1. CASE p = <<>>
  BY <1>1, EightValues DEF Checksum
<1>2. CASE p # <<>>
  <2> DEFINE n == Len(p)
  <2>1. n \in Nat /\ n > 0
    BY <1>2
  <2>2. p[1] \in Byte /\ p[Len(p)] \in Byte
    BY <2>1
  <2> HIDE DEF n
  <2>3. n % B \in Byte /\ (n \div B) % B \in Byte
    <3>1. n \div B \in Nat /\ n % B \in 0 .. B - 1
      BY <2>1, DivisionLeaves
    <3> DEFINE q == n \div B
    <3> HIDE DEF q
    <3>2. q % B \in 0 .. B - 1
      BY <3>1, DivisionLeaves DEF q
    <3> QED BY <3>1, <3>2 DEF Byte, q
  <2> DEFINE x == n % B
             y == (n \div B) % B
             a == p[1]
             b == p[Len(p)]
  <2>4. Checksum(p) = <<x, y, a, b>>
    BY <1>2 DEF Checksum, n
  <2> HIDE DEF x, y, a, b
  <2>5. <<x, y, a, b>> \in Seq(Byte) /\ Len(<<x, y, a, b>>) = 4
    BY <2>2, <2>3 DEF x, y, a, b
  <2> QED BY <2>4, <2>5
<1> QED BY <1>1, <1>2

\* A command and a payload with their header.
Message(c, p) == Framed(magicbytes, CommandBytes(c), BigEndian(Len(p), 4), Checksum(p), p)

LEMMA MessageParts ==
    ASSUME NEW c \in CommandNames, NEW p \in Seq(Byte)
    PROVE  LET m == Message(c, p)
           IN  /\ m \in Seq(Byte) /\ Len(m) = 24 + Len(p) /\ Len(p) \in Nat
               /\ Holds(m, 5, CommandBytes(c)) /\ Holds(m, 17, BigEndian(Len(p), 4))
               /\ Holds(m, 21, Checksum(p)) /\ Holds(m, 25, p)
<1>1. magicbytes \in Seq(Byte) /\ Len(magicbytes) = 4
  BY EightValues DEF magicbytes
<1>2. Len(p) \in Nat
  OBVIOUS
<1>3. BigEndian(Len(p), 4) \in Seq(Byte) /\ Len(BigEndian(Len(p), 4)) = 4
  <2>1. BigEndian(Len(p), 4) \in [1 .. 4 -> Byte]
    BY <1>2, BigEndianBytes
  <2> QED BY <2>1, FunctionBytes
<1> DEFINE f == magicbytes
           b == CommandBytes(c)
           l == BigEndian(Len(p), 4)
           h == Checksum(p)
<1>4. b \in Seq(Byte) /\ Len(b) = 12 /\ h \in Seq(Byte) /\ Len(h) = 4
  BY CommandIs, ChecksumIs
<1>5. Message(c, p) = Framed(f, b, l, h, p)
  BY DEF Message
<1> HIDE DEF f, b, l, h
<1> QED BY <1>1, <1>2, <1>3, <1>4, <1>5, FramedParts DEF f, b, l, h

-----------------------------------------------------------------------------
(* What a reader finds at the front of its buffer *)

\* Once 24 bytes are there they say how many the message has.
LEMMA SizeFound ==
    ASSUME NEW c \in CommandNames, NEW p \in Seq(Byte), Len(p) < B^4,
           NEW data \in Seq(Byte), Len(data) >= 24,
           \A k \in 1 .. 24 : data[k] = Message(c, p)[k]
    PROVE  LengthField(data) = Len(p) /\ MessageSize(data) = 24 + Len(p)
<1> DEFINE n == Len(p)
           m == Message(c, p)
           l == BigEndian(n, 4)
<1>1. n \in Nat /\ n \in 0 .. B^4 - 1
  <2> DEFINE q == B^4
  <2>1. q \in Nat
    BY BytePowers, SMTT(30)
  <2>2. n \in Nat /\ n < q
    OBVIOUS
  <2> HIDE DEF n, q
  <2>3. n \in 0 .. q - 1
    BY <2>1, <2>2
  <2> QED BY <2>2, <2>3 DEF q
<1>2. Holds(m, 17, l) /\ Len(l) = 4
  <2>1. l \in [1 .. 4 -> Byte]
    BY <1>1, BigEndianBytes
  <2>2. Len(l) = 4
    BY <2>1, FunctionBytes
  <2> QED BY <2>2, MessageParts
<1> HIDE DEF n, m, l
<1>3. \A k \in 1 .. 4 : data[17 + k - 1] = l[k]
  <2> SUFFICES ASSUME NEW k \in 1 .. 4 PROVE data[17 + k - 1] = l[k]
    OBVIOUS
  <2>1. m[17 + k - 1] = l[k]
    BY <1>2 DEF Holds
  <2>2. 17 + k - 1 \in 1 .. 24
    OBVIOUS
  <2> QED BY <2>1, <2>2 DEF m
<1>4. Value(Slice(data, 17, 4)) = n
  <2>1. 4 \in 0 .. 8 /\ 17 \in Int
    OBVIOUS
  <2> QED BY <1>1, <1>3, <2>1, SliceReadsBack DEF l
<1> QED BY <1>4 DEF MessageSize, LengthField, n

\* A whole message is taken as what it was made of.
LEMMA MessageFound ==
    ASSUME NEW c \in CommandNames, NEW p \in Seq(Byte), Len(p) < B^4, 2 * Len(p) < B^4,
           NEW data \in Seq(Byte), Holds(data, 1, Message(c, p))
    PROVE  /\ HasMessage(data) /\ MessageSize(data) = 24 + Len(p)
           /\ parse_message(data) = {[command |-> c, payload |-> p]}
<1> DEFINE m == Message(c, p)
<1>1. /\ m \in Seq(Byte) /\ Len(m) = 24 + Len(p) /\ Len(p) \in Nat
      /\ Holds(m, 5, CommandBytes(c)) /\ Holds(m, 21, Checksum(p)) /\ Holds(m, 25, p)
  BY MessageParts
<1> HIDE DEF m
<1>2. Holds(data, 1, m)
  BY DEF m
<1>3. Len(data) >= 24 + Len(p) /\ \A k \in 1 .. 24 : data[k] = m[k]
  <2>1. 1 + Len(m) <= Len(data) + 1 /\ \A k \in 1 .. Len(m) : data[1 + k - 1] = m[k]
    BY <1>2 DEF Holds
  <2>2. Len(data) \in Nat
    OBVIOUS
  <2>3. ASSUME NEW k \in 1 .. 24 PROVE data[k] = m[k]
    <3>1. k \in 1 .. Len(m) /\ 1 + k - 1 = k
      BY <1>1
    <3> QED BY <2>1, <3>1
  <2>4. Len(data) >= 24 + Len(p)
    <3> DEFINE a == Len(data)
               b == Len(p)
    <3>1. 1 + (24 + b) <= a + 1 /\ a \in Nat /\ b \in Nat
      BY <1>1, <2>1, <2>2
    <3> HIDE DEF a, b
    <3>2. a >= 24 + b
      BY <3>1
    <3> QED BY <3>2 DEF a, b
  <2> QED BY <2>3, <2>4
<1>4. LengthField(data) = Len(p) /\ MessageSize(data) = 24 + Len(p)
  <2>1. Len(data) >= 24 /\ Len(data) \in Nat
    <3> DEFINE a == Len(data)
               b == Len(p)
    <3>1. a \in Nat /\ b \in Nat /\ a >= 24 + b
      BY <1>1, <1>3
    <3> HIDE DEF a, b
    <3>2. a >= 24
      BY <3>1
    <3> QED BY <3>1, <3>2 DEF a
  <2> QED BY <1>3, <2>1, SizeFound DEF m
<1>5. HasMessage(data) /\ LengthField(data) = Len(p)
  <2> DEFINE a == Len(data)
             b == Len(p)
  <2>1. a \in Nat /\ b \in Nat /\ a >= 24 + b
    BY <1>1, <1>3
  <2> HIDE DEF a, b
  <2>2. a >= 24
    BY <2>1
  <2>3. LengthField(data) = b /\ MessageSize(data) = 24 + b
    BY <1>4 DEF b
  <2>4. 2 * b < B^4
    BY DEF b
  <2>5. 2 * LengthField(data) < B^4
    BY <2>3, <2>4, Zenon
  <2>6. a >= MessageSize(data)
    BY <2>1, <2>3
  <2> QED BY <2>2, <2>3, <2>5, <2>6, Zenon DEF HasMessage, a, b
<1>6. ASSUME NEW t \in Seq(Byte), NEW i \in Nat, Holds(m, i, t) PROVE Slice(data, i, Len(t)) = t
  <2>1. Holds(data, 1 + i - 1, t)
    BY <1>1, <1>2, <1>6, Within
  <2>2. 1 + i - 1 = i
    OBVIOUS
  <2> QED BY <2>1, <2>2, SliceIs
<1>7. Slice(data, 5, 12) = CommandBytes(c) /\ Slice(data, 21, 4) = Checksum(p) /\ Slice(data, 25, Len(p)) = p
  <2>1. CommandBytes(c) \in Seq(Byte) /\ Len(CommandBytes(c)) = 12 /\ Checksum(p) \in Seq(Byte) /\ Len(Checksum(p)) = 4
    BY CommandIs, ChecksumIs
  <2>2. Slice(data, 5, Len(CommandBytes(c))) = CommandBytes(c) /\ Slice(data, 21, Len(Checksum(p))) = Checksum(p)
    BY <1>1, <1>6, <2>1
  <2>3. Slice(data, 25, Len(p)) = p
    BY <1>1, <1>6
  <2> QED BY <2>1, <2>2, <2>3
<1>8. parse_message(data) = {[command |-> CommandOf(CommandBytes(c)), payload |-> q] :
                                q \in {x \in {p} : Checksum(x) = Checksum(p)}}
  BY <1>5, <1>7, Zenon DEF parse_message
<1>9. {x \in {p} : Checksum(x) = Checksum(p)} = {p}
  OBVIOUS
<1>10. parse_message(data) = {[command |-> CommandOf(CommandBytes(c)), payload |-> p]}
  BY <1>8, <1>9, Zenon
<1> QED BY <1>4, <1>5, <1>10, CommandIs

-----------------------------------------------------------------------------
(* Entries one after the other *)

\* v[i] is a with the first i entries of g after it.
Chained(v, a, g, n) ==
    /\ v \in [0 .. n -> Seq(Byte)] /\ v[0] = a
    /\ g \in [1 .. n -> Seq(Byte)]
    /\ \A i \in 1 .. n : v[i] = v[i - 1] \o g[i]

IsChain(v, a, g, n) == v = [k \in 0 .. n |-> IF k = 0 THEN a ELSE v[k - 1] \o g[k]]

LEMMA ChainExists ==
    ASSUME NEW n \in Nat, NEW a \in Seq(Byte), NEW g \in [1 .. n -> Seq(Byte)]
    PROVE  \E v : IsChain(v, a, g, n) /\ Chained(v, a, g, n)
<1> DEFINE V == Seq(Byte)
           F == [i \in 1 .. n |-> [x \in V |-> x \o g[i]]]
<1>1. F \in [0 + 1 .. n -> [V -> V]]
  <2> SUFFICES ASSUME NEW i \in 1 .. n, NEW x \in V PROVE x \o g[i] \in V
    OBVIOUS
  <2>1. g[i] \in Seq(Byte)
    OBVIOUS
  <2> QED BY <2>1
<1>2. \A i \in 1 .. n : \A x \in V : F[i][x] = x \o g[i]
  OBVIOUS
<1> HIDE DEF F, V
<1>3. a \in V /\ 0 \in Int /\ n \in Int
  BY DEF V
<1>4. PICK v : Recurs(v, V, a, F, 0, n)
  BY <1>1, <1>3, RecursionDefines
<1>5. v \in [0 .. n -> V] /\ v = [i \in 0 .. n |-> IF i = 0 THEN a ELSE F[i][v[i - 1]]]
  BY <1>4 DEF Recurs
<1>6. \A i \in 0 .. n : v[i] = IF i = 0 THEN a ELSE F[i][v[i - 1]]
  BY <1>5
<1>7. \A i \in 1 .. n : v[i] = v[i - 1] \o g[i]
  <2> SUFFICES ASSUME NEW i \in 1 .. n PROVE v[i] = v[i - 1] \o g[i]
    OBVIOUS
  <2>1. i \in 0 .. n /\ i # 0 /\ i - 1 \in 0 .. n
    OBVIOUS
  <2>2. v[i - 1] \in V /\ v[i] = F[i][v[i - 1]]
    BY <1>5, <1>6, <2>1
  <2> QED BY <1>2, <2>2
<1>8. v[0] = a
  BY <1>6
<1>9. IsChain(v, a, g, n)
  <2>1. \A i \in 0 .. n : v[i] = IF i = 0 THEN a ELSE v[i - 1] \o g[i]
    <3> SUFFICES ASSUME NEW i \in 0 .. n PROVE v[i] = IF i = 0 THEN a ELSE v[i - 1] \o g[i]
      OBVIOUS
    <3>1. i = 0 \/ i \in 1 .. n
      OBVIOUS
    <3> QED BY <1>7, <1>8, <3>1
  <2> DEFINE w == [k \in 0 .. n |-> IF k = 0 THEN a ELSE v[k - 1] \o g[k]]
  <2>2. \A i \in 0 .. n : w[i] = v[i]
    BY <2>1
  <2>3. v = w
    BY <1>5, <2>2
  <2> QED BY <2>3 DEF IsChain
<1> QED BY <1>5, <1>7, <1>8, <1>9 DEF Chained, V

\* There is one such chain.
LEMMA ChainOnly ==
    ASSUME NEW n \in Nat, NEW v, NEW w, NEW a, NEW g, IsChain(v, a, g, n), IsChain(w, a, g, n)
    PROVE  v = w
<1> DEFINE T == {i \in 0 .. n : v[i] = w[i]}
<1>1. v = [k \in 0 .. n |-> IF k = 0 THEN a ELSE v[k - 1] \o g[k]]
  BY DEF IsChain
<1>2. w = [k \in 0 .. n |-> IF k = 0 THEN a ELSE w[k - 1] \o g[k]]
  BY DEF IsChain
<1>3. \A k \in 0 .. n : v[k] = IF k = 0 THEN a ELSE v[k - 1] \o g[k]
  BY <1>1
<1>4. \A k \in 0 .. n : w[k] = IF k = 0 THEN a ELSE w[k - 1] \o g[k]
  BY <1>2
<1>5. 0 \in T
  BY <1>3, <1>4
<1>6. \A i \in 0 .. n - 1 : i \in T => i + 1 \in T
  <2> SUFFICES ASSUME NEW i \in 0 .. n - 1, i \in T PROVE i + 1 \in T
    OBVIOUS
  <2>1. i + 1 \in 0 .. n /\ i + 1 # 0 /\ (i + 1) - 1 = i
    OBVIOUS
  <2> QED BY <1>3, <1>4, <2>1
<1> HIDE DEF T
<1>7. 0 .. n \subseteq T
  BY <1>5, <1>6, IntervalInduction
<1>8. \A i \in 0 .. n : v[i] = w[i]
  BY <1>7 DEF T
<1> QED BY <1>1, <1>2, <1>8

\* Each part of a chain is where it was put.
LEMMA ChainParts ==
    ASSUME NEW n \in Nat, NEW v, NEW a, NEW g, Chained(v, a, g, n), NEW i \in 0 .. n
    PROVE  /\ Len(v[i]) \in Nat
           /\ Holds(v[n], 1, v[i])
           /\ i > 0 => Len(v[i]) = Len(v[i - 1]) + Len(g[i]) /\ Holds(v[n], Len(v[i - 1]) + 1, g[i])
<1> DEFINE T == {k \in i .. n : Holds(v[k], 1, v[i])}
<1>1. /\ \A k \in 0 .. n : v[k] \in Seq(Byte)
      /\ \A k \in 1 .. n : g[k] \in Seq(Byte) /\ v[k] = v[k - 1] \o g[k]
  BY DEF Chained
<1>2. i \in T
  <2>1. v[i] \in Seq(Byte)
    BY <1>1
  <2>2. Holds(v[i], 1, v[i])
    <3>1. \A k \in 1 .. Len(v[i]) : 1 + k - 1 = k
      BY <2>1
    <3>2. Len(v[i]) \in Nat
      BY <2>1
    <3> QED BY <3>1, <3>2 DEF Holds
  <2> QED BY <2>2
<1>3. ASSUME NEW k \in i .. n - 1, k \in T PROVE k + 1 \in T
  <2>1. k \in 0 .. n /\ k + 1 \in 1 .. n /\ (k + 1) - 1 = k /\ k + 1 \in i .. n
    OBVIOUS
  <2>2. v[k] \in Seq(Byte) /\ g[k + 1] \in Seq(Byte) /\ v[k + 1] = v[k] \o g[k + 1] /\ v[i] \in Seq(Byte)
    BY <1>1, <2>1
  <2>3. Holds(v[k + 1], 1, v[i])
    BY <1>3, <2>2, Prefixed
  <2> QED BY <2>1, <2>3
<1> HIDE DEF T
<1>4. i .. n \subseteq T
  BY <1>2, <1>3, IntervalInduction
<1>5. n \in T
  BY <1>4
<1>6. Holds(v[n], 1, v[i])
  BY <1>5 DEF T
<1>7. ASSUME i > 0
      PROVE  Len(v[i]) = Len(v[i - 1]) + Len(g[i]) /\ Holds(v[n], Len(v[i - 1]) + 1, g[i])
  <2>1. i \in 1 .. n /\ i - 1 \in 0 .. n
    BY <1>7
  <2>2. /\ v[i - 1] \in Seq(Byte) /\ g[i] \in Seq(Byte) /\ v[i] = v[i - 1] \o g[i]
        /\ v[n] \in Seq(Byte) /\ v[i] \in Seq(Byte)
    <3>1. n \in 0 .. n
      OBVIOUS
    <3>2. v[n] \in Seq(Byte) /\ v[i] \in Seq(Byte)
      BY <1>1, <3>1
    <3> QED BY <1>1, <2>1, <3>2
  <2>3. /\ Len(v[i]) = Len(v[i - 1]) + Len(g[i]) /\ Len(v[i - 1]) \in Nat
        /\ Holds(v[i], Len(v[i - 1]) + 1, g[i])
    BY <2>2, Joins
  <2> DEFINE l == Len(v[i - 1])
  <2>4. Holds(v[n], 1 + (l + 1) - 1, g[i])
    <3>1. Holds(v[i], l + 1, g[i])
      BY <2>3
    <3> HIDE DEF l
    <3> QED BY <1>6, <2>2, <3>1, Within
  <2>5. 1 + (l + 1) - 1 = l + 1
    BY <2>3
  <2> QED BY <2>3, <2>4, <2>5
<1>8. Len(v[i]) \in Nat
  BY <1>1
<1> QED BY <1>6, <1>7, <1>8

AllLong(g, n, w) == \A i \in 1 .. n : Len(g[i]) = w

LEMMA ChainLen ==
    ASSUME NEW n \in Nat, NEW v, NEW a, NEW g, Chained(v, a, g, n), NEW w \in Nat, AllLong(g, n, w)
    PROVE  \A i \in 0 .. n : Len(v[i]) = Len(a) + w * i
<1> DEFINE T == {i \in 0 .. n : Len(v[i]) = Len(a) + w * i}
           l == Len(a)
<1>0. \A i \in 1 .. n : Len(v[i]) = Len(v[i - 1]) + Len(g[i])
  <2> HIDE DEF T, l
  <2> SUFFICES ASSUME NEW i \in 1 .. n PROVE Len(v[i]) = Len(v[i - 1]) + Len(g[i])
    OBVIOUS
  <2>1. v[i - 1] \in Seq(Byte) /\ g[i] \in Seq(Byte) /\ v[i] = v[i - 1] \o g[i]
    BY DEF Chained
  <2> QED BY <2>1, Joins
<1>1. v[0] = a /\ l \in Nat
  BY DEF Chained
<1>2. 0 \in T
  BY <1>1
<1>3. \A i \in 0 .. n - 1 : i \in T => i + 1 \in T
  <2> SUFFICES ASSUME NEW i \in 0 .. n - 1, i \in T PROVE i + 1 \in T
    OBVIOUS
  <2> DEFINE j == i + 1
  <2>1. j \in 0 .. n /\ j > 0 /\ j \in 1 .. n /\ j - 1 = i /\ i \in Nat
    OBVIOUS
  <2>2. Len(v[j]) = Len(v[i]) + w
    <3> HIDE DEF j
    <3>1. Len(v[j]) = Len(v[j - 1]) + Len(g[j])
      BY <1>0, <2>1
    <3> QED BY <2>1, <3>1 DEF AllLong
  <2>3. Len(v[i]) = l + w * i
    OBVIOUS
  <2> HIDE DEF l
  <2>4. (l + w * i) + w = l + w * j
    BY <1>1, <2>1
  <2> QED BY <2>1, <2>2, <2>3, <2>4 DEF l
<1> HIDE DEF T
<1>4. 0 .. n \subseteq T
  <2>1. 0 \in Int /\ n \in Int
    OBVIOUS
  <2> QED BY <1>2, <1>3, <2>1, IntervalInduction, Zenon
<1> QED BY <1>4 DEF T

\* Two functions with the same start and the same step are the same.
StepAlike(v, w, n) ==
    /\ v = [k \in 0 .. n |-> v[k]] /\ w = [k \in 0 .. n |-> w[k]] /\ v[0] = w[0]
    /\ \A k \in 1 .. n : v[k - 1] = w[k - 1] => v[k] = w[k]

LEMMA SameSteps ==
    ASSUME NEW n \in Nat, NEW v, NEW w, StepAlike(v, w, n)
    PROVE  v = w
<1> USE DEF StepAlike
<1> DEFINE T == {i \in 0 .. n : v[i] = w[i]}
<1>1. 0 \in T
  OBVIOUS
<1>2. \A i \in 0 .. n - 1 : i \in T => i + 1 \in T
  <2> SUFFICES ASSUME NEW i \in 0 .. n - 1, i \in T PROVE i + 1 \in T
    OBVIOUS
  <2> DEFINE j == i + 1
  <2>1. j \in 1 .. n /\ j - 1 = i /\ j \in 0 .. n
    OBVIOUS
  <2>2. v[j - 1] = w[j - 1] => v[j] = w[j]
    BY <2>1
  <2> QED BY <2>1, <2>2
<1> HIDE DEF T
<1>3. 0 .. n \subseteq T
  <2>1. 0 \in Int /\ n \in Int
    OBVIOUS
  <2> QED BY <1>1, <1>2, <2>1, IntervalInduction, Zenon
<1>4. \A i \in 0 .. n : v[i] = w[i]
  BY <1>3 DEF T
<1> QED BY <1>4

-----------------------------------------------------------------------------
(* Numbers in a payload *)

LEMMA FourInEight == B^4 \in Nat /\ B^8 \in Nat /\ B^4 <= B^8 /\ B^4 > 0 /\ B^2 \in Nat /\ B^2 > 0
<1>1. /\ B^2 \in Nat /\ B^4 \in Nat /\ B^5 \in Nat /\ B^6 \in Nat /\ B^7 \in Nat /\ B^8 \in Nat
      /\ B^4 > 0 /\ B^2 > 0
  BY BytePowers
<1>2. B^5 = B * B^4 /\ B^6 = B * B^5 /\ B^7 = B * B^6 /\ B^8 = B * B^7
  <2>1. \A n \in 0 .. 7 : B^(n + 1) = B * B^n
    BY DEF PowersTo
  <2>2. B^(4 + 1) = B * B^4 /\ B^(5 + 1) = B * B^5 /\ B^(6 + 1) = B * B^6 /\ B^(7 + 1) = B * B^7
    <3>1. 4 \in 0 .. 7 /\ 5 \in 0 .. 7 /\ 6 \in 0 .. 7 /\ 7 \in 0 .. 7
      OBVIOUS
    <3> QED BY <2>1, <3>1, Zenon
  <2> QED BY <2>2
<1>3. ASSUME NEW q \in Nat PROVE q <= B * q
  BY SMT
<1> DEFINE e == B^4
           f == B^5
           g == B^6
           h == B^7
           i == B^8
<1>4. e <= f /\ f <= g /\ g <= h /\ h <= i
  <2>1. e <= B * e /\ f <= B * f /\ g <= B * g /\ h <= B * h
    <3> HIDE DEF e, f, g, h
    <3>1. e \in Nat /\ f \in Nat /\ g \in Nat /\ h \in Nat
      BY <1>1 DEF e, f, g, h
    <3> QED BY <1>3, <3>1
  <2> QED BY <1>2, <2>1
<1> HIDE DEF e, f, g, h, i
<1>5. e \in Nat /\ f \in Nat /\ g \in Nat /\ h \in Nat /\ i \in Nat
  BY <1>1 DEF e, f, g, h, i
<1>6. e <= i
  BY <1>4, <1>5
<1> QED BY <1>1, <1>6 DEF e, i

LEMMA VarintBytes ==
    ASSUME NEW u \in Nat
    PROVE  /\ encodeVarint(u) \in Seq(Byte) /\ get_varint_size(u) \in Nat
           /\ Len(encodeVarint(u)) = get_varint_size(u)
<1>1. get_varint_size(u) \in Nat /\ Len(encodeVarint(u)) = get_varint_size(u)
  BY EncodedSize, SizeIsNat, LengthOf
<1>2. CASE u < Mark(1)
  <2>1. u \in Byte
    BY <1>2 DEF Byte, Mark
  <2> QED BY <1>1, <1>2, <2>1 DEF encodeVarint
<1>3. ASSUME NEW m \in 1 .. 3, NEW n \in 0 .. 8 PROVE <<Mark(m)>> \o BigEndian(u, n) \in Seq(Byte)
  <2>1. Mark(m) \in Byte
    BY DEF Mark, Byte
  <2> QED BY <2>1, MarkedBytes
<1>4. CASE ~(u < Mark(1))
  <2>1. encodeVarint(u) \in {<<Mark(1)>> \o BigEndian(u, 2), <<Mark(2)>> \o BigEndian(u, 4), <<Mark(3)>> \o BigEndian(u, 8)}
    BY <1>4 DEF encodeVarint
  <2>2. \A e \in {<<Mark(1)>> \o BigEndian(u, 2), <<Mark(2)>> \o BigEndian(u, 4), <<Mark(3)>> \o BigEndian(u, 8)} :
            e \in Seq(Byte)
    <3>1. 1 \in 1 .. 3 /\ 2 \in 1 .. 3 /\ 3 \in 1 .. 3 /\ 2 \in 0 .. 8 /\ 4 \in 0 .. 8 /\ 8 \in 0 .. 8
      OBVIOUS
    <3>2. <<Mark(1)>> \o BigEndian(u, 2) \in Seq(Byte)
      BY <1>3, <3>1, Zenon
    <3>3. <<Mark(2)>> \o BigEndian(u, 4) \in Seq(Byte)
      BY <1>3, <3>1, Zenon
    <3>4. <<Mark(3)>> \o BigEndian(u, 8) \in Seq(Byte)
      BY <1>3, <3>1, Zenon
    <3> QED BY <3>2, <3>3, <3>4, Zenon
  <2> QED BY <1>1, <2>1, <2>2, Zenon
<1> QED BY <1>2, <1>4

LEMMA VarintFound ==
    ASSUME NEW s, NEW u \in Number, NEW i, Holds(s, i, encodeVarint(u))
    PROVE  decodeVarint(s, i) = [value |-> u, size |-> get_varint_size(u)]
<1>1. u \in Nat
  BY BytePowers DEF Number
<1>2. Len(encodeVarint(u)) = get_varint_size(u)
  BY <1>1, VarintBytes
<1>3. i \in Int /\ \A k \in 1 .. get_varint_size(u) : s[i + k - 1] = encodeVarint(u)[k]
  BY <1>2 DEF Holds
<1> QED BY <1>3, VarintReadsBack

LEMMA NumberFound ==
    ASSUME NEW n \in 0 .. 8, NEW v \in 0 .. B^n - 1, NEW s, NEW i, Holds(s, i, BigEndian(v, n))
    PROVE  Value(Slice(s, i, n)) = v
<1>1. Len(BigEndian(v, n)) = n
  <2>1. n \in Nat
    OBVIOUS
  <2> QED BY <2>1, BigEndianLen, LengthOf
<1>2. i \in Int /\ \A k \in 1 .. n : s[i + k - 1] = BigEndian(v, n)[k]
  BY <1>1 DEF Holds
<1> QED BY <1>2, SliceReadsBack

LEMMA ValueBound ==
    ASSUME NEW n \in 0 .. 8, NEW s \in [1 .. n -> Byte]
    PROVE  Value(s) \in 0 .. B^n - 1
<1>1. Len(s) = n /\ n \in Nat
  BY FunctionBytes
<1>2. \A i \in 0 + 1 .. n : s[i] \in 0 .. B - 1
  BY DEF Byte
<1>3. PowersTo(B, n)
  <2>1. B^0 = 1 /\ \A k \in 0 .. 8 - 1 : B^(k + 1) = B * B^k
    BY DEF PowersTo
  <2>2. 0 .. n - 1 \subseteq 0 .. 8 - 1
    OBVIOUS
  <2>3. \A k \in 0 .. n - 1 : B^(k + 1) = B * B^k
    BY <2>1, <2>2, Zenon
  <2> QED BY <2>1, <2>3, Zenon DEF PowersTo
<1> DEFINE z == 0
<1>4. z \in Int /\ n \in Int /\ z <= n /\ (\A i \in z + 1 .. n : s[i] \in 0 .. B - 1) /\ n - z = n
  BY <1>1, <1>2
<1> HIDE DEF z
<1>5. PowersTo(B, n - z) /\ B \in Nat /\ B > 0
  BY <1>3, <1>4
<1>6. Numeral(s, B, z, n) \in 0 .. B^(n - z) - 1
  BY <1>4, <1>5, NumeralBound
<1> QED BY <1>1, <1>4, <1>6 DEF Value, z

LEMMA BigBytes ==
    ASSUME NEW n \in 0 .. 8, NEW v \in 0 .. B^n - 1
    PROVE  BigEndian(v, n) \in Seq(Byte) /\ Len(BigEndian(v, n)) = n /\ v \in Nat
<1>1. v \in Nat /\ n \in Nat
  BY BytePowers
<1> QED BY <1>1, BigEndianBytes, FunctionBytes

-----------------------------------------------------------------------------
(* How many bytes a version message takes *)

\* The zeros in front of an address are as many as are asked for.
LEMMA ZerosLen ==
    ASSUME NEW n \in Nat
    PROVE  OfLength(Zeros(n), n)
<1>1. Zeros(n) \in [1 .. n -> {0}]
  BY DEF Zeros
<1> QED BY <1>1, FunctionLen

\* Two bytes are two.
LEMMA TwoLen ==
    ASSUME NEW x
    PROVE  OfLength(<<x, x>>, 2)
<1>1. <<x, x>> \in Seq({x}) /\ Len(<<x, x>>) = 2
  OBVIOUS
<1> QED BY <1>1 DEF OfLength

\* An address has 26 bytes, of either family.
LEMMA AddressLen ==
    ASSUME NEW a \in Sockaddr
    PROVE  OfLength(encodeNetworkAddress(a), 26)
<1>1. CASE a.family = "AF_INET"
  <2>1. a.ip \in [1 .. 4 -> Byte] /\ a.port \in [1 .. 2 -> Byte]
    BY <1>1 DEF Sockaddr
  <2>2. OfLength(a.ip, 4) /\ OfLength(a.port, 2)
    BY <2>1, FunctionLen
  <2>3. OfLength(Zeros(14), 14) /\ OfLength(Zeros(4), 4) /\ OfLength(<<High, High>>, 2)
    BY ZerosLen, TwoLen
  <2>4. ASSUME NEW z, NEW h, NEW ip, NEW y, NEW p, OfLength(z, 14), OfLength(h, 2),
               OfLength(ip, 4), OfLength(y, 4), OfLength(p, 2)
        PROVE  OfLength(z \o h \o ip \o y \o p, 26)
    <3>1. OfLength(z \o h, 14 + 2)
      BY <2>4, ConcatLen
    <3>2. OfLength(z \o h \o ip, 16 + 4)
      BY <2>4, <3>1, ConcatLen
    <3>3. OfLength(z \o h \o ip \o y, 20 + 4)
      BY <2>4, <3>2, ConcatLen
    <3>4. OfLength(z \o h \o ip \o y \o p, 24 + 2)
      BY <2>4, <3>3, ConcatLen
    <3> QED BY <3>4
  <2> QED BY <1>1, <2>2, <2>3, <2>4 DEF encodeNetworkAddress
<1>2. CASE a.family # "AF_INET"
  <2>1. a.ip \in [1 .. 16 -> Byte] /\ a.port \in [1 .. 2 -> Byte]
    BY <1>2 DEF Sockaddr
  <2>2. OfLength(a.ip, 16) /\ OfLength(a.port, 2) /\ OfLength(Zeros(8), 8)
    BY <2>1, FunctionLen, ZerosLen
  <2>3. ASSUME NEW z, NEW ip, NEW p, OfLength(z, 8), OfLength(ip, 16), OfLength(p, 2)
        PROVE  OfLength(z \o ip \o p, 26)
    <3>1. OfLength(z \o ip, 8 + 16)
      BY <2>3, ConcatLen
    <3>2. OfLength(z \o ip \o p, 24 + 2)
      BY <2>3, <3>1, ConcatLen
    <3> QED BY <3>2
  <2> QED BY <1>2, <2>2, <2>3 DEF encodeNetworkAddress
<1> QED BY <1>1, <1>2

\* The eight parts of a version payload after each other.
LEMMA PartsLen ==
    ASSUME NEW version, NEW services, NEW timestamp, NEW to, NEW from, NEW nonce,
           NEW agent, NEW streams, NEW n \in Nat,
           OfLength(version, 4), OfLength(services, 8), OfLength(timestamp, 8),
           OfLength(to, 26), OfLength(from, 26), OfLength(nonce, 8),
           OfLength(agent, n), OfLength(streams, 2)
    PROVE  OfLength(version \o services \o timestamp \o to \o from \o nonce \o agent
                        \o streams, 82 + n)
<1> DEFINE a == version \o services
           b == a \o timestamp
           c == b \o to
           d == c \o from
           e == d \o nonce
           f == e \o agent
<1>1. OfLength(a, 4 + 8)
  BY ConcatLen
<1>2. OfLength(b, 12 + 8)
  <2> HIDE DEF a
  <2> QED BY <1>1, ConcatLen
<1>3. OfLength(c, 20 + 26)
  <2> HIDE DEF b
  <2> QED BY <1>2, ConcatLen
<1>4. OfLength(d, 46 + 26)
  <2> HIDE DEF c
  <2> QED BY <1>3, ConcatLen
<1>5. OfLength(e, 72 + 8)
  <2> HIDE DEF d
  <2> QED BY <1>4, ConcatLen
<1>6. OfLength(f, 80 + n)
  <2> HIDE DEF e
  <2> QED BY <1>5, ConcatLen
<1>7. OfLength(f \o streams, (80 + n) + 2) /\ (80 + n) + 2 = 82 + n
  <2> HIDE DEF f
  <2>1. 80 + n \in Nat
    OBVIOUS
  <2> QED BY <1>6, <2>1, ConcatLen
<1> QED BY <1>7

\* get_version_payload_size is the number of bytes that create_version_payload
\* writes into the block allocated by it: none is missing from the checksum and
\* none is written behind the block.
THEOREM VersionPayloadSize ==
    ASSUME NEW m, m.to \in Sockaddr, m.from \in Sockaddr, m.agent \in Seq(Byte)
    PROVE  Len(create_version_payload(m)) = get_version_payload_size(m.agent)
<1>1. /\ OfLength(BigEndian(m.version, 4), 4)
      /\ OfLength(BigEndian(0, 8), 8)
      /\ OfLength(BigEndian(m.timestamp, 8), 8)
      /\ OfLength(BigEndian(m.nonce, 8), 8)
  BY BigEndianLen
<1>2. OfLength(encodeNetworkAddress(m.to), 26) /\ OfLength(encodeNetworkAddress(m.from), 26)
  BY AddressLen
<1>3. /\ get_varstr_size(m.agent) \in Nat
      /\ OfLength(encodeVarStr(m.agent), get_varstr_size(m.agent))
  BY StringSize
<1>4. OfLength(<<1, 1>>, 2)
  BY TwoLen
<1>5. OfLength(create_version_payload(m), 82 + get_varstr_size(m.agent))
  BY <1>1, <1>2, <1>3, <1>4, PartsLen DEF create_version_payload
<1>6. 82 + get_varstr_size(m.agent) \in Nat
  BY <1>3
<1> QED BY <1>5, <1>6, LengthOf DEF get_version_payload_size

-----------------------------------------------------------------------------
(* Addresses *)

LEMMA AddressBytes ==
    ASSUME NEW a \in Sockaddr
    PROVE  LET s == encodeNetworkAddress(a)
           IN  /\ s \in Seq(Byte) /\ Len(s) = 26
               /\ Slice(s, 9, 16) \in [1 .. 16 -> Byte] /\ Holds(s, 9, Slice(s, 9, 16))
               /\ Slice(s, 25, 2) \in [1 .. 2 -> Byte]
               /\ a.family = "AF_INET6" => Slice(s, 9, 16) = a.ip /\ Slice(s, 25, 2) = a.port
<1> DEFINE s == encodeNetworkAddress(a)
<1>1. Len(s) = 26
  BY AddressLen, LengthOf
<1>2. s \in Seq(Byte)
  <2>1. Zeros(14) \in Seq(Byte) /\ Zeros(4) \in Seq(Byte) /\ Zeros(8) \in Seq(Byte)
    BY ZerosAre
  <2>2. <<High, High>> \in Seq(Byte)
    BY EightValues
  <2>3. a.ip \in Seq(Byte) /\ a.port \in Seq(Byte)
    <3>1. (a.ip \in [1 .. 4 -> Byte] \/ a.ip \in [1 .. 16 -> Byte]) /\ a.port \in [1 .. 2 -> Byte]
      BY DEF Sockaddr
    <3>2. 4 \in Nat /\ 16 \in Nat /\ 2 \in Nat
      OBVIOUS
    <3> QED BY <3>1, <3>2, FunctionBytes
  <2>4. ASSUME NEW z \in Seq(Byte), NEW h \in Seq(Byte), NEW ip \in Seq(Byte), NEW y \in Seq(Byte), NEW p \in Seq(Byte)
        PROVE  z \o h \o ip \o y \o p \in Seq(Byte) /\ z \o ip \o p \in Seq(Byte)
    <3>1. z \o h \in Seq(Byte) /\ z \o ip \in Seq(Byte)
      OBVIOUS
    <3>2. z \o h \o ip \in Seq(Byte) /\ z \o ip \o p \in Seq(Byte)
      BY <3>1
    <3>3. z \o h \o ip \o y \in Seq(Byte)
      BY <3>2
    <3> QED BY <3>2, <3>3
  <2> QED BY <2>1, <2>2, <2>3, <2>4 DEF encodeNetworkAddress
<1>3. a.family = "AF_INET6" => Holds(s, 9, a.ip) /\ Holds(s, 25, a.port) /\ Len(a.ip) = 16 /\ Len(a.port) = 2
                                /\ a.ip \in Seq(Byte) /\ a.port \in Seq(Byte)
  <2> SUFFICES ASSUME a.family = "AF_INET6"
               PROVE  Holds(s, 9, a.ip) /\ Holds(s, 25, a.port) /\ Len(a.ip) = 16 /\ Len(a.port) = 2
                       /\ a.ip \in Seq(Byte) /\ a.port \in Seq(Byte)
    OBVIOUS
  <2>1. a.ip \in [1 .. 16 -> Byte] /\ a.port \in [1 .. 2 -> Byte]
    BY DEF Sockaddr
  <2>2. a.ip \in Seq(Byte) /\ Len(a.ip) = 16 /\ a.port \in Seq(Byte) /\ Len(a.port) = 2
    <3>1. 16 \in Nat /\ 2 \in Nat
      OBVIOUS
    <3>2. a.ip \in Seq(Byte) /\ Len(a.ip) = 16
      <4> DEFINE n == 16
      <4>1. n \in Nat /\ a.ip \in [1 .. n -> Byte]
        BY <2>1, <3>1
      <4> HIDE DEF n
      <4>2. a.ip \in Seq(Byte) /\ Len(a.ip) = n
        BY <4>1, FunctionBytes
      <4> QED BY <4>2 DEF n
    <3>3. a.port \in Seq(Byte) /\ Len(a.port) = 2
      BY <2>1, <3>1, FunctionBytes
    <3> QED BY <3>2, <3>3
  <2> DEFINE z == Zeros(8)
             x == z \o a.ip
  <2>3. z \in Seq(Byte) /\ Len(z) = 8
    BY ZerosAre
  <2>4. s = x \o a.port
    BY DEF encodeNetworkAddress
  <2> HIDE DEF z
  <2>5. x \in Seq(Byte) /\ Len(x) = Len(z) + Len(a.ip) /\ Holds(x, Len(z) + 1, a.ip)
    BY <2>2, <2>3, Joins
  <2> HIDE DEF x, s
  <2>6. Len(x) = 24 /\ Holds(x, 9, a.ip)
    BY <2>2, <2>3, <2>5
  <2>7. Holds(s, Len(x) + 1, a.port)
    BY <2>2, <2>4, <2>5, Joins
  <2>8. Holds(s, 9, a.ip)
    BY <2>2, <2>4, <2>5, <2>6, Prefixed
  <2> QED BY <2>2, <2>6, <2>7, <2>8
<1> HIDE DEF s
<1>4. a.family = "AF_INET6" => Slice(s, 9, 16) = a.ip /\ Slice(s, 25, 2) = a.port
  <2> SUFFICES ASSUME a.family = "AF_INET6" PROVE Slice(s, 9, 16) = a.ip /\ Slice(s, 25, 2) = a.port
    OBVIOUS
  <2>1. Slice(s, 9, Len(a.ip)) = a.ip /\ Slice(s, 25, Len(a.port)) = a.port
    BY <1>2, <1>3, SliceIs
  <2> QED BY <1>3, <2>1
<1>5. ASSUME NEW i \in 1 .. 26, NEW n \in 0 .. 26 - i
      PROVE  Slice(s, i, n + 1) \in [1 .. n + 1 -> Byte] /\ Holds(s, i, Slice(s, i, n + 1))
  <2> DEFINE h == i + (n + 1) - 1
             y == SubSeq(s, i, h)
  <2>1. i \in Int /\ h \in Int /\ h - i + 1 = n + 1 /\ i <= h /\ n + 1 \in Nat /\ i + (n + 1) <= 27
    OBVIOUS
  <2>2. \A k \in i .. h : s[k] \in Byte
    <3> SUFFICES ASSUME NEW k \in i .. h PROVE s[k] \in Byte
      OBVIOUS
    <3>1. k \in 1 .. Len(s)
      BY <1>1, <2>1
    <3> QED BY <1>2, <3>1
  <2> HIDE DEF h
  <2>3. /\ y \in Seq(Byte) /\ Len(y) = (IF i <= h THEN h - i + 1 ELSE 0)
        /\ \A k \in 1 .. h - i + 1 : y[k] = s[i + k - 1]
    BY <2>1, <2>2, SubSeqProperties
  <2> HIDE DEF y
  <2>4. Len(y) = n + 1 /\ \A k \in 1 .. n + 1 : y[k] = s[i + k - 1]
    BY <2>1, <2>3
  <2>5. y \in [1 .. n + 1 -> Byte]
    BY <2>3, <2>4
  <2>6. Holds(s, i, y)
    BY <1>1, <2>1, <2>4 DEF Holds
  <2>7. y = Slice(s, i, n + 1)
    BY DEF y, h, Slice
  <2> QED BY <2>5, <2>6, <2>7
<1>6. Slice(s, 9, 16) \in [1 .. 16 -> Byte] /\ Holds(s, 9, Slice(s, 9, 16)) /\ Slice(s, 25, 2) \in [1 .. 2 -> Byte]
  <2>1. Slice(s, 9, 15 + 1) \in [1 .. 15 + 1 -> Byte] /\ Holds(s, 9, Slice(s, 9, 15 + 1))
    <3>1. 9 \in 1 .. 26 /\ 15 \in 0 .. 26 - 9
      OBVIOUS
    <3> QED BY <1>5, <3>1
  <2>2. Slice(s, 25, 1 + 1) \in [1 .. 1 + 1 -> Byte]
    <3>1. 25 \in 1 .. 26 /\ 1 \in 0 .. 26 - 25
      OBVIOUS
    <3> QED BY <1>5, <3>1
  <2> QED BY <2>1, <2>2
<1> QED BY <1>1, <1>2, <1>4, <1>6 DEF s

\* What printNetworkAddress shows of an encoded address.
LEMMA AddressShown ==
    ASSUME NEW a \in Sockaddr
    PROVE  /\ printNetworkAddress(encodeNetworkAddress(a)) \in ShownAddress
           /\ a.family = "AF_INET6" /\ ~IsIpv4Mapped(a.ip) =>
                 printNetworkAddress(encodeNetworkAddress(a)) = Shown(a)
<1> DEFINE s == encodeNetworkAddress(a)
           ip == Slice(s, 9, 16)
           port == Slice(s, 25, 2)
           mapped == IsIpv4Mapped(ip)
<1>1. /\ ip \in [1 .. 16 -> Byte] /\ port \in [1 .. 2 -> Byte]
      /\ a.family = "AF_INET6" => ip = a.ip /\ port = a.port
  BY AddressBytes
<1>2. printNetworkAddress(s) =
          [ipv4 |-> mapped, ip |-> IF mapped THEN SubSeq(ip, 13, 16) ELSE ip, port |-> Value(port)]
  BY DEF printNetworkAddress, port_of
<1> HIDE DEF s, ip, port
<1>3. mapped \in BOOLEAN
  BY DEF IsIpv4Mapped
<1>4. Value(port) \in 0 .. B^2 - 1
  BY <1>1, ValueBound, 2 \in 0 .. 8
<1>5. ip \in Seq(Byte) /\ SubSeq(ip, 13, 16) \in Seq(Byte)
  <2>1. ip \in Seq(Byte) /\ Len(ip) = 16
    BY <1>1, FunctionBytes
  <2>2. \A k \in 13 .. 16 : ip[k] \in Byte
    BY <1>1
  <2> QED BY <2>1, <2>2, SubSeqProperties
<1>6. printNetworkAddress(s) \in ShownAddress
  <2> HIDE DEF mapped
  <2> QED BY <1>2, <1>3, <1>4, <1>5 DEF ShownAddress
<1>7. ASSUME a.family = "AF_INET6", ~IsIpv4Mapped(a.ip) PROVE printNetworkAddress(s) = Shown(a)
  <2>1. ~mapped /\ ip = a.ip /\ port = a.port
    BY <1>1, <1>7
  <2>2. (a.family = "AF_INET") = FALSE /\ mapped = FALSE
    BY <1>3, <1>7, <2>1
  <2> HIDE DEF mapped
  <2> QED BY <1>2, <2>1, <2>2 DEF Shown
<1> QED BY <1>6, <1>7 DEF s

-----------------------------------------------------------------------------
(* The payload of a version message *)

Eight(a, b, c, d, e, f, g, h) == a \o b \o c \o d \o e \o f \o g \o h

LEMMA EightParts ==
    ASSUME NEW S, NEW a \in Seq(S), NEW b \in Seq(S), NEW c \in Seq(S), NEW d \in Seq(S), NEW e \in Seq(S),
           NEW f \in Seq(S), NEW g \in Seq(S), NEW h \in Seq(S),
           Len(a) = 4, Len(b) = 8, Len(c) = 8, Len(d) = 26, Len(e) = 26, Len(f) = 8
    PROVE  LET p == Eight(a, b, c, d, e, f, g, h)
           IN  /\ p \in Seq(S)
               /\ Holds(p, 1, a) /\ Holds(p, 13, c) /\ Holds(p, 21, d) /\ Holds(p, 47, e)
               /\ Holds(p, 73, f) /\ Holds(p, 81, g) /\ Holds(p, 81 + Len(g), h)
<1> DEFINE p2 == a \o b
           p3 == p2 \o c
           p4 == p3 \o d
           p5 == p4 \o e
           p6 == p5 \o f
           p7 == p6 \o g
           p8 == p7 \o h
<1>2. p2 \in Seq(S) /\ Len(p2) = 12 /\ Holds(p2, 1, a)
  <2>1. p2 \in Seq(S) /\ Len(p2) = Len(a) + Len(b) /\ Holds(p2, 1, a)
    BY Joins
  <2> HIDE DEF p2
  <2> QED BY <2>1
<1> HIDE DEF p2
<1>3. p3 \in Seq(S) /\ Len(p3) = 20 /\ Holds(p3, 1, a) /\ Holds(p3, 13, c)
  <2>1. p3 \in Seq(S) /\ Len(p3) = Len(p2) + Len(c) /\ Holds(p3, Len(p2) + 1, c)
    BY <1>2, Joins
  <2>2. Holds(p3, 1, a)
    BY <1>2, Prefixed
  <2> HIDE DEF p3
  <2> QED BY <1>2, <2>1, <2>2
<1> HIDE DEF p3
<1>4. p4 \in Seq(S) /\ Len(p4) = 46 /\ Holds(p4, 1, a) /\ Holds(p4, 13, c) /\ Holds(p4, 21, d)
  <2>1. p4 \in Seq(S) /\ Len(p4) = Len(p3) + Len(d) /\ Holds(p4, Len(p3) + 1, d)
    BY <1>3, Joins
  <2>2. Holds(p4, 1, a) /\ Holds(p4, 13, c)
    BY <1>3, Prefixed
  <2> HIDE DEF p4
  <2> QED BY <1>3, <2>1, <2>2
<1> HIDE DEF p4
<1>5. p5 \in Seq(S) /\ Len(p5) = 72 /\ Holds(p5, 1, a) /\ Holds(p5, 13, c) /\ Holds(p5, 21, d) /\ Holds(p5, 47, e)
  <2>1. p5 \in Seq(S) /\ Len(p5) = Len(p4) + Len(e) /\ Holds(p5, Len(p4) + 1, e)
    BY <1>4, Joins
  <2>2. Holds(p5, 1, a) /\ Holds(p5, 13, c) /\ Holds(p5, 21, d)
    BY <1>4, Prefixed
  <2> HIDE DEF p5
  <2> QED BY <1>4, <2>1, <2>2
<1> HIDE DEF p5
<1>6. /\ p6 \in Seq(S) /\ Len(p6) = 80 /\ Holds(p6, 1, a) /\ Holds(p6, 13, c) /\ Holds(p6, 21, d)
      /\ Holds(p6, 47, e) /\ Holds(p6, 73, f)
  <2>0. p5 \in Seq(S)
    BY <1>5
  <2>1. p6 \in Seq(S) /\ Len(p6) = Len(p5) + Len(f) /\ Holds(p6, Len(p5) + 1, f)
    BY <2>0, Joins
  <2>2. Holds(p6, 1, a) /\ Holds(p6, 13, c) /\ Holds(p6, 21, d) /\ Holds(p6, 47, e)
    BY <1>5, Prefixed
  <2> HIDE DEF p6
  <2> QED BY <1>5, <2>1, <2>2
<1> HIDE DEF p6
<1>7. /\ p7 \in Seq(S) /\ Len(p7) = 80 + Len(g) /\ Holds(p7, 1, a) /\ Holds(p7, 13, c) /\ Holds(p7, 21, d)
      /\ Holds(p7, 47, e) /\ Holds(p7, 73, f) /\ Holds(p7, 81, g)
  <2>0. p6 \in Seq(S)
    BY <1>6
  <2>1. p7 \in Seq(S) /\ Len(p7) = Len(p6) + Len(g) /\ Holds(p7, Len(p6) + 1, g)
    BY <2>0, Joins
  <2>2. Holds(p7, 1, a) /\ Holds(p7, 13, c) /\ Holds(p7, 21, d) /\ Holds(p7, 47, e) /\ Holds(p7, 73, f)
    BY <1>6, Prefixed
  <2> HIDE DEF p7
  <2> QED BY <1>6, <2>1, <2>2
<1> HIDE DEF p7
<1>8. /\ p8 \in Seq(S) /\ Holds(p8, 1, a) /\ Holds(p8, 13, c) /\ Holds(p8, 21, d)
      /\ Holds(p8, 47, e) /\ Holds(p8, 73, f) /\ Holds(p8, 81, g) /\ Holds(p8, 81 + Len(g), h)
  <2>1. p8 \in Seq(S) /\ Holds(p8, Len(p7) + 1, h)
    BY <1>7, Joins
  <2>2. /\ Holds(p8, 1, a) /\ Holds(p8, 13, c) /\ Holds(p8, 21, d) /\ Holds(p8, 47, e) /\ Holds(p8, 73, f)
        /\ Holds(p8, 81, g)
    BY <1>7, Prefixed
  <2>3. Len(p7) + 1 = 81 + Len(g)
    <3> DEFINE x == Len(g)
    <3>1. x \in Nat /\ Len(p7) = 80 + x
      BY <1>7
    <3> HIDE DEF x
    <3> QED BY <3>1 DEF x
  <2> HIDE DEF p8
  <2> QED BY <2>1, <2>2, <2>3
<1> QED BY <1>8 DEF Eight, p8, p7, p6, p5, p4, p3, p2

\* What of a version message is kept, where it is.
VersionFound(p, m, n) ==
    /\ p \in Seq(Byte) /\ n \in Nat
    /\ Holds(p, 1, BigEndian(m.version, 4)) /\ Holds(p, 13, BigEndian(m.timestamp, 8))
    /\ Holds(p, 21, encodeNetworkAddress(m.to)) /\ Holds(p, 47, encodeNetworkAddress(m.from))
    /\ Holds(p, 73, BigEndian(m.nonce, 8)) /\ Holds(p, 81, encodeVarint(Len(m.agent)))
    /\ Holds(p, 81 + n, m.agent) /\ Holds(p, 81 + n + Len(m.agent), <<1, 1>>)

LEMMA VersionParts ==
    ASSUME NEW m \in VersionMessage
    PROVE  VersionFound(create_version_payload(m), m, get_varint_size(Len(m.agent)))
<1> DEFINE len == Len(m.agent)
           n == get_varint_size(len)
           u == encodeVarint(len)
           g == u \o m.agent
           a == BigEndian(m.version, 4)
           b == BigEndian(0, 8)
           c == BigEndian(m.timestamp, 8)
           d == encodeNetworkAddress(m.to)
           e == encodeNetworkAddress(m.from)
           f == BigEndian(m.nonce, 8)
           h == <<1, 1>>
           p == Eight(a, b, c, d, e, f, g, h)
<1>1. /\ m.version \in 0 .. B^4 - 1 /\ m.timestamp \in Number /\ m.nonce \in Number
      /\ m.to \in Sockaddr /\ m.from \in Sockaddr /\ m.agent \in Seq(Byte)
  BY DEF VersionMessage
<1>2. create_version_payload(m) = p
  BY DEF create_version_payload, Eight, encodeVarStr
<1>3. u \in Seq(Byte) /\ Len(u) = n /\ n \in Nat /\ len \in Nat
  <2>1. len \in Nat
    BY <1>1
  <2> HIDE DEF len
  <2> QED BY <2>1, VarintBytes
<1>4. /\ g \in Seq(Byte) /\ Len(g) = n + len /\ Holds(g, 1, u) /\ Holds(g, n + 1, m.agent)
  <2> HIDE DEF u, n
  <2>1. g \in Seq(Byte) /\ Len(g) = Len(u) + Len(m.agent) /\ Holds(g, 1, u) /\ Holds(g, Len(u) + 1, m.agent)
    BY <1>1, <1>3, Joins
  <2> QED BY <1>3, <2>1
<1>5. a \in Seq(Byte) /\ Len(a) = 4 /\ c \in Seq(Byte) /\ Len(c) = 8 /\ f \in Seq(Byte) /\ Len(f) = 8
  <2>1. 4 \in 0 .. 8 /\ 8 \in 0 .. 8
    OBVIOUS
  <2> QED BY <1>1, <2>1, BigBytes DEF Number
<1>6. b \in Seq(Byte) /\ Len(b) = 8
  <2>1. 8 \in 0 .. 8 /\ 0 \in 0 .. B^8 - 1
    BY FourInEight
  <2> QED BY <2>1, BigBytes
<1>7. d \in Seq(Byte) /\ Len(d) = 26 /\ e \in Seq(Byte) /\ Len(e) = 26
  BY <1>1, AddressBytes
<1>8. h \in Seq(Byte) /\ Len(h) = 2
  BY EightValues
<1> HIDE DEF u, n, g, a, b, c, d, e, f, h, p, len
<1>9. /\ p \in Seq(Byte)
      /\ Holds(p, 1, a) /\ Holds(p, 13, c) /\ Holds(p, 21, d) /\ Holds(p, 47, e)
      /\ Holds(p, 73, f) /\ Holds(p, 81, g) /\ Holds(p, 81 + Len(g), h)
  BY <1>4, <1>5, <1>6, <1>7, <1>8, EightParts DEF p
<1>10. Holds(p, 81, u) /\ Holds(p, 81 + n, m.agent) /\ Holds(p, 81 + n + len, h)
  <2>1. Holds(p, 81 + 1 - 1, u)
    BY <1>3, <1>4, <1>9, Within
  <2>2. Holds(p, 81 + (n + 1) - 1, m.agent)
    BY <1>1, <1>4, <1>9, Within
  <2>3. 81 + 1 - 1 = 81 /\ 81 + (n + 1) - 1 = 81 + n /\ 81 + (n + len) = 81 + n + len
    BY <1>3
  <2> QED BY <1>4, <1>9, <2>1, <2>2, <2>3
<1>11. VersionFound(p, m, n)
  BY <1>3, <1>9, <1>10 DEF VersionFound, u, a, c, d, e, f, h, len
<1> QED BY <1>2, <1>11 DEF n, len

StreamsRead(p, count, first) ==
    CHOOSE r : r = [k \in 0 .. count |->
        IF k = 0 THEN [list |-> <<>>, next |-> first]
        ELSE [list |-> Append(r[k - 1].list, decodeVarint(p, r[k - 1].next).value),
              next |-> r[k - 1].next + decodeVarint(p, r[k - 1].next).size]]

LEMMA OneStream ==
    ASSUME NEW p, NEW first, decodeVarint(p, first).value = 1
    PROVE  StreamsRead(p, 1, first)[1].list = <<1>>
<1> DEFINE a == [list |-> <<>>, next |-> first]
           E(x) == [list |-> Append(x.list, decodeVarint(p, x.next).value),
                    next |-> x.next + decodeVarint(p, x.next).size]
           IsR(r) == r = [k \in 0 .. 1 |-> IF k = 0 THEN a ELSE E(r[k - 1])]
           w == [k \in 0 .. 1 |-> IF k = 0 THEN a ELSE E(a)]
           r == CHOOSE r : IsR(r)
<1>1. StreamsRead(p, 1, first) = r
  BY DEF StreamsRead
<1>2. E(a).list = <<1>>
  <2>1. a.list = <<>> /\ a.next = first
    OBVIOUS
  <2> HIDE DEF a
  <2>2. E(a).list = Append(<<>>, 1)
    BY <2>1
  <2> QED BY <2>2
<1> HIDE DEF E, a
<1>3. IsR(w)
  <2>1. \A k \in 0 .. 1 : (IF k = 0 THEN a ELSE E(a)) = (IF k = 0 THEN a ELSE E(w[k - 1]))
    <3> SUFFICES ASSUME NEW k \in 0 .. 1, k # 0 PROVE E(a) = E(w[k - 1])
      OBVIOUS
    <3>1. k - 1 = 0 /\ 0 \in 0 .. 1
      OBVIOUS
    <3>2. w[k - 1] = a
      BY <3>1
    <3> QED BY <3>2
  <2> DEFINE y == [k \in 0 .. 1 |-> IF k = 0 THEN a ELSE E(w[k - 1])]
  <2>2. w = y
    BY <2>1, Zenon
  <2> QED BY <2>2
<1> HIDE DEF IsR
<1>4. IsR(r)
  BY <1>3
<1> HIDE DEF r, w
<1>5. r[0] = a /\ r[1] = E(a)
  <2> USE <1>4 DEF IsR
  <2>1. r[0] = a
    BY 0 \in 0 .. 1
  <2>2. r[1] = E(r[0])
    BY 1 \in 0 .. 1
  <2> QED BY <2>1, <2>2
<1> QED BY <1>1, <1>2, <1>5

VersionRead(m) ==
    [version   |-> m.version,
     timestamp |-> m.timestamp,
     to        |-> printNetworkAddress(encodeNetworkAddress(m.to)),
     from      |-> printNetworkAddress(encodeNetworkAddress(m.from)),
     nonce     |-> m.nonce,
     agent     |-> m.agent,
     streams   |-> <<1>>]

LEMMA VersionReadsBack ==
    ASSUME NEW m \in VersionMessage, Len(m.agent) \in Number
    PROVE  parseVersionMessage(create_version_payload(m)) = VersionRead(m)
<1> DEFINE p == create_version_payload(m)
           len == Len(m.agent)
           n == get_varint_size(len)
<1>1. /\ m.version \in 0 .. B^4 - 1 /\ m.timestamp \in 0 .. B^8 - 1 /\ m.nonce \in 0 .. B^8 - 1
      /\ m.to \in Sockaddr /\ m.from \in Sockaddr /\ m.agent \in Seq(Byte)
  BY DEF VersionMessage, Number
<1>2. VersionFound(p, m, n)
  BY VersionParts
<1> HIDE DEF p
<1>3. Value(Slice(p, 1, 4)) = m.version /\ Value(Slice(p, 13, 8)) = m.timestamp /\ Value(Slice(p, 73, 8)) = m.nonce
  <2>1. 4 \in 0 .. 8 /\ 8 \in 0 .. 8
    OBVIOUS
  <2>2. /\ Holds(p, 1, BigEndian(m.version, 4)) /\ Holds(p, 13, BigEndian(m.timestamp, 8))
        /\ Holds(p, 73, BigEndian(m.nonce, 8))
    BY <1>2 DEF VersionFound
  <2> QED BY <1>1, <2>1, <2>2, NumberFound
<1>4. Slice(p, 21, 26) = encodeNetworkAddress(m.to) /\ Slice(p, 47, 26) = encodeNetworkAddress(m.from)
  <2> DEFINE d == encodeNetworkAddress(m.to)
             e == encodeNetworkAddress(m.from)
  <2>1. d \in Seq(Byte) /\ Len(d) = 26 /\ e \in Seq(Byte) /\ Len(e) = 26
    BY <1>1, AddressBytes
  <2>2. Holds(p, 21, d) /\ Holds(p, 47, e) /\ p \in Seq(Byte)
    BY <1>2 DEF VersionFound
  <2> HIDE DEF d, e
  <2>3. Slice(p, 21, Len(d)) = d /\ Slice(p, 47, Len(e)) = e
    BY <2>1, <2>2, SliceIs
  <2> QED BY <2>1, <2>3 DEF d, e
<1>5. decodeVarint(p, 81) = [value |-> len, size |-> n]
  <2>1. Holds(p, 81, encodeVarint(len))
    BY <1>2 DEF VersionFound
  <2> HIDE DEF len
  <2>2. len \in Number
    BY DEF len
  <2> QED BY <2>1, <2>2, VarintFound
<1>6. Slice(p, 81 + n, len) = m.agent
  <2>1. p \in Seq(Byte) /\ Holds(p, 81 + n, m.agent)
    BY <1>2 DEF VersionFound
  <2> QED BY <1>1, <2>1, SliceIs
<1> DEFINE at == 81 + n + len
<1>7. p[at] = 1 /\ p[at + 1] = 1 /\ at \in Nat
  <2>1. Holds(p, at, <<1, 1>>) /\ n \in Nat
    BY <1>2 DEF VersionFound
  <2> DEFINE y == <<1, 1>>
  <2>2. Len(y) = 2 /\ y[1] = 1 /\ y[2] = 1
    OBVIOUS
  <2> HIDE DEF at, y
  <2>3. at \in Nat /\ p[at + 1 - 1] = y[1] /\ p[at + 2 - 1] = y[2]
    BY <2>1, <2>2 DEF Holds, y
  <2>4. at + 1 - 1 = at /\ at + 2 - 1 = at + 1
    BY <2>3
  <2> QED BY <2>2, <2>3, <2>4
<1> HIDE DEF at, n, len
<1>8. decodeVarint(p, at) = [value |-> 1, size |-> 1] /\ decodeVarint(p, at + 1) = [value |-> 1, size |-> 1]
  <2>1. 1 < Mark(1)
    BY EightValues DEF Mark
  <2> QED BY <1>7, <2>1 DEF decodeVarint
<1>9. StreamsRead(p, 1, at + 1)[1].list = <<1>>
  BY <1>8, OneStream
<1>10. parseVersionMessage(p) =
          [version   |-> Value(Slice(p, 1, 4)),
           timestamp |-> Value(Slice(p, 13, 8)),
           to        |-> printNetworkAddress(Slice(p, 21, 26)),
           from      |-> printNetworkAddress(Slice(p, 47, 26)),
           nonce     |-> Value(Slice(p, 73, 8)),
           agent     |-> Slice(p, 81 + n, len),
           streams   |-> StreamsRead(p, 1, at + 1)[1].list]
  <2> DEFINE g == decodeVarint(p, 81)
             l == decodeVarint(p, 81 + g.size + g.value)
             q == 81 + g.size + g.value + l.size
  <2>1. parseVersionMessage(p) =
          [version   |-> Value(Slice(p, 1, 4)),
           timestamp |-> Value(Slice(p, 13, 8)),
           to        |-> printNetworkAddress(Slice(p, 21, 26)),
           from      |-> printNetworkAddress(Slice(p, 47, 26)),
           nonce     |-> Value(Slice(p, 73, 8)),
           agent     |-> Slice(p, 81 + g.size, g.value),
           streams   |-> StreamsRead(p, l.value, q)[l.value].list]
    BY DEF parseVersionMessage, StreamsRead
  <2>2. g.size = n /\ g.value = len
    BY <1>5
  <2> HIDE DEF g
  <2>3. l.value = 1 /\ l.size = 1
    BY <1>8, <2>2 DEF at
  <2> HIDE DEF l
  <2>4. q = at + 1
    BY <2>2, <2>3 DEF at
  <2> HIDE DEF q
  <2> QED BY <2>1, <2>2, <2>3, <2>4
<1>11. parseVersionMessage(p) = VersionRead(m)
  BY <1>3, <1>4, <1>6, <1>9, <1>10, Zenon DEF VersionRead
<1> QED BY <1>11 DEF p

-----------------------------------------------------------------------------
(* The payload of an inv message *)

LEMMA ItemsAre ==
    ASSUME NEW S, NEW w \in Nat, NEW items \in Seq([1 .. w -> S])
    PROVE  /\ Len(items) \in Nat /\ items \in [1 .. Len(items) -> Seq(S)]
           /\ \A k \in 1 .. Len(items) : items[k] \in Seq(S) /\ Len(items[k]) = w
<1>1. ASSUME NEW k \in 1 .. Len(items) PROVE items[k] \in Seq(S) /\ Len(items[k]) = w
  <2>1. items[k] \in [1 .. w -> S]
    OBVIOUS
  <2> QED BY <2>1, FunctionBytes
<1>2. items \in [1 .. Len(items) -> [1 .. w -> S]] /\ Len(items) \in Nat
  OBVIOUS
<1> QED BY <1>1, <1>2

LEMMA InvPayloadIs ==
    ASSUME NEW items \in Seq([1 .. 32 -> Byte])
    PROVE  \E v : /\ Chained(v, encodeVarint(Len(items)), items, Len(items))
                  /\ v[Len(items)] = InvPayload(items)
<1> DEFINE n == Len(items)
           a == encodeVarint(n)
           w == CHOOSE w : IsChain(w, a, items, n)
<1>1. n \in Nat /\ items \in [1 .. n -> Seq(Byte)]
  <2>1. 32 \in Nat
    OBVIOUS
  <2> QED BY <2>1, ItemsAre
<1>2. a \in Seq(Byte)
  BY <1>1, VarintBytes
<1>3. InvPayload(items) = w[n]
  BY DEF InvPayload, IsChain
<1> HIDE DEF n, a
<1>4. PICK v : IsChain(v, a, items, n) /\ Chained(v, a, items, n)
  BY <1>1, <1>2, ChainExists
<1>5. w = v
  <2>1. IsChain(w, a, items, n)
    BY <1>4
  <2> HIDE DEF w
  <2> QED BY <1>1, <1>4, <2>1, ChainOnly
<1> QED BY <1>3, <1>4, <1>5 DEF n, a

\* In a chain of entries of the same width, where they are.
LEMMA Entries ==
    ASSUME NEW n \in Nat, NEW v, NEW a \in Seq(Byte), NEW g, Chained(v, a, g, n), NEW w \in Nat,
           \A k \in 1 .. n : Len(g[k]) = w
    PROVE  /\ v[n] \in Seq(Byte) /\ Len(v[n]) = Len(a) + w * n /\ Holds(v[n], 1, a)
           /\ \A k \in 1 .. n : Holds(v[n], Len(a) + w * (k - 1) + 1, g[k]) /\ g[k] \in Seq(Byte)
<1>1. \A i \in 0 .. n : Len(v[i]) = Len(a) + w * i
  <2>1. AllLong(g, n, w)
    BY DEF AllLong
  <2> QED BY <2>1, ChainLen
<1>2. n \in 0 .. n /\ 0 \in 0 .. n
  OBVIOUS
<1>3. v[n] \in Seq(Byte) /\ v[0] = a
  BY <1>2 DEF Chained
<1>4. Holds(v[n], 1, a)
  <2>1. Holds(v[n], 1, v[0])
    BY <1>2, ChainParts
  <2> QED BY <1>3, <2>1
<1>5. ASSUME NEW k \in 1 .. n
      PROVE  Holds(v[n], Len(a) + w * (k - 1) + 1, g[k]) /\ g[k] \in Seq(Byte)
  <2> DEFINE i == k
  <2>1. k \in 0 .. n /\ k > 0 /\ k - 1 \in 0 .. n
    OBVIOUS
  <2>2. Holds(v[n], Len(v[k - 1]) + 1, g[k])
    BY <2>1, ChainParts
  <2>3. g[k] \in Seq(Byte)
    BY DEF Chained
  <2>4. Len(v[k - 1]) = Len(a) + w * (k - 1)
    BY <1>1, <2>1
  <2> QED BY <2>2, <2>3, <2>4
<1> QED BY <1>1, <1>2, <1>3, <1>4, <1>5

LEMMA InvReadsBack ==
    ASSUME NEW items \in Seq([1 .. 32 -> Byte])
    PROVE  LET p == InvPayload(items)
           IN  /\ p \in Seq(Byte) /\ Len(p) = get_varint_size(Len(items)) + 32 * Len(items)
               /\ Len(items) \in Number => parseInventoryMessage(p) = items
<1> DEFINE p == InvPayload(items)
           n == Len(items)
           a == encodeVarint(n)
           z == get_varint_size(n)
<1>1. n \in Nat /\ \A k \in 1 .. n : items[k] \in Seq(Byte) /\ Len(items[k]) = 32
  <2> DEFINE w == 32
  <2>1. w \in Nat /\ items \in Seq([1 .. w -> Byte])
    OBVIOUS
  <2> HIDE DEF w, p, a, z
  <2>2. /\ Len(items) \in Nat
        /\ \A k \in 1 .. Len(items) : items[k] \in Seq(Byte) /\ Len(items[k]) = w
    BY <2>1, ItemsAre
  <2> QED BY <2>2 DEF w
<1>2. a \in Seq(Byte) /\ Len(a) = z /\ z \in Nat
  BY <1>1, VarintBytes
<1>3. PICK v : Chained(v, a, items, n) /\ v[n] = p
  BY InvPayloadIs
<1> HIDE DEF p, a, z, n
<1>4. /\ p \in Seq(Byte) /\ Len(p) = Len(a) + 32 * n /\ Holds(p, 1, a)
      /\ \A k \in 1 .. n : Holds(p, Len(a) + 32 * (k - 1) + 1, items[k])
  <2> DEFINE w == 32
  <2>1. w \in Nat /\ \A k \in 1 .. n : Len(items[k]) = w
    BY <1>1
  <2> HIDE DEF w
  <2>2. /\ v[n] \in Seq(Byte) /\ Len(v[n]) = Len(a) + w * n /\ Holds(v[n], 1, a)
        /\ \A k \in 1 .. n : Holds(v[n], Len(a) + w * (k - 1) + 1, items[k]) /\ items[k] \in Seq(Byte)
    BY <1>1, <1>2, <1>3, <2>1, Entries
  <2> QED BY <1>3, <2>2 DEF w
<1>5. ASSUME n \in Number PROVE parseInventoryMessage(p) = items
  <2>1. decodeVarint(p, 1) = [value |-> n, size |-> z]
    BY <1>4, <1>5, VarintFound DEF a, z
  <2>2. inventory_count(p, decodeVarint(p, 1)) = n
    <3> DEFINE x == 32 * n
    <3>1. x \div 32 = n /\ x \in Nat
      BY <1>1
    <3> HIDE DEF x
    <3>2. Len(p) - z = x
      <4>1. Len(p) = z + x
        BY <1>2, <1>4 DEF x
      <4> QED BY <1>2, <3>1, <4>1
    <3> QED BY <2>1, <3>1, <3>2 DEF inventory_count
  <2>3. parseInventoryMessage(p) = [k \in 1 .. n |-> Slice(p, z + 32 * (k - 1) + 1, 32)]
    BY <2>1, <2>2 DEF parseInventoryMessage
  <2>4. ASSUME NEW k \in 1 .. n PROVE Slice(p, z + 32 * (k - 1) + 1, 32) = items[k]
    <3>1. Slice(p, Len(a) + 32 * (k - 1) + 1, Len(items[k])) = items[k]
      BY <1>1, <1>4, SliceIs
    <3> QED BY <1>1, <1>2, <3>1
  <2>5. items = [k \in 1 .. n |-> items[k]]
    BY DEF n
  <2> QED BY <2>3, <2>4, <2>5
<1> QED BY <1>2, <1>4, <1>5 DEF p, n, z

-----------------------------------------------------------------------------
(* The payload of an addr message *)

Entry(e) == encodeTimeAndStreamInNetworkAddress(e.time, e.stream) \o encodeNetworkAddress(e.addr)

EntryBytes(addresses) == [k \in 1 .. Len(addresses) |-> Entry(addresses[k])]

LEMMA EntryParts ==
    ASSUME NEW e \in AddrEntry
    PROVE  /\ encodeTimeAndStreamInNetworkAddress(e.time, e.stream) \in Seq(Byte)
           /\ encodeNetworkAddress(e.addr) \in Seq(Byte)
           /\ Entry(e) \in Seq(Byte) /\ Len(Entry(e)) = 38
           /\ Holds(Entry(e), 1, BigEndian(e.time, 8)) /\ Holds(Entry(e), 9, BigEndian(e.stream, 4))
           /\ Holds(Entry(e), 13, encodeNetworkAddress(e.addr))
<1> DEFINE t == BigEndian(e.time, 8)
           s == BigEndian(e.stream, 4)
           x == t \o s
           a == encodeNetworkAddress(e.addr)
           y == x \o a
<1>1. /\ e.time \in 0 .. B^8 - 1 /\ e.stream \in 0 .. B^4 - 1 /\ e.addr \in Sockaddr
  BY DEF AddrEntry, Number
<1>2. t \in Seq(Byte) /\ Len(t) = 8 /\ s \in Seq(Byte) /\ Len(s) = 4
  <2>1. 4 \in 0 .. 8 /\ 8 \in 0 .. 8
    OBVIOUS
  <2> QED BY <1>1, <2>1, BigBytes
<1>3. a \in Seq(Byte) /\ Len(a) = 26
  BY <1>1, AddressBytes
<1>4. Entry(e) = y /\ encodeTimeAndStreamInNetworkAddress(e.time, e.stream) = x
  BY DEF Entry, encodeTimeAndStreamInNetworkAddress
<1> HIDE DEF t, s, a
<1>5. x \in Seq(Byte) /\ Len(x) = 12 /\ Holds(x, 1, t) /\ Holds(x, 9, s)
  <2>1. x \in Seq(Byte) /\ Len(x) = Len(t) + Len(s) /\ Holds(x, 1, t) /\ Holds(x, Len(t) + 1, s)
    BY <1>2, Joins
  <2> HIDE DEF x
  <2> QED BY <1>2, <2>1
<1> HIDE DEF x
<1>6. y \in Seq(Byte) /\ Len(y) = 38 /\ Holds(y, 1, t) /\ Holds(y, 9, s) /\ Holds(y, 13, a)
  <2>1. y \in Seq(Byte) /\ Len(y) = Len(x) + Len(a) /\ Holds(y, Len(x) + 1, a)
    BY <1>3, <1>5, Joins
  <2>2. Holds(y, 1, t) /\ Holds(y, 9, s)
    BY <1>2, <1>3, <1>5, Prefixed
  <2> HIDE DEF y
  <2> QED BY <1>3, <1>5, <2>1, <2>2
<1> QED BY <1>3, <1>4, <1>5, <1>6 DEF t, s, a

LEMMA AddrPayloadIs ==
    ASSUME NEW addresses \in Seq(AddrEntry)
    PROVE  \E v : /\ Chained(v, encodeVarint(Len(addresses)), EntryBytes(addresses), Len(addresses))
                  /\ v[Len(addresses)] = AddrPayload(addresses)
<1> DEFINE n == Len(addresses)
           a == encodeVarint(n)
           g == EntryBytes(addresses)
           T(k) == encodeTimeAndStreamInNetworkAddress(addresses[k].time, addresses[k].stream)
           A(k) == encodeNetworkAddress(addresses[k].addr)
           IsIt(w) == w = [k \in 0 .. n |-> IF k = 0 THEN a ELSE w[k - 1] \o T(k) \o A(k)]
           w == CHOOSE w : IsIt(w)
<1>1. n \in Nat /\ \A k \in 1 .. n : addresses[k] \in AddrEntry
  OBVIOUS
<1>2. \A k \in 1 .. n : g[k] = T(k) \o A(k) /\ T(k) \in Seq(Byte) /\ A(k) \in Seq(Byte) /\ g[k] \in Seq(Byte)
  <2> SUFFICES ASSUME NEW k \in 1 .. n
               PROVE  g[k] = T(k) \o A(k) /\ T(k) \in Seq(Byte) /\ A(k) \in Seq(Byte) /\ g[k] \in Seq(Byte)
    OBVIOUS
  <2>1. g[k] = Entry(addresses[k])
    BY DEF EntryBytes
  <2> QED BY <1>1, <2>1, EntryParts DEF Entry
<1>3. a \in Seq(Byte)
  BY <1>1, VarintBytes
<1>4. g = [k \in 1 .. n |-> g[k]]
  BY DEF EntryBytes
<1>5. AddrPayload(addresses) = w[n]
  BY DEF AddrPayload
<1> HIDE DEF n, a, g, T, A
<1>6. g \in [1 .. n -> Seq(Byte)]
  BY <1>2, <1>4
<1>7. PICK v : IsChain(v, a, g, n) /\ Chained(v, a, g, n)
  BY <1>1, <1>3, <1>6, ChainExists
<1>8. v \in [0 .. n -> Seq(Byte)] /\ v[0] = a /\ \A k \in 1 .. n : v[k] = v[k - 1] \o g[k]
  BY <1>7 DEF Chained
<1>9. \A k \in 1 .. n : v[k] = v[k - 1] \o T(k) \o A(k)
  <2> SUFFICES ASSUME NEW k \in 1 .. n PROVE v[k] = v[k - 1] \o T(k) \o A(k)
    OBVIOUS
  <2>1. k - 1 \in 0 .. n
    BY <1>1
  <2>2. v[k - 1] \in Seq(Byte) /\ T(k) \in Seq(Byte) /\ A(k) \in Seq(Byte)
    BY <1>2, <1>8, <2>1
  <2>3. v[k] = v[k - 1] \o (T(k) \o A(k))
    BY <1>2, <1>8
  <2> DEFINE x == v[k - 1]
             y == T(k)
             z == A(k)
  <2> HIDE DEF x, y, z
  <2>4. (x \o y) \o z = x \o (y \o z)
    <3>1. x \in Seq(Byte) /\ y \in Seq(Byte) /\ z \in Seq(Byte)
      BY <2>2 DEF x, y, z
    <3> QED BY <3>1, ConcatAssociative
  <2> QED BY <2>3, <2>4 DEF x, y, z
<1>10. IsIt(v)
  <2> DEFINE y == [k \in 0 .. n |-> IF k = 0 THEN a ELSE v[k - 1] \o T(k) \o A(k)]
  <2>1. \A k \in 0 .. n : y[k] = v[k]
    <3> SUFFICES ASSUME NEW k \in 0 .. n PROVE y[k] = v[k]
      OBVIOUS
    <3>1. k = 0 \/ k \in 1 .. n
      OBVIOUS
    <3>2. CASE k = 0
      BY <1>8, <3>2
    <3>3. CASE k \in 1 .. n
      <4>1. k # 0
        BY <3>3
      <4>2. y[k] = v[k - 1] \o T(k) \o A(k)
        BY <4>1
      <4> QED BY <1>9, <3>3, <4>2
    <3> QED BY <3>1, <3>2, <3>3
  <2>2. v = y
    <3>1. y = [k \in 0 .. n |-> y[k]] /\ v = [k \in 0 .. n |-> v[k]]
      BY <1>8
    <3> HIDE DEF y
    <3> QED BY <2>1, <3>1
  <2> QED BY <2>2
<1>11. IsIt(w)
  BY <1>10
<1> HIDE DEF w
<1>12. w = v
  <2>1. w = [k \in 0 .. n |-> w[k]] /\ v = [k \in 0 .. n |-> v[k]]
    <3>1. w = [k \in 0 .. n |-> IF k = 0 THEN a ELSE w[k - 1] \o T(k) \o A(k)]
      BY <1>11
    <3> QED BY <1>8, <3>1
  <2>2. w[0] = a
    BY <1>1, <1>11
  <2>3. \A k \in 1 .. n : w[k] = w[k - 1] \o T(k) \o A(k)
    <3> SUFFICES ASSUME NEW k \in 1 .. n PROVE w[k] = w[k - 1] \o T(k) \o A(k)
      OBVIOUS
    <3>1. k \in 0 .. n /\ k # 0
      OBVIOUS
    <3> QED BY <1>11, <3>1
  <2>4. \A k \in 1 .. n : w[k - 1] = v[k - 1] => w[k] = v[k]
    BY <1>9, <2>3
  <2>5. StepAlike(v, w, n)
    BY <1>8, <2>1, <2>2, <2>4 DEF StepAlike
  <2>6. v = w
    BY <1>1, <2>5, SameSteps
  <2> QED BY <2>6
<1> QED BY <1>5, <1>7, <1>12 DEF n, a, g

\* What parse_message makes of an entry.
EntryRead(e) ==
    [time    |-> e.time,
     stream  |-> e.stream,
     address |-> printNetworkAddress(encodeNetworkAddress(e.addr)),
     valid   |-> is_valid_bm_addr(Slice(encodeNetworkAddress(e.addr), 9, 16))]

LEMMA EntryFound ==
    ASSUME NEW e \in AddrEntry, NEW p \in Seq(Byte), NEW at, Holds(p, at, Entry(e))
    PROVE  [time    |-> Value(Slice(p, at, 8)),
            stream  |-> Value(Slice(p, at + 8, 4)),
            address |-> printNetworkAddress(Slice(p, at + 12, 26)),
            valid   |-> is_valid_bm_addr(Slice(p, at + 20, 16))] = EntryRead(e)
<1> DEFINE t == BigEndian(e.time, 8)
           s == BigEndian(e.stream, 4)
           a == encodeNetworkAddress(e.addr)
           y == Entry(e)
           ip == Slice(a, 9, 16)
<1>1. /\ e.time \in 0 .. B^8 - 1 /\ e.stream \in 0 .. B^4 - 1 /\ e.addr \in Sockaddr
  BY DEF AddrEntry, Number
<1>2. t \in Seq(Byte) /\ s \in Seq(Byte) /\ 4 \in 0 .. 8 /\ 8 \in 0 .. 8
  <2>1. 4 \in 0 .. 8 /\ 8 \in 0 .. 8
    OBVIOUS
  <2> QED BY <1>1, <2>1, BigBytes
<1>3. a \in Seq(Byte) /\ Len(a) = 26 /\ Holds(a, 9, ip) /\ ip \in [1 .. 16 -> Byte]
  BY <1>1, AddressBytes
<1>4. ip \in Seq(Byte) /\ Len(ip) = 16
  <2> HIDE DEF ip
  <2>1. 16 \in Nat
    OBVIOUS
  <2> QED BY <1>3, <2>1, FunctionBytes
<1>5. y \in Seq(Byte) /\ Holds(y, 1, t) /\ Holds(y, 9, s) /\ Holds(y, 13, a)
  BY EntryParts
<1>6. at \in Nat
  BY DEF Holds
<1>7. /\ Holds(p, at + 1 - 1, t) /\ Holds(p, at + 9 - 1, s) /\ Holds(p, at + 13 - 1, a)
  <2>1. Holds(p, at, y)
    OBVIOUS
  <2> HIDE DEF t, s, a, y
  <2> QED BY <1>2, <1>3, <1>5, <2>1, Within
<1>8. Holds(p, at, t) /\ Holds(p, at + 8, s) /\ Holds(p, at + 12, a)
  <2>1. at + 1 - 1 = at /\ at + 9 - 1 = at + 8 /\ at + 13 - 1 = at + 12
    BY <1>6
  <2> QED BY <1>7, <2>1
<1>9. Holds(p, at + 20, ip)
  <2> HIDE DEF a, ip
  <2>1. Holds(p, at + 12 + 9 - 1, ip)
    BY <1>3, <1>4, <1>8, Within
  <2>2. at + 12 + 9 - 1 = at + 20
    BY <1>6
  <2> QED BY <2>1, <2>2
<1>10. Value(Slice(p, at, 8)) = e.time /\ Value(Slice(p, at + 8, 4)) = e.stream
  BY <1>1, <1>2, <1>8, NumberFound
<1>11. Slice(p, at + 12, 26) = a /\ Slice(p, at + 20, 16) = ip
  <2> HIDE DEF a, ip
  <2>1. Slice(p, at + 12, Len(a)) = a
    BY <1>3, <1>8, SliceIs
  <2>2. Slice(p, at + 20, Len(ip)) = ip
    BY <1>4, <1>9, SliceIs
  <2> QED BY <1>3, <1>4, <2>1, <2>2
<1> QED BY <1>10, <1>11 DEF EntryRead

LEMMA AddrReadsBack ==
    ASSUME NEW addresses \in Seq(AddrEntry)
    PROVE  LET p == AddrPayload(addresses)
           IN  /\ p \in Seq(Byte) /\ Len(p) = get_varint_size(Len(addresses)) + 38 * Len(addresses)
               /\ Len(addresses) \in Number =>
                     parseAddrMessage(p) = [k \in 1 .. Len(addresses) |-> EntryRead(addresses[k])]
<1> DEFINE p == AddrPayload(addresses)
           n == Len(addresses)
           a == encodeVarint(n)
           z == get_varint_size(n)
           g == EntryBytes(addresses)
<1>1. n \in Nat /\ \A k \in 1 .. n : addresses[k] \in AddrEntry
  OBVIOUS
<1>2. \A k \in 1 .. n : g[k] = Entry(addresses[k]) /\ Len(g[k]) = 38
  <2> SUFFICES ASSUME NEW k \in 1 .. n PROVE g[k] = Entry(addresses[k]) /\ Len(g[k]) = 38
    OBVIOUS
  <2>1. g[k] = Entry(addresses[k])
    BY DEF EntryBytes
  <2> QED BY <1>1, <2>1, EntryParts
<1>3. a \in Seq(Byte) /\ Len(a) = z /\ z \in Nat
  BY <1>1, VarintBytes
<1>4. PICK v : Chained(v, a, g, n) /\ v[n] = p
  BY AddrPayloadIs
<1> HIDE DEF p, a, z, n, g
<1>5. /\ p \in Seq(Byte) /\ Len(p) = Len(a) + 38 * n /\ Holds(p, 1, a)
      /\ \A k \in 1 .. n : Holds(p, Len(a) + 38 * (k - 1) + 1, g[k])
  <2> DEFINE w == 38
  <2>1. w \in Nat /\ \A k \in 1 .. n : Len(g[k]) = w
    BY <1>2
  <2> HIDE DEF w
  <2>2. /\ v[n] \in Seq(Byte) /\ Len(v[n]) = Len(a) + w * n /\ Holds(v[n], 1, a)
        /\ \A k \in 1 .. n : Holds(v[n], Len(a) + w * (k - 1) + 1, g[k]) /\ g[k] \in Seq(Byte)
    BY <1>1, <1>3, <1>4, <2>1, Entries
  <2> QED BY <1>4, <2>2 DEF w
<1>6. ASSUME n \in Number PROVE parseAddrMessage(p) = [k \in 1 .. n |-> EntryRead(addresses[k])]
  <2>1. decodeVarint(p, 1) = [value |-> n, size |-> z]
    BY <1>5, <1>6, VarintFound DEF a, z
  <2> DEFINE R(at) == [time    |-> Value(Slice(p, at, 8)),
                       stream  |-> Value(Slice(p, at + 8, 4)),
                       address |-> printNetworkAddress(Slice(p, at + 12, 26)),
                       valid   |-> is_valid_bm_addr(Slice(p, at + 20, 16))]
  <2>2. parseAddrMessage(p) = [k \in 1 .. decodeVarint(p, 1).value |-> R(decodeVarint(p, 1).size + 38 * (k - 1) + 1)]
    BY DEF parseAddrMessage
  <2>3. ASSUME NEW k \in 1 .. n PROVE R(z + 38 * (k - 1) + 1) = EntryRead(addresses[k])
    <3>1. Holds(p, z + 38 * (k - 1) + 1, Entry(addresses[k]))
      BY <1>2, <1>3, <1>5
    <3> QED BY <1>1, <1>5, <3>1, EntryFound
  <2> HIDE DEF R
  <2>4. parseAddrMessage(p) = [k \in 1 .. n |-> R(z + 38 * (k - 1) + 1)]
    BY <2>1, <2>2
  <2> QED BY <2>3, <2>4
<1> QED BY <1>3, <1>5, <1>6 DEF p, n, z

-----------------------------------------------------------------------------
(* From one end to the other *)

Replies == {[command |-> "verack"], [command |-> "pong"]}
Sayable == Hellos \cup Others \cup Replies

Payload(m) ==
    CASE m.command = "version" -> create_version_payload(m)
      [] m.command = "addr"    -> AddrPayload(m.addresses)
      [] m.command = "inv"     -> InvPayload(m.items)
      [] OTHER                 -> <<>>

\* What the other end makes of a message.
Got(m) ==
    CASE m.command = "version" -> [command |-> "version", version |-> VersionRead(m)]
      [] m.command = "addr"    ->
            [command |-> "addr", addresses |-> [k \in 1 .. Len(m.addresses) |-> EntryRead(m.addresses[k])]]
      [] OTHER                 -> m

\* A message is a header and a payload, out of which comes what it says.
Conveyed(m) ==
    /\ m.command \in CommandNames /\ Payload(m) \in Seq(Byte) /\ Len(Payload(m)) < B^4 /\ 2 * Len(Payload(m)) < B^4
    /\ Bytes(m) = Message(m.command, Payload(m))
    /\ Decoded([command |-> m.command, payload |-> Payload(m)]) = Got(m)
    /\ Got(m) \in Understood

LEMMA ShortPayload ==
    ASSUME NEW m \in Hellos \cup Others, NEW c \in CommandNames, NEW p \in Seq(Byte), Bytes(m) = Message(c, p)
    PROVE  Len(p) < B^4 /\ 2 * Len(p) < B^4 /\ \A x \in Nat : x <= Len(p) => x \in Number
<1> DEFINE l == Len(p)
           q == B^4
           r == B^8
<1>1. 2 * (Len(Bytes(m)) - 24) < q
  BY SaysAssumption
<1>2. Len(Bytes(m)) = 24 + l /\ l \in Nat
  BY MessageParts
<1>3. q \in Nat /\ r \in Nat /\ q <= r
  BY FourInEight
<1> HIDE DEF l, q, r
<1>4. l < q /\ 2 * l < q /\ \A x \in Nat : x <= l => x \in 0 .. r - 1
  BY <1>1, <1>2, <1>3
<1> QED BY <1>4 DEF Number, l, q, r

LEMMA VersionSaid ==
    ASSUME NEW m \in Hellos, m \in VersionMessage
    PROVE  Conveyed(m)
<1> DEFINE p == create_version_payload(m)
           size == get_version_payload_size(m.agent)
           len == Len(m.agent)
<1>1. m.command = "version" /\ m.agent \in Seq(Byte) /\ m.to \in Sockaddr /\ m.from \in Sockaddr
      /\ m.version \in 0 .. B^4 - 1 /\ m.timestamp \in Number /\ m.nonce \in Number
  BY DEF VersionMessage
<1>2. p \in Seq(Byte) /\ Len(p) = size
  BY <1>1, VersionParts, VersionPayloadSize DEF VersionFound
<1>3. len <= Len(p) /\ len \in Nat
  <2> DEFINE n == get_varint_size(len)
  <2>1. len \in Nat
    BY <1>1
  <2>2. n \in Nat
    BY <2>1, SizeIsNat
  <2>3. size = 82 + (n + len)
    BY DEF get_version_payload_size, get_varstr_size
  <2> HIDE DEF n, len, size, p
  <2> QED BY <1>2, <2>1, <2>2, <2>3
<1>4. Payload(m) = p
  BY <1>1 DEF Payload
<1> HIDE DEF p, size
<1>5. Allocated(size, p) = p
  <2>1. p = [k \in 1 .. size |-> p[k]]
    BY <1>2
  <2>2. Allocated(size, p) = [k \in 1 .. size |-> p[k]]
    BY <1>2 DEF Allocated
  <2> QED BY <2>1, <2>2
<1>6. Bytes(m) = Message("version", p)
  <2>1. Bytes(m) = new_version_message(m)
    BY <1>1 DEF Bytes
  <2>2. new_version_message(m) = magicbytes \o CommandBytes("version") \o BigEndian(size, 4) \o Checksum(p) \o p
    BY <1>5 DEF new_version_message, size, p
  <2> QED BY <1>2, <2>1, <2>2 DEF Message, Framed
<1>7. "version" \in CommandNames
  BY DEF CommandNames
<1>8. Len(p) < B^4 /\ 2 * Len(p) < B^4 /\ len \in Number
  BY <1>2, <1>3, <1>6, <1>7, ShortPayload
<1>9. parseVersionMessage(p) = VersionRead(m)
  BY <1>8, VersionReadsBack DEF p
<1>10. Got(m) = [command |-> "version", version |-> VersionRead(m)]
  BY <1>1 DEF Got
<1>11. Decoded([command |-> "version", payload |-> p]) = [command |-> "version", version |-> parseVersionMessage(p)]
  <2> DEFINE msg == [command |-> "version", payload |-> p]
  <2>1. msg.command = "version" /\ msg.payload = p
    OBVIOUS
  <2> HIDE DEF msg
  <2> QED BY <2>1 DEF Decoded
<1>12. VersionRead(m) \in
        [version : 0 .. B^4 - 1, timestamp : Number, to : ShownAddress,
         from : ShownAddress, nonce : Number, agent : Seq(Byte), streams : Seq(Number)]
  <2>1. <<1>> \in Seq(Number)
    <3>1. 1 \in Number
      <4> DEFINE q == B^4
                 r == B^8
      <4>1. q \in Nat /\ r \in Nat /\ q <= r
        BY FourInEight
      <4>2. B^2 > 0 /\ B^2 \in Nat
        BY FourInEight
      <4>3. len + 82 < q
        <5>1. Len(p) = size /\ size = 82 + (get_varint_size(len) + len)
          BY <1>2 DEF size, get_version_payload_size, get_varstr_size
        <5>2. get_varint_size(len) \in Nat
          BY <1>3, SizeIsNat
        <5> HIDE DEF len
        <5> QED BY <1>3, <1>8, <4>1, <5>1, <5>2
      <4> HIDE DEF q, r, len
      <4>4. 1 \in 0 .. r - 1
        BY <1>3, <4>1, <4>3
      <4> QED BY <4>4 DEF Number, r
    <3> QED BY <3>1
  <2>2. /\ printNetworkAddress(encodeNetworkAddress(m.to)) \in ShownAddress
        /\ printNetworkAddress(encodeNetworkAddress(m.from)) \in ShownAddress
    BY <1>1, AddressShown
  <2> QED BY <1>1, <2>1, <2>2 DEF VersionRead
<1>13. Got(m) \in Understood
  BY <1>10, <1>12 DEF Understood
<1> QED BY <1>1, <1>2, <1>4, <1>6, <1>7, <1>8, <1>9, <1>10, <1>11, <1>13 DEF Conveyed

LEMMA AddrSaid ==
    ASSUME NEW m \in Others, m.command = "addr", m.addresses \in Seq(AddrEntry)
    PROVE  Conveyed(m)
<1> DEFINE as == m.addresses
           p == AddrPayload(as)
           n == Len(as)
<1>1. p \in Seq(Byte) /\ Len(p) = get_varint_size(n) + 38 * n
  BY AddrReadsBack
<1>2. n \in Nat /\ n <= Len(p)
  <2>1. n \in Nat /\ get_varint_size(n) \in Nat
    <3>1. n \in Nat
      OBVIOUS
    <3> QED BY <3>1, SizeIsNat
  <2> DEFINE z == get_varint_size(n)
  <2> HIDE DEF n, p, z
  <2>2. Len(p) = z + 38 * n /\ z \in Nat /\ n \in Nat
    BY <1>1, <2>1 DEF z
  <2> QED BY <2>2
<1>3. Payload(m) = p
  BY DEF Payload
<1>4. Bytes(m) = Message("addr", p)
  BY DEF Bytes, WithHeader, Message, Framed
<1>5. "addr" \in CommandNames
  BY DEF CommandNames
<1>6. Len(p) < B^4 /\ 2 * Len(p) < B^4 /\ n \in Number
  <2> HIDE DEF p, n
  <2> QED BY <1>1, <1>2, <1>4, <1>5, ShortPayload
<1>7. parseAddrMessage(p) = [k \in 1 .. n |-> EntryRead(as[k])]
  BY <1>6, AddrReadsBack
<1>8. Decoded([command |-> "addr", payload |-> p]) = [command |-> "addr", addresses |-> parseAddrMessage(p)]
  <2> DEFINE msg == [command |-> "addr", payload |-> p]
  <2> HIDE DEF p
  <2>1. msg.command = "addr" /\ msg.payload = p
    OBVIOUS
  <2> HIDE DEF msg
  <2> QED BY <2>1 DEF Decoded
<1>9. Got(m) = [command |-> "addr", addresses |-> [k \in 1 .. n |-> EntryRead(as[k])]]
  BY DEF Got
<1> DEFINE E == [time : Number, stream : 0 .. B^4 - 1, address : ShownAddress, valid : BOOLEAN]
           w == [k \in 1 .. n |-> EntryRead(as[k])]
<1>10. w \in Seq(E)
  <2>1. ASSUME NEW k \in 1 .. n PROVE EntryRead(as[k]) \in E
    <3>1. as[k] \in AddrEntry
      OBVIOUS
    <3>2. as[k].time \in Number /\ as[k].stream \in 0 .. B^4 - 1 /\ as[k].addr \in Sockaddr
      BY <3>1 DEF AddrEntry
    <3> DEFINE x == as[k]
               v == is_valid_bm_addr(Slice(encodeNetworkAddress(x.addr), 9, 16))
               a == printNetworkAddress(encodeNetworkAddress(x.addr))
    <3>3. a \in ShownAddress
      BY <3>2, AddressShown
    <3>4. v \in BOOLEAN
      BY DEF is_valid_bm_addr, IsIpv4Mapped
    <3>5. EntryRead(x) = [time |-> x.time, stream |-> x.stream, address |-> a, valid |-> v]
      BY DEF EntryRead
    <3> HIDE DEF a, v
    <3> QED BY <3>2, <3>3, <3>4, <3>5
  <2>2. w \in [1 .. n -> E]
    BY <2>1
  <2> HIDE DEF w, E, n
  <2> QED BY <1>2, <2>2
<1>11. Got(m) \in Understood
  <2> HIDE DEF w, p, n, as
  <2>1. Got(m) = [command |-> "addr", addresses |-> w]
    BY <1>9 DEF w
  <2>2. [command |-> "addr", addresses |-> w] \in [command : {"addr"}, addresses : Seq(E)]
    BY <1>10
  <2> QED BY <2>1, <2>2 DEF Understood
<1> HIDE DEF p, n, as, w
<1>12. Decoded([command |-> "addr", payload |-> p]) = Got(m)
  BY <1>7, <1>8, <1>9, Zenon
<1> QED BY <1>1, <1>3, <1>4, <1>5, <1>6, <1>11, <1>12 DEF Conveyed

LEMMA InvSaid ==
    ASSUME NEW m \in Others, m \in [command : {"inv"}, items : Seq([1 .. 32 -> Byte])]
    PROVE  Conveyed(m)
<1> DEFINE items == m.items
           p == InvPayload(items)
           n == Len(items)
<1>1. m.command = "inv" /\ items \in Seq([1 .. 32 -> Byte]) /\ m = [command |-> "inv", items |-> items]
  OBVIOUS
<1>2. p \in Seq(Byte) /\ Len(p) = get_varint_size(n) + 32 * n
  BY <1>1, InvReadsBack
<1>3. n \in Nat /\ n <= Len(p)
  <2>1. n \in Nat /\ get_varint_size(n) \in Nat
    <3>1. n \in Nat
      BY <1>1
    <3> QED BY <3>1, SizeIsNat
  <2> DEFINE z == get_varint_size(n)
  <2> HIDE DEF n, p, z
  <2>2. Len(p) = z + 32 * n /\ z \in Nat /\ n \in Nat
    BY <1>2, <2>1 DEF z
  <2> QED BY <2>2
<1>4. Payload(m) = p
  BY <1>1 DEF Payload
<1>5. Bytes(m) = Message("inv", p)
  BY <1>1 DEF Bytes, WithHeader, Message, Framed
<1>6. "inv" \in CommandNames
  BY DEF CommandNames
<1>7. Len(p) < B^4 /\ 2 * Len(p) < B^4 /\ n \in Number
  <2> HIDE DEF p, n
  <2> QED BY <1>2, <1>3, <1>5, <1>6, ShortPayload
<1>8. parseInventoryMessage(p) = items
  BY <1>1, <1>7, InvReadsBack
<1>9. Decoded([command |-> "inv", payload |-> p]) = [command |-> "inv", items |-> parseInventoryMessage(p)]
  <2> DEFINE msg == [command |-> "inv", payload |-> p]
  <2> HIDE DEF p
  <2>1. msg.command = "inv" /\ msg.payload = p
    OBVIOUS
  <2> HIDE DEF msg
  <2> QED BY <2>1 DEF Decoded
<1>10. Got(m) = m
  BY <1>1 DEF Got
<1>11. Got(m) \in Understood
  BY <1>10 DEF Understood
<1> HIDE DEF p, n, items
<1>12. Decoded([command |-> "inv", payload |-> p]) = Got(m)
  BY <1>1, <1>8, <1>9, <1>10
<1> QED BY <1>1, <1>2, <1>4, <1>5, <1>6, <1>7, <1>11, <1>12 DEF Conveyed

\* A message without payload.
LEMMA PlainSaid ==
    ASSUME NEW m \in [command : {"ping", "getdata", "object", "verack", "pong"}]
    PROVE  Conveyed(m)
<1> DEFINE c == m.command
           e == <<>>
<1>1. c \in {"ping", "getdata", "object", "verack", "pong"} /\ m = [command |-> c]
  OBVIOUS
<1>2. e \in Seq(Byte) /\ Len(e) = 0 /\ Len(e) < B^4 /\ 2 * Len(e) < B^4 /\ 0 < B^4
  BY FourInEight
<1>3. Payload(m) = e /\ Got(m) = m /\ m \in Understood /\ c \in CommandNames
  BY <1>1 DEF Payload, Got, Understood, CommandNames
<1>4. Bytes(m) = Message(c, e)
  <2>1. CASE c \in {"verack", "pong"}
    <3> DEFINE f == magicbytes
               b == CommandBytes(c)
               l == BigEndian(0, 4)
               h == empty_payload_checksum
    <3>1. Bytes(m) = f \o b \o l \o h
      BY <2>1 DEF Bytes, reply_header
    <3>2. Message(c, e) = (f \o b \o l \o h) \o e
      BY <1>2 DEF Message, Framed, Checksum, empty_payload_checksum
    <3>3. f \in Seq(Byte) /\ b \in Seq(Byte) /\ l \in Seq(Byte) /\ h \in Seq(Byte)
      <4>1. f \in Seq(Byte) /\ h \in Seq(Byte)
        BY EightValues DEF magicbytes, empty_payload_checksum
      <4>2. b \in Seq(Byte)
        BY <1>3, CommandIs
      <4>3. l \in Seq(Byte)
        <5>1. 4 \in 0 .. 8 /\ 0 \in 0 .. B^4 - 1
          BY FourInEight
        <5> QED BY <5>1, BigBytes
      <4> QED BY <4>1, <4>2, <4>3
    <3> HIDE DEF f, b, l, h
    <3>4. f \o b \o l \o h \in Seq(Byte)
      BY <3>3
    <3>5. (f \o b \o l \o h) \o e = f \o b \o l \o h
      <4> DEFINE x == f \o b \o l \o h
      <4>1. x \in Seq(Byte)
        BY <3>4
      <4> HIDE DEF x
      <4>2. x \o <<>> = x
        BY <4>1, ConcatEmptySeq
      <4> QED BY <4>2 DEF x
    <3> QED BY <3>1, <3>2, <3>5
  <2>2. CASE c \in {"ping", "getdata", "object"}
    BY <2>2 DEF Bytes, WithHeader, Message, Framed
  <2> QED BY <1>1, <2>1, <2>2
<1>5. Decoded([command |-> c, payload |-> e]) = [command |-> c]
  <2> DEFINE msg == [command |-> c, payload |-> e]
  <2>1. msg.command = c
    OBVIOUS
  <2> HIDE DEF msg
  <2> QED BY <1>1, <2>1 DEF Decoded
<1> QED BY <1>1, <1>2, <1>3, <1>4, <1>5 DEF Conveyed

LEMMA AllConveyed ==
    ASSUME NEW m \in Sayable
    PROVE  Conveyed(m)
<1>1. CASE m \in Hellos
  BY <1>1, SaysAssumption, VersionSaid
<1>2. CASE m \in Others
  <2>1. \/ m \in [command : {"ping", "getdata", "object"}]
        \/ m \in [command : {"addr"}, addresses : Seq(AddrEntry)]
        \/ m \in [command : {"inv"}, items : Seq([1 .. 32 -> Byte])]
    BY <1>2, SaysAssumption DEF OtherMessage
  <2>2. CASE m \in [command : {"ping", "getdata", "object"}]
    <3>1. m \in [command : {"ping", "getdata", "object", "verack", "pong"}]
      BY <2>2
    <3> QED BY <3>1, PlainSaid
  <2>3. CASE m \in [command : {"addr"}, addresses : Seq(AddrEntry)]
    <3>1. m.command = "addr" /\ m.addresses \in Seq(AddrEntry)
      BY <2>3
    <3> QED BY <1>2, <3>1, AddrSaid
  <2>4. CASE m \in [command : {"inv"}, items : Seq([1 .. 32 -> Byte])]
    BY <1>2, <2>4, InvSaid
  <2> QED BY <2>1, <2>2, <2>3, <2>4
<1>3. CASE m \in Replies
  <2>1. m \in [command : {"ping", "getdata", "object", "verack", "pong"}]
    BY <1>3 DEF Replies
  <2> QED BY <2>1, PlainSaid
<1> QED BY <1>1, <1>2, <1>3 DEF Sayable

-----------------------------------------------------------------------------
(* One direction of the connection *)

Encoded(s) == [k \in 1 .. Len(s) |-> Bytes(s[k])]

\* The bytes of what is said are those that have been heard, those in the buffer
\* and those on their way; and what has been heard is what was said.
Flow(s, h, b, w) ==
    \E v : /\ Chained(v, <<>>, Encoded(s), Len(s))
           /\ Len(h) <= Len(s)
           /\ v[Len(s)] = (v[Len(h)] \o b) \o w
           /\ \A k \in 1 .. Len(h) : h[k] = Got(s[k])

LEMMA BytesSeq ==
    ASSUME NEW m \in Sayable
    PROVE  Bytes(m) \in Seq(Byte) /\ Len(Bytes(m)) = 24 + Len(Payload(m))
BY AllConveyed, MessageParts DEF Conveyed

LEMMA Associates ==
    ASSUME NEW x \in Seq(Byte), NEW y \in Seq(Byte), NEW z \in Seq(Byte)
    PROVE  (x \o y) \o z = x \o (y \o z)
BY ConcatAssociative

\* The same as names, so that it can be used without unfolding \o.
Cat(x, y) == x \o y

LEMMA FourAssociate ==
    ASSUME NEW a \in Seq(Byte), NEW b \in Seq(Byte), NEW x \in Seq(Byte), NEW y \in Seq(Byte)
    PROVE  Cat(Cat(a, b), Cat(x, y)) = Cat(Cat(a, Cat(b, x)), y)
<1>1. a \o b \in Seq(Byte)
  OBVIOUS
<1>2. (a \o b) \o (x \o y) = ((a \o b) \o x) \o y
  <2> DEFINE c == a \o b
  <2> HIDE DEF c
  <2>1. (c \o x) \o y = c \o (x \o y)
    BY <1>1, Associates DEF c
  <2> QED BY <2>1 DEF c
<1>3. (a \o b) \o x = a \o (b \o x)
  BY Associates
<1> QED BY <1>2, <1>3 DEF Cat

LEMMA FlowStart == Flow(<<>>, <<>>, <<>>, <<>>)
<1> DEFINE e == <<>>
           v == [k \in 0 .. 0 |-> e]
           n == Len(e)
<1>1. n = 0 /\ e \in Seq(Byte)
  OBVIOUS
<1>2. Chained(v, e, Encoded(e), n)
  <2>1. v \in [0 .. n -> Seq(Byte)] /\ v[0] = e
    BY <1>1
  <2>2. Encoded(e) \in [1 .. n -> Seq(Byte)]
    BY <1>1 DEF Encoded
  <2>3. \A i \in 1 .. n : v[i] = v[i - 1] \o Encoded(e)[i]
    BY <1>1
  <2> QED BY <2>1, <2>2, <2>3 DEF Chained
<1>3. v[n] = (v[n] \o e) \o e
  <2>1. v[n] = e
    BY <1>1
  <2>2. e \o e = e
    BY <1>1, ConcatEmptySeq
  <2> QED BY <2>1, <2>2
<1>4. \A k \in 1 .. n : e[k] = Got(e[k])
  BY <1>1
<1>5. n <= n
  BY <1>1
<1> QED BY <1>2, <1>3, <1>4, <1>5 DEF Flow

LEMMA FlowSaid ==
    ASSUME NEW s \in Seq(Sayable), NEW m \in Sayable, NEW h, Len(h) \in Nat, NEW b \in Seq(Byte), NEW w \in Seq(Byte),
           Flow(s, h, b, w)
    PROVE  Flow(Append(s, m), h, b, w \o Bytes(m))
<1> DEFINE n == Len(s)
           k == Len(h)
           t == Append(s, m)
           y == Bytes(m)
<1>1. PICK v : /\ Chained(v, <<>>, Encoded(s), n)
               /\ k <= n /\ v[n] = (v[k] \o b) \o w
               /\ \A j \in 1 .. k : h[j] = Got(s[j])
  BY DEF Flow
<1>2. n \in Nat /\ Len(t) = n + 1 /\ (\A j \in 1 .. n : t[j] = s[j]) /\ t[n + 1] = m
  OBVIOUS
<1>3. y \in Seq(Byte)
  BY BytesSeq
<1> HIDE DEF n, k, t, y
<1>4. k \in Nat
  BY DEF k
<1> DEFINE u == [i \in 0 .. n + 1 |-> IF i <= n THEN v[i] ELSE v[n] \o y]
<1>5. /\ v \in [0 .. n -> Seq(Byte)] /\ v[0] = <<>> /\ Encoded(s) \in [1 .. n -> Seq(Byte)]
      /\ \A i \in 1 .. n : v[i] = v[i - 1] \o Encoded(s)[i]
  BY <1>1 DEF Chained
<1>6. v[n] \in Seq(Byte) /\ v[k] \in Seq(Byte)
  <2>1. n \in 0 .. n /\ k \in 0 .. n
    BY <1>1, <1>2, <1>4
  <2> QED BY <1>5, <2>1
<1>7. (\A i \in 0 .. n : u[i] = v[i]) /\ u[n + 1] = v[n] \o y
  <2>1. \A i \in 0 .. n : i \in 0 .. n + 1 /\ i <= n
    BY <1>2
  <2>2. n + 1 \in 0 .. n + 1 /\ ~(n + 1 <= n)
    BY <1>2
  <2> QED BY <2>1, <2>2
<1>8. u \in [0 .. n + 1 -> Seq(Byte)]
  <2> SUFFICES ASSUME NEW i \in 0 .. n + 1 PROVE (IF i <= n THEN v[i] ELSE v[n] \o y) \in Seq(Byte)
    OBVIOUS
  <2>1. CASE i <= n
    <3>1. i \in 0 .. n
      BY <1>2, <2>1
    <3> QED BY <1>5, <2>1, <3>1
  <2>2. CASE ~(i <= n)
    BY <1>3, <1>6, <2>2
  <2> QED BY <2>1, <2>2
<1> HIDE DEF u
<1>9. /\ \A j \in 1 .. n : Encoded(t)[j] = Encoded(s)[j]
      /\ Encoded(t)[n + 1] = y /\ Encoded(t) \in [1 .. n + 1 -> Seq(Byte)]
  <2>1. Encoded(t) = [j \in 1 .. n + 1 |-> Bytes(t[j])]
    BY <1>2 DEF Encoded
  <2>2. \A j \in 1 .. n : Encoded(s)[j] = Bytes(s[j])
    BY DEF Encoded, n
  <2>3. \A j \in 1 .. n : j \in 1 .. n + 1
    BY <1>2
  <2>4. n + 1 \in 1 .. n + 1
    BY <1>2
  <2>5. \A j \in 1 .. n : Encoded(t)[j] = Encoded(s)[j]
    BY <1>2, <2>1, <2>2, <2>3
  <2>6. Encoded(t)[n + 1] = y
    BY <1>2, <2>1, <2>4 DEF y
  <2>7. ASSUME NEW j \in 1 .. n + 1 PROVE Encoded(t)[j] \in Seq(Byte)
    <3>1. j \in 1 .. n \/ j = n + 1
      BY <1>2
    <3> QED BY <1>3, <1>5, <2>5, <2>6, <3>1
  <2> QED BY <2>1, <2>5, <2>6, <2>7
<1>10. Chained(u, <<>>, Encoded(t), n + 1)
  <2>1. ASSUME NEW i \in 1 .. n + 1 PROVE u[i] = u[i - 1] \o Encoded(t)[i]
    <3>1. CASE i \in 1 .. n
      <4>1. i \in 0 .. n /\ i - 1 \in 0 .. n
        BY <1>2, <3>1
      <4> QED BY <1>5, <1>7, <1>9, <3>1, <4>1
    <3>2. CASE i = n + 1
      <4>1. i - 1 = n /\ n \in 0 .. n
        BY <1>2, <3>2
      <4>2. u[i - 1] = v[n]
        BY <1>7, <4>1
      <4>3. u[i] = v[n] \o y /\ Encoded(t)[i] = y
        BY <1>7, <1>9, <3>2
      <4> QED BY <4>2, <4>3, Zenon
    <3>3. i \in 1 .. n \/ i = n + 1
      BY <1>2
    <3> QED BY <3>1, <3>2, <3>3
  <2>2. u[0] = <<>>
    <3>1. 0 \in 0 .. n
      BY <1>2
    <3> QED BY <1>5, <1>7, <3>1
  <2> QED BY <1>8, <1>9, <2>1, <2>2 DEF Chained
<1>11. u[n + 1] = (u[k] \o b) \o (w \o y)
  <2>1. u[k] = v[k]
    <3>1. k \in 0 .. n
      BY <1>1, <1>2, <1>4
    <3> QED BY <1>7, <3>1
  <2> DEFINE x == v[k] \o b
  <2>2. x \in Seq(Byte)
    BY <1>6
  <2>3. u[n + 1] = (x \o w) \o y
    BY <1>1, <1>7
  <2> HIDE DEF x
  <2>4. (x \o w) \o y = x \o (w \o y)
    BY <1>3, <2>2, ConcatAssociative, SMTT(30)
  <2> QED BY <2>1, <2>3, <2>4 DEF x
<1>12. k <= n + 1 /\ \A j \in 1 .. k : h[j] = Got(t[j])
  <2>1. \A j \in 1 .. k : j \in 1 .. n
    BY <1>1, <1>2, <1>4
  <2> QED BY <1>1, <1>2, <1>4, <2>1
<1> QED BY <1>2, <1>10, <1>11, <1>12 DEF Flow, k, t, y

LEMMA CutAt ==
    ASSUME NEW s \in Seq(Byte), NEW n \in 0 .. Len(s)
    PROVE  /\ SubSeq(s, 1, n) \in Seq(Byte) /\ SubSeq(s, n + 1, Len(s)) \in Seq(Byte)
           /\ s = SubSeq(s, 1, n) \o SubSeq(s, n + 1, Len(s))
           /\ Len(SubSeq(s, 1, n)) = n /\ Len(SubSeq(s, n + 1, Len(s))) = Len(s) - n
<1> DEFINE l == Len(s)
           a == SubSeq(s, 1, n)
           b == SubSeq(s, n + 1, l)
           c == a \o b
<1>1. l \in Nat /\ \A i \in 1 .. l : s[i] \in Byte
  OBVIOUS
<1> HIDE DEF l
<1>2. n \in 0 .. l
  BY DEF l
<1>3. /\ a \in Seq(Byte) /\ Len(a) = (IF 1 <= n THEN n - 1 + 1 ELSE 0)
      /\ \A i \in 1 .. n - 1 + 1 : a[i] = s[1 + i - 1]
  <2>1. \A i \in 1 .. n : s[i] \in Byte
    BY <1>1, <1>2
  <2>2. 1 \in Int /\ n \in Int
    BY <1>2
  <2> QED BY <2>1, <2>2, SubSeqProperties
<1>4. /\ b \in Seq(Byte) /\ Len(b) = (IF n + 1 <= l THEN l - (n + 1) + 1 ELSE 0)
      /\ \A i \in 1 .. l - (n + 1) + 1 : b[i] = s[(n + 1) + i - 1]
  <2>1. \A i \in n + 1 .. l : s[i] \in Byte
    BY <1>1, <1>2
  <2>2. n + 1 \in Int /\ l \in Int
    BY <1>1, <1>2
  <2> QED BY <2>1, <2>2, SubSeqProperties
<1> HIDE DEF a, b
<1>5. Len(a) = n /\ \A i \in 1 .. n : a[i] = s[i]
  <2>1. n - 1 + 1 = n /\ \A i \in 1 .. n : 1 + i - 1 = i
    BY <1>2
  <2>2. Len(a) = n
    BY <1>2, <1>3
  <2> QED BY <1>3, <2>1, <2>2
<1>6. Len(b) = l - n /\ \A i \in 1 .. l - n : b[i] = s[n + i]
  <2>1. l - (n + 1) + 1 = l - n /\ \A i \in 1 .. l - n : (n + 1) + i - 1 = n + i
    BY <1>1, <1>2
  <2>2. Len(b) = l - n
    BY <1>1, <1>2, <1>4
  <2> QED BY <1>4, <2>1, <2>2
<1>7. /\ c \in Seq(Byte) /\ Len(c) = Len(a) + Len(b)
      /\ \A i \in 1 .. Len(a) + Len(b) : c[i] = IF i <= Len(a) THEN a[i] ELSE b[i - Len(a)]
  BY <1>3, <1>4, ConcatProperties
<1>8. Len(c) = l /\ \A i \in 1 .. l : c[i] = s[i]
  <2> HIDE DEF c
  <2>1. Len(a) + Len(b) = l
    BY <1>1, <1>2, <1>5, <1>6
  <2>2. ASSUME NEW i \in 1 .. l PROVE c[i] = s[i]
    <3>1. CASE i <= n
      BY <1>2, <1>5, <1>7, <2>1, <3>1
    <3>2. CASE ~(i <= n)
      <4>1. i - n \in 1 .. l - n /\ n + (i - n) = i
        BY <1>1, <1>2, <3>2
      <4> QED BY <1>5, <1>6, <1>7, <2>1, <3>2, <4>1
    <3> QED BY <3>1, <3>2
  <2> QED BY <1>7, <2>1, <2>2
<1>9. c = s
  <2> HIDE DEF c
  <2>1. Len(s) = l
    BY DEF l
  <2> QED BY <1>7, <1>8, <2>1, SeqEqual
<1> QED BY <1>3, <1>4, <1>5, <1>6, <1>9 DEF a, b, l

LEMMA FlowMoved ==
    ASSUME NEW s, NEW h, NEW b \in Seq(Byte), NEW w \in Seq(Byte), Flow(s, h, b, w), NEW k \in 0 .. Len(w),
           s \in Seq(Sayable), Len(h) \in Nat
    PROVE  Flow(s, h, b \o SubSeq(w, 1, k), SubSeq(w, k + 1, Len(w)))
<1> DEFINE n == Len(s)
           j == Len(h)
           x == SubSeq(w, 1, k)
           y == SubSeq(w, k + 1, Len(w))
<1>1. PICK v : /\ Chained(v, <<>>, Encoded(s), n)
               /\ j <= n /\ v[n] = (v[j] \o b) \o w
               /\ \A i \in 1 .. j : h[i] = Got(s[i])
  BY DEF Flow
<1>2. x \in Seq(Byte) /\ y \in Seq(Byte) /\ w = x \o y
  BY CutAt
<1>3. n \in Nat /\ j \in Nat
  OBVIOUS
<1> HIDE DEF n, j, x, y
<1>4. v[j] \in Seq(Byte)
  <2>1. j \in 0 .. n
    BY <1>1, <1>3
  <2> QED BY <1>1, <2>1 DEF Chained
<1>5. (v[j] \o b) \o w = (v[j] \o (b \o x)) \o y
  <2> DEFINE a == v[j]
  <2>1. a \in Seq(Byte) /\ x \in Seq(Byte) /\ y \in Seq(Byte) /\ b \in Seq(Byte)
    BY <1>2, <1>4
  <2> HIDE DEF a
  <2>2. Cat(Cat(a, b), Cat(x, y)) = Cat(Cat(a, Cat(b, x)), y)
    BY <2>1, FourAssociate
  <2> QED BY <1>2, <2>2 DEF a, Cat
<1>6. v[n] = (v[j] \o (b \o x)) \o y
  BY <1>1, <1>5
<1> QED BY <1>1, <1>6 DEF Flow, n, j, x, y

\* A message at the front of the buffer is the next one that was said.
LEMMA FlowFront ==
    ASSUME NEW s \in Seq(Sayable), NEW h, Len(h) \in Nat, NEW b \in Seq(Byte), NEW w \in Seq(Byte),
           Flow(s, h, b, w), HasMessage(b)
    PROVE  LET m == s[Len(h) + 1]
           IN  /\ Len(h) < Len(s) /\ m \in Sayable
               /\ Holds(b, 1, Bytes(m)) /\ MessageSize(b) = Len(Bytes(m))
               /\ parse_message(b) = {[command |-> m.command, payload |-> Payload(m)]}
<1> DEFINE n == Len(s)
           k == Len(h)
           m == s[k + 1]
           g == Bytes(m)
<1>1. PICK v : Chained(v, <<>>, Encoded(s), n) /\ k <= n /\ v[n] = (v[k] \o b) \o w
  BY DEF Flow
<1>2. n \in Nat /\ k \in Nat /\ Len(b) \in Nat /\ Len(b) >= 24 /\ Len(w) \in Nat
  BY DEF HasMessage
<1>3. \A i \in 0 .. n : v[i] \in Seq(Byte)
  BY <1>1 DEF Chained
<1>4. k \in 0 .. n /\ n \in 0 .. n
  BY <1>1, <1>2
<1> HIDE DEF n, k
<1>5. v[k] \in Seq(Byte) /\ v[n] \in Seq(Byte) /\ Len(v[k]) \in Nat
  <2>1. v[k] \in Seq(Byte) /\ v[n] \in Seq(Byte)
    BY <1>3, <1>4
  <2> QED BY <2>1
<1> DEFINE x == v[k] \o b
           l == Len(v[k])
<1>6. /\ x \in Seq(Byte) /\ Len(x) = l + Len(b) /\ Holds(x, l + 1, b)
      /\ Len(x \o w) = Len(x) + Len(w)
  <2>1. x \in Seq(Byte) /\ Len(x) = l + Len(b) /\ Holds(x, l + 1, b)
    BY <1>5, Joins
  <2> HIDE DEF x, l
  <2>2. Len(x \o w) = Len(x) + Len(w)
    BY <2>1, Joins
  <2> QED BY <2>1, <2>2
<1>7. Holds(v[n], l + 1, b)
  <2> HIDE DEF l
  <2>1. v[n] = x \o w
    BY <1>1
  <2> HIDE DEF x
  <2> QED BY <1>6, <2>1, Prefixed
<1>8. k < n
  <2> SUFFICES ASSUME k = n PROVE FALSE
    BY <1>1, <1>2
  <2>1. Len(v[n]) = Len(x) + Len(w)
    BY <1>1, <1>6
  <2>2. Len(v[n]) = l
    OBVIOUS
  <2>3. l \in Nat
    BY <1>5
  <2> HIDE DEF x, l
  <2> QED BY <1>2, <1>6, <2>1, <2>2, <2>3
<1>9. m \in Sayable
  <2>1. k + 1 \in 1 .. n
    BY <1>2, <1>8
  <2> QED BY <2>1 DEF n
<1>10. Holds(v[n], l + 1, g)
  <2> DEFINE i == k + 1
  <2>1. i \in 0 .. n /\ i > 0 /\ i - 1 = k /\ i \in 1 .. n
    BY <1>2, <1>8
  <2>2. Encoded(s)[i] = g
    BY <2>1 DEF Encoded, n
  <2> HIDE DEF i, g, l
  <2>3. Holds(v[n], Len(v[i - 1]) + 1, Encoded(s)[i])
    BY <1>1, <1>2, <2>1, ChainParts
  <2> QED BY <2>1, <2>2, <2>3 DEF l
<1> DEFINE c == m.command
           p == Payload(m)
<1>11. Conveyed(m)
  BY <1>9, AllConveyed
<1>12. c \in CommandNames /\ p \in Seq(Byte) /\ Len(p) < B^4 /\ 2 * Len(p) < B^4 /\ g = Message(c, p)
  BY <1>11 DEF Conveyed
<1>13. g \in Seq(Byte) /\ Len(g) = 24 + Len(p) /\ Len(p) \in Nat
  BY <1>12, MessageParts
<1> HIDE DEF l, g, m, c, p
<1>14. \A j \in 1 .. Len(g) : j \in 1 .. Len(b) => b[j] = g[j]
  <2> SUFFICES ASSUME NEW j \in 1 .. Len(g), j \in 1 .. Len(b) PROVE b[j] = g[j]
    OBVIOUS
  <2>1. v[n][l + 1 + j - 1] = b[j]
    BY <1>7 DEF Holds
  <2>2. v[n][l + 1 + j - 1] = g[j]
    BY <1>10 DEF Holds
  <2> QED BY <2>1, <2>2
<1>15. MessageSize(b) = Len(g)
  <2>1. ASSUME NEW j \in 1 .. 24 PROVE b[j] = g[j]
    <3>1. j \in 1 .. Len(g) /\ j \in 1 .. Len(b)
      BY <1>2, <1>13
    <3> QED BY <1>14, <3>1
  <2>2. \A j \in 1 .. 24 : b[j] = Message(c, p)[j]
    BY <1>12, <2>1
  <2>3. MessageSize(b) = 24 + Len(p)
    BY <1>2, <1>12, <2>2, SizeFound
  <2> QED BY <1>13, <2>3
<1>16. Len(b) >= Len(g)
  BY <1>15 DEF HasMessage
<1>17. Holds(b, 1, g)
  <2>1. ASSUME NEW j \in 1 .. Len(g) PROVE b[1 + j - 1] = g[j]
    <3>1. j \in 1 .. Len(b) /\ 1 + j - 1 = j
      BY <1>2, <1>13, <1>16
    <3> QED BY <1>14, <3>1
  <2>2. 1 + Len(g) <= Len(b) + 1
    BY <1>2, <1>13, <1>16
  <2> QED BY <2>1, <2>2 DEF Holds
<1>18. parse_message(b) = {[command |-> c, payload |-> p]}
  BY <1>12, <1>17, MessageFound
<1> QED BY <1>8, <1>9, <1>15, <1>17, <1>18 DEF n, k, m, g, c, p

LEMMA FlowHeard ==
    ASSUME NEW s \in Seq(Sayable), NEW h \in Seq(Understood), NEW b \in Seq(Byte), NEW w \in Seq(Byte),
           Flow(s, h, b, w), HasMessage(b)
    PROVE  Flow(s, Append(h, Got(s[Len(h) + 1])), SubSeq(b, MessageSize(b) + 1, Len(b)), w)
<1> DEFINE n == Len(s)
           k == Len(h)
           m == s[k + 1]
           g == Bytes(m)
           r == SubSeq(b, Len(g) + 1, Len(b))
           t == Append(h, Got(m))
<1>1. PICK v : /\ Chained(v, <<>>, Encoded(s), n)
               /\ k <= n /\ v[n] = (v[k] \o b) \o w
               /\ \A j \in 1 .. k : h[j] = Got(s[j])
  BY DEF Flow
<1>2. n \in Nat /\ k \in Nat
  OBVIOUS
<1>3. k < n /\ m \in Sayable /\ Holds(b, 1, g) /\ MessageSize(b) = Len(g)
  BY <1>2, FlowFront
<1>4. g \in Seq(Byte) /\ Len(g) \in Nat /\ Len(b) \in Nat
  <2>1. g \in Seq(Byte)
    BY <1>3, BytesSeq
  <2> HIDE DEF g
  <2> QED BY <2>1
<1>5. Len(t) = k + 1 /\ (\A j \in 1 .. k : t[j] = h[j]) /\ t[k + 1] = Got(m)
  <2> DEFINE x == Got(m)
  <2> HIDE DEF x
  <2> QED OBVIOUS
<1>6. Encoded(s)[k + 1] = g
  <2>1. k + 1 \in 1 .. n
    BY <1>2, <1>3
  <2> QED BY <2>1 DEF Encoded
<1> HIDE DEF n, k, m, g, t
<1>7. b = g \o r /\ r \in Seq(Byte)
  <2> DEFINE l == Len(g)
             a == SubSeq(b, 1, l)
  <2>1. l \in 0 .. Len(b)
    BY <1>3, <1>4 DEF Holds
  <2>2. a \in Seq(Byte) /\ r \in Seq(Byte) /\ b = a \o r
    BY <2>1, CutAt
  <2>3. Slice(b, 1, l) = g
    BY <1>3, <1>4, SliceIs
  <2>4. Slice(b, 1, l) = a
    <3>1. 1 + l - 1 = l
      BY <1>4
    <3> QED BY <3>1 DEF Slice
  <2> QED BY <2>2, <2>3, <2>4
<1> HIDE DEF r
<1>8. v[k] \in Seq(Byte) /\ v[k + 1] = v[k] \o g
  <2>1. k \in 0 .. n /\ k + 1 \in 1 .. n /\ (k + 1) - 1 = k
    BY <1>2, <1>3
  <2> QED BY <1>1, <1>6, <2>1 DEF Chained
<1>9. v[n] = (v[k + 1] \o r) \o w
  <2> DEFINE a == v[k]
  <2>1. a \in Seq(Byte)
    BY <1>8
  <2>2. (a \o g) \o r = a \o (g \o r)
    <3> HIDE DEF a
    <3> QED BY <1>4, <1>7, <2>1, ConcatAssociative, SMTT(30)
  <2> QED BY <1>1, <1>7, <1>8, <2>2
<1>10. k + 1 <= n /\ \A j \in 1 .. k + 1 : t[j] = Got(s[j])
  <2>1. ASSUME NEW j \in 1 .. k + 1 PROVE t[j] = Got(s[j])
    <3>1. CASE j \in 1 .. k
      BY <1>1, <1>5, <3>1
    <3>2. CASE j = k + 1
      BY <1>5, <3>2 DEF m
    <3> QED BY <1>2, <3>1, <3>2
  <2> QED BY <1>2, <1>3, <2>1
<1>11. Flow(s, t, r, w)
  BY <1>1, <1>5, <1>9, <1>10 DEF Flow, n
<1> QED BY <1>3, <1>11 DEF t, m, k, r

-----------------------------------------------------------------------------
(* The invariant *)

Directions == \A n \in Nodes : Flow(said[Peer(n)], heard[n], buffer[n], wire[n])

Inv == TypeOK /\ Directions

LEMMA Peers ==
    ASSUME NEW n \in Nodes
    PROVE  Peer(n) \in Nodes /\ Peer(n) # n /\ Peer(Peer(n)) = n /\ \A j \in Nodes : j = n \/ j = Peer(n)
BY DEF Nodes, Peer

LEMMA Typed ==
    ASSUME TypeOK
    PROVE  /\ wire \in [Nodes -> Seq(Byte)] /\ buffer \in [Nodes -> Seq(Byte)]
           /\ said \in [Nodes -> Seq(Sayable)] /\ heard \in [Nodes -> Seq(Understood)]
<1>1. Hellos \cup Others \cup {[command |-> "verack"], [command |-> "pong"]} = Sayable
  BY DEF Sayable, Replies
<1> QED BY <1>1 DEF TypeOK

LEMMA InvInit == Init => Inv
<1> SUFFICES ASSUME Init PROVE Inv
  OBVIOUS
<1> USE DEF Init
<1>1. TypeOK
  <2>1. \A n \in Nodes : buffer[n] = <<>> /\ Len(buffer[n]) = 0
    OBVIOUS
  <2>2. 0 <= BufferSize /\ 0 \in 0 .. MaxSays
    BY BoundsAssumption
  <2> QED BY <2>1, <2>2 DEF TypeOK
<1>2. ASSUME NEW n \in Nodes PROVE Flow(said[Peer(n)], heard[n], buffer[n], wire[n])
  <2>1. Peer(n) \in Nodes
    BY Peers
  <2>2. said[Peer(n)] = <<>> /\ heard[n] = <<>> /\ buffer[n] = <<>> /\ wire[n] = <<>>
    BY <2>1
  <2> QED BY <2>2, FlowStart
<1> QED BY <1>1, <1>2 DEF Inv, Directions

LEMMA InvSay ==
    ASSUME Inv, NEW n \in Nodes, NEW m \in Hellos \cup Others, Say(n, m)
    PROVE  Inv'
<1>1. /\ wire \in [Nodes -> Seq(Byte)] /\ buffer \in [Nodes -> Seq(Byte)]
      /\ said \in [Nodes -> Seq(Sayable)] /\ heard \in [Nodes -> Seq(Understood)]
      /\ says \in [Nodes -> 0 .. MaxSays] /\ \A j \in Nodes : Len(buffer[j]) <= BufferSize
  BY Typed DEF Inv, TypeOK
<1>2. /\ says[n] < MaxSays
      /\ says' = [says EXCEPT ![n] = says[n] + 1]
      /\ said' = [said EXCEPT ![n] = Append(said[n], m)]
      /\ wire' = [wire EXCEPT ![Peer(n)] = wire[Peer(n)] \o Bytes(m)]
      /\ buffer' = buffer /\ heard' = heard
  BY DEF Say
<1>3. m \in Sayable /\ Bytes(m) \in Seq(Byte)
  <2>1. m \in Sayable
    BY DEF Sayable
  <2> QED BY <2>1, BytesSeq
<1>4. Peer(n) \in Nodes /\ Peer(n) # n /\ Peer(Peer(n)) = n
  BY Peers
<1>5. /\ Append(said[n], m) \in Seq(Sayable) /\ wire[Peer(n)] \o Bytes(m) \in Seq(Byte)
      /\ says[n] + 1 \in 0 .. MaxSays
  <2>1. said[n] \in Seq(Sayable) /\ wire[Peer(n)] \in Seq(Byte) /\ says[n] \in 0 .. MaxSays
    BY <1>1, <1>4
  <2>2. says[n] + 1 \in 0 .. MaxSays
    BY <1>2, <2>1, BoundsAssumption
  <2> QED BY <1>3, <2>1, <2>2
<1>6. TypeOK'
  <2>1. wire' \in [Nodes -> Seq(Byte)] /\ said' \in [Nodes -> Seq(Sayable)] /\ says' \in [Nodes -> 0 .. MaxSays]
    BY <1>1, <1>2, <1>5
  <2> QED BY <1>1, <1>2, <2>1 DEF TypeOK, Sayable, Replies
<1>7. ASSUME NEW j \in Nodes PROVE Flow(said'[Peer(j)], heard'[j], buffer'[j], wire'[j])
  <2>1. Flow(said[Peer(j)], heard[j], buffer[j], wire[j])
    BY DEF Inv, Directions
  <2>2. CASE j = n
    <3>1. said'[Peer(j)] = said[Peer(j)] /\ wire'[j] = wire[j]
      BY <1>1, <1>2, <1>4, <2>2
    <3> QED BY <1>2, <2>1, <3>1
  <2>3. CASE j = Peer(n)
    <3>1. said'[Peer(j)] = Append(said[n], m) /\ wire'[j] = wire[j] \o Bytes(m)
      BY <1>1, <1>2, <1>4, <2>3
    <3>2. said[n] \in Seq(Sayable) /\ Len(heard[j]) \in Nat /\ buffer[j] \in Seq(Byte) /\ wire[j] \in Seq(Byte)
      <4>1. heard[j] \in Seq(Understood)
        BY <1>1
      <4> QED BY <1>1, <4>1
    <3>3. Flow(said[n], heard[j], buffer[j], wire[j])
      BY <1>4, <2>1, <2>3
    <3>4. Flow(Append(said[n], m), heard[j], buffer[j], wire[j] \o Bytes(m))
      BY <1>3, <3>2, <3>3, FlowSaid
    <3> QED BY <1>2, <3>1, <3>4
  <2> QED BY <2>2, <2>3, Peers
<1>8. Directions'
  BY <1>7 DEF Directions, Peer
<1> QED BY <1>6, <1>8 DEF Inv

LEMMA InvDeliver ==
    ASSUME Inv, NEW n \in Nodes, Deliver(n)
    PROVE  Inv'
<1>1. /\ wire \in [Nodes -> Seq(Byte)] /\ buffer \in [Nodes -> Seq(Byte)]
      /\ said \in [Nodes -> Seq(Sayable)] /\ heard \in [Nodes -> Seq(Understood)]
      /\ says \in [Nodes -> 0 .. MaxSays] /\ \A j \in Nodes : Len(buffer[j]) <= BufferSize
  BY Typed DEF Inv, TypeOK
<1> DEFINE w == wire[n]
           b == buffer[n]
<1>2. PICK k \in Chunks \cup {Len(w), Room(n)} :
          /\ k > 0 /\ k <= Len(w) /\ k <= Room(n)
          /\ buffer' = [buffer EXCEPT ![n] = b \o SubSeq(w, 1, k)]
          /\ wire' = [wire EXCEPT ![n] = SubSeq(w, k + 1, Len(w))]
          /\ said' = said /\ heard' = heard /\ says' = says
  BY DEF Deliver
<1>3. w \in Seq(Byte) /\ b \in Seq(Byte) /\ Len(w) \in Nat /\ Len(b) \in Nat /\ Len(b) <= BufferSize
  <2>1. w \in Seq(Byte) /\ b \in Seq(Byte)
    BY <1>1
  <2> QED BY <1>1, <2>1
<1>4. k \in 0 .. Len(w)
  <2>1. k \in Int
    BY <1>2, <1>3, BoundsAssumption DEF Room
  <2> QED BY <1>2, <1>3, <2>1
<1> DEFINE x == SubSeq(w, 1, k)
           y == SubSeq(w, k + 1, Len(w))
<1>5. x \in Seq(Byte) /\ y \in Seq(Byte) /\ Len(x) = k
  <2> HIDE DEF w
  <2> QED BY <1>3, <1>4, CutAt
<1>6. b \o x \in Seq(Byte) /\ Len(b \o x) <= BufferSize
  <2>1. k <= BufferSize - Len(b)
    BY <1>2 DEF Room
  <2> HIDE DEF b, x
  <2>2. b \o x \in Seq(Byte) /\ Len(b \o x) = Len(b) + k
    BY <1>3, <1>5, Joins
  <2> QED BY <1>3, <1>4, <2>1, <2>2, BoundsAssumption
<1>7. Flow(said[Peer(n)], heard[n], b \o x, y)
  <2>1. Flow(said[Peer(n)], heard[n], b, w)
    BY DEF Inv, Directions
  <2>2. said[Peer(n)] \in Seq(Sayable) /\ Len(heard[n]) \in Nat
    <3>1. heard[n] \in Seq(Understood)
      BY <1>1
    <3> QED BY <1>1, <3>1, Peers
  <2> HIDE DEF b, w
  <2> QED BY <1>3, <1>4, <2>1, <2>2, FlowMoved
<1> HIDE DEF x, y, b, w
<1>8. buffer' = [buffer EXCEPT ![n] = b \o x] /\ wire' = [wire EXCEPT ![n] = y]
  BY <1>2 DEF x, y
<1>9. TypeOK'
  <2>1. wire' \in [Nodes -> Seq(Byte)] /\ buffer' \in [Nodes -> Seq(Byte)]
    BY <1>1, <1>5, <1>6, <1>8
  <2>2. ASSUME NEW j \in Nodes PROVE Len(buffer'[j]) <= BufferSize
    BY <1>1, <1>6, <1>8
  <2> QED BY <1>1, <1>2, <2>1, <2>2 DEF TypeOK, Sayable, Replies
<1>10. ASSUME NEW j \in Nodes PROVE Flow(said'[Peer(j)], heard'[j], buffer'[j], wire'[j])
  <2>1. CASE j = n
    <3>1. buffer'[j] = b \o x /\ wire'[j] = y
      BY <1>1, <1>8, <2>1
    <3> QED BY <1>2, <1>7, <2>1, <3>1
  <2>2. CASE j # n
    <3>1. buffer'[j] = buffer[j] /\ wire'[j] = wire[j]
      BY <1>1, <1>8, <2>2
    <3>2. Flow(said[Peer(j)], heard[j], buffer[j], wire[j])
      BY DEF Inv, Directions
    <3> QED BY <1>2, <3>1, <3>2
  <2> QED BY <2>1, <2>2
<1>11. Directions'
  BY <1>10 DEF Directions, Peer
<1> QED BY <1>9, <1>11 DEF Inv

\* What Process takes and what it does: it hears the next message that was said.
Heard(n, m) ==
    /\ Len(heard[n]) < Len(said[Peer(n)]) /\ m = said[Peer(n)][Len(heard[n]) + 1] /\ m \in Sayable
    /\ HasMessage(buffer[n]) /\ MessageSize(buffer[n]) = Len(Bytes(m)) /\ Len(Bytes(m)) <= Len(buffer[n])
    /\ Reply(m) = <<>> \/ \E r \in Replies : Reply(m) = <<r>>
    /\ buffer' = [buffer EXCEPT ![n] = SubSeq(buffer[n], MessageSize(buffer[n]) + 1, Len(buffer[n]))]
    /\ heard' = [heard EXCEPT ![n] = Append(heard[n], Got(m))]
    /\ said' = [said EXCEPT ![n] = said[n] \o Reply(m)]
    /\ wire' = [wire EXCEPT ![Peer(n)] =
                    IF Reply(m) = <<>> THEN wire[Peer(n)] ELSE wire[Peer(n)] \o Bytes(Reply(m)[1])]
    /\ says' = says

LEMMA DirectionTyped ==
    ASSUME TypeOK, NEW n \in Nodes
    PROVE  /\ said[Peer(n)] \in Seq(Sayable) /\ heard[n] \in Seq(Understood) /\ Len(heard[n]) \in Nat
           /\ buffer[n] \in Seq(Byte) /\ wire[n] \in Seq(Byte)
<1>1. /\ said[Peer(n)] \in Seq(Sayable) /\ heard[n] \in Seq(Understood)
      /\ buffer[n] \in Seq(Byte) /\ wire[n] \in Seq(Byte)
  BY Typed, Peers
<1> QED BY <1>1

LEMMA ProcessHears ==
    ASSUME Inv, NEW n \in Nodes, Process(n)
    PROVE  \E m : Heard(n, m)
<1> DEFINE s == said[Peer(n)]
           h == heard[n]
           b == buffer[n]
           w == wire[n]
           m == s[Len(h) + 1]
<1>1. PICK msg \in parse_message(b) :
        /\ buffer' = [buffer EXCEPT ![n] = SubSeq(b, MessageSize(b) + 1, Len(b))]
        /\ heard' = [heard EXCEPT ![n] = Append(h, Decoded(msg))]
        /\ said' = [said EXCEPT ![n] = said[n] \o Reply(msg)]
        /\ wire' = [wire EXCEPT ![Peer(n)] =
                        IF Reply(msg) = <<>> THEN wire[Peer(n)] ELSE wire[Peer(n)] \o Bytes(Reply(msg)[1])]
        /\ says' = says
  BY DEF Process
<1>2. HasMessage(b)
  BY <1>1 DEF parse_message
<1>3. s \in Seq(Sayable) /\ Len(h) \in Nat /\ b \in Seq(Byte) /\ w \in Seq(Byte) /\ Flow(s, h, b, w)
  BY DirectionTyped DEF Inv, Directions
<1>4. /\ Len(h) < Len(s) /\ m \in Sayable /\ MessageSize(b) = Len(Bytes(m)) /\ Holds(b, 1, Bytes(m))
      /\ parse_message(b) = {[command |-> m.command, payload |-> Payload(m)]}
  <2> HIDE DEF s, h, b, w
  <2> QED BY <1>2, <1>3, FlowFront DEF m
<1>5. Len(Bytes(m)) <= Len(b)
  BY <1>2, <1>4 DEF HasMessage
<1>6. Conveyed(m)
  BY <1>4, AllConveyed
<1> HIDE DEF s, h, b, w, m
<1>7. msg = [command |-> m.command, payload |-> Payload(m)]
  BY <1>4
<1>8. Decoded(msg) = Got(m)
  BY <1>6, <1>7 DEF Conveyed
<1>9. Reply(msg) = Reply(m) /\ (Reply(m) = <<>> \/ \E r \in Replies : Reply(m) = <<r>>)
  <2>1. msg.command = m.command
    BY <1>7
  <2> QED BY <2>1 DEF Reply, Replies
<1> USE DEF s, h, b, m
<1>10. Heard(n, m)
  BY <1>1, <1>2, <1>4, <1>5, <1>8, <1>9 DEF Heard
<1> QED BY <1>10

LEMMA InvHeard ==
    ASSUME Inv, NEW n \in Nodes, NEW m, Heard(n, m)
    PROVE  Inv'
<1> DEFINE b == buffer[n]
           y == SubSeq(b, MessageSize(b) + 1, Len(b))
           h == Append(heard[n], Got(m))
           o == Peer(n)
<1>1. /\ wire \in [Nodes -> Seq(Byte)] /\ buffer \in [Nodes -> Seq(Byte)]
      /\ said \in [Nodes -> Seq(Sayable)] /\ heard \in [Nodes -> Seq(Understood)]
      /\ says \in [Nodes -> 0 .. MaxSays] /\ \A j \in Nodes : Len(buffer[j]) <= BufferSize
  BY Typed DEF Inv, TypeOK
<1>2. /\ m = said[o][Len(heard[n]) + 1] /\ m \in Sayable /\ Len(Bytes(m)) <= Len(b) /\ HasMessage(b)
      /\ MessageSize(b) = Len(Bytes(m))
      /\ buffer' = [buffer EXCEPT ![n] = y]
      /\ heard' = [heard EXCEPT ![n] = h]
      /\ said' = [said EXCEPT ![n] = said[n] \o Reply(m)]
      /\ wire' = [wire EXCEPT ![o] = IF Reply(m) = <<>> THEN wire[o] ELSE wire[o] \o Bytes(Reply(m)[1])]
      /\ says' = says
      /\ Reply(m) = <<>> \/ \E r \in Replies : Reply(m) = <<r>>
  BY DEF Heard
<1>3. o \in Nodes /\ o # n /\ Peer(o) = n
  BY Peers
<1>4. y \in Seq(Byte) /\ Len(y) <= BufferSize
  <2> DEFINE l == Len(Bytes(m))
  <2>1. b \in Seq(Byte) /\ Len(b) <= BufferSize /\ Len(b) \in Nat /\ l \in Nat
    <3>1. b \in Seq(Byte) /\ Bytes(m) \in Seq(Byte)
      BY <1>1, <1>2, BytesSeq
    <3> QED BY <1>1, <3>1
  <2>2. l \in 0 .. Len(b)
    <3>1. l <= Len(b)
      BY <1>2
    <3> HIDE DEF b, l
    <3> QED BY <2>1, <3>1
  <2> HIDE DEF b, l
  <2>3. SubSeq(b, l + 1, Len(b)) \in Seq(Byte) /\ Len(SubSeq(b, l + 1, Len(b))) = Len(b) - l
    BY <2>1, <2>2, CutAt
  <2>4. y = SubSeq(b, l + 1, Len(b))
    BY <1>2 DEF l
  <2> HIDE DEF y
  <2> QED BY <2>1, <2>3, <2>4, BoundsAssumption
<1>5. Got(m) \in Understood /\ h \in Seq(Understood)
  <2>1. Got(m) \in Understood
    BY <1>2, AllConveyed DEF Conveyed
  <2> QED BY <1>1, <2>1
<1>6. Flow(said[o], h, y, wire[n])
  <2>1. Flow(said[o], heard[n], b, wire[n])
    BY DEF Inv, Directions
  <2>2. said[o] \in Seq(Sayable) /\ heard[n] \in Seq(Understood) /\ b \in Seq(Byte) /\ wire[n] \in Seq(Byte)
    BY DirectionTyped DEF Inv
  <2> DEFINE s == said[o]
             e == heard[n]
             w == wire[n]
  <2> HIDE DEF b, s, e, w
  <2>3. Flow(s, Append(e, Got(s[Len(e) + 1])), SubSeq(b, MessageSize(b) + 1, Len(b)), w)
    BY <1>2, <2>1, <2>2, FlowHeard DEF s, e, w
  <2> QED BY <1>2, <2>3 DEF s, e, w
<1>7. /\ said'[n] \in Seq(Sayable) /\ wire'[o] \in Seq(Byte)
      /\ Flow(said'[n], heard[o], buffer[o], wire'[o])
  <2>1. Flow(said[n], heard[o], buffer[o], wire[o])
    BY <1>3 DEF Inv, Directions
  <2>2. said[n] \in Seq(Sayable) /\ Len(heard[o]) \in Nat /\ buffer[o] \in Seq(Byte) /\ wire[o] \in Seq(Byte)
    BY <1>3, DirectionTyped DEF Inv
  <2>3. CASE Reply(m) = <<>>
    <3>1. said[n] \o <<>> = said[n]
      BY <2>2, ConcatEmptySeq
    <3>2. said'[n] = said[n] /\ wire'[o] = wire[o]
      BY <1>1, <1>2, <1>3, <2>3, <3>1
    <3> QED BY <2>1, <2>2, <3>2
  <2>4. ASSUME NEW r \in Replies, Reply(m) = <<r>>
        PROVE  /\ said'[n] \in Seq(Sayable) /\ wire'[o] \in Seq(Byte)
               /\ Flow(said'[n], heard[o], buffer[o], wire'[o])
    <3>1. r \in Sayable /\ Bytes(r) \in Seq(Byte)
      <4>1. r \in Sayable
        BY DEF Sayable
      <4> QED BY <4>1, BytesSeq
    <3>2. said[n] \o <<r>> = Append(said[n], r)
      BY <2>2, <3>1
    <3>3. Reply(m) # <<>> /\ Reply(m)[1] = r
      BY <2>4
    <3>4. said'[n] = Append(said[n], r) /\ wire'[o] = wire[o] \o Bytes(r)
      BY <1>1, <1>2, <1>3, <2>4, <3>2, <3>3
    <3>5. Append(said[n], r) \in Seq(Sayable) /\ wire[o] \o Bytes(r) \in Seq(Byte)
      BY <2>2, <3>1
    <3>6. Flow(Append(said[n], r), heard[o], buffer[o], wire[o] \o Bytes(r))
      <4> DEFINE s == said[n]
                 e == heard[o]
                 c == buffer[o]
                 w == wire[o]
      <4>1. s \in Seq(Sayable) /\ Len(e) \in Nat /\ c \in Seq(Byte) /\ w \in Seq(Byte) /\ Flow(s, e, c, w)
        BY <2>1, <2>2
      <4> HIDE DEF s, e, c, w
      <4>2. Flow(Append(s, r), e, c, w \o Bytes(r))
        BY <3>1, <4>1, FlowSaid
      <4> QED BY <4>2 DEF s, e, c, w
    <3> QED BY <3>4, <3>5, <3>6
  <2> QED BY <1>2, <2>3, <2>4
<1> HIDE DEF y, h, b
<1>8. /\ buffer'[n] = y /\ heard'[n] = h /\ said'[o] = said[o] /\ wire'[n] = wire[n]
      /\ buffer'[o] = buffer[o] /\ heard'[o] = heard[o]
  BY <1>1, <1>2, <1>3
<1>9. TypeOK'
  <2>1. wire' \in [Nodes -> Seq(Byte)]
    <3> DEFINE x == IF Reply(m) = <<>> THEN wire[o] ELSE wire[o] \o Bytes(Reply(m)[1])
    <3>1. x \in Seq(Byte)
      BY <1>1, <1>2, <1>3, <1>7
    <3> HIDE DEF x
    <3> QED BY <1>1, <1>2, <3>1 DEF x
  <2>2. said' \in [Nodes -> Seq(Sayable)]
    <3> DEFINE x == said[n] \o Reply(m)
    <3>1. x \in Seq(Sayable)
      BY <1>1, <1>2, <1>7
    <3> HIDE DEF x
    <3> QED BY <1>1, <1>2, <3>1 DEF x
  <2>3. buffer' \in [Nodes -> Seq(Byte)] /\ heard' \in [Nodes -> Seq(Understood)]
    BY <1>1, <1>2, <1>4, <1>5
  <2>4. ASSUME NEW j \in Nodes PROVE Len(buffer'[j]) <= BufferSize
    BY <1>1, <1>3, <1>4, <1>8, Peers
  <2> QED BY <1>1, <1>2, <2>1, <2>2, <2>3, <2>4 DEF TypeOK, Sayable, Replies
<1>10. ASSUME NEW j \in Nodes PROVE Flow(said'[Peer(j)], heard'[j], buffer'[j], wire'[j])
  <2>1. CASE j = n
    BY <1>6, <1>8, <2>1
  <2>2. CASE j = o
    BY <1>3, <1>7, <1>8, <2>2
  <2> QED BY <2>1, <2>2, Peers
<1>11. Directions'
  BY <1>10 DEF Directions, Peer
<1> QED BY <1>9, <1>11 DEF Inv

LEMMA InvNext == Inv /\ [Next]_vars => Inv'
<1> SUFFICES ASSUME Inv, [Next]_vars PROVE Inv'
  OBVIOUS
<1>1. ASSUME NEW n \in Nodes, postVersion(n) PROVE Inv'
  <2>1. PICK m \in Hellos : Say(n, m)
    BY <1>1 DEF postVersion
  <2> QED BY <2>1, InvSay
<1>2. ASSUME NEW n \in Nodes, SayOther(n) PROVE Inv'
  <2>1. PICK m \in Others : Say(n, m)
    BY <1>2 DEF SayOther
  <2> QED BY <2>1, InvSay
<1>3. ASSUME NEW n \in Nodes, Deliver(n) PROVE Inv'
  BY <1>3, InvDeliver
<1>4. ASSUME NEW n \in Nodes, Process(n) PROVE Inv'
  BY <1>4, ProcessHears, InvHeard
<1>5. CASE UNCHANGED vars
  BY <1>5 DEF vars, Inv, TypeOK, Directions, Peer, Room
<1> QED BY <1>1, <1>2, <1>3, <1>4, <1>5 DEF Next

\* For each direction, what was said is what was heard, what is in the buffer and
\* what is on its way, in this order and nothing else.
THEOREM WireInvariant == Spec => []Inv
BY InvInit, InvNext, PTL DEF Spec

\* A node hears nothing that is not of the messages that there are, and its
\* buffer is never overrun.
THEOREM WireTyped == Spec => []TypeOK
<1>1. Inv => TypeOK
  BY DEF Inv
<1> QED BY <1>1, WireInvariant, PTL

\* A message that has arrived whole is never refused, however it came.
THEOREM WireNeverRefuses == Spec => []NeverRefused
<1>1. Inv => NeverRefused
  <2> SUFFICES ASSUME Inv, NEW n \in Nodes, HasMessage(buffer[n]) PROVE parse_message(buffer[n]) # {}
    BY DEF NeverRefused
  <2>1. /\ said[Peer(n)] \in Seq(Sayable) /\ Len(heard[n]) \in Nat /\ buffer[n] \in Seq(Byte)
        /\ wire[n] \in Seq(Byte) /\ Flow(said[Peer(n)], heard[n], buffer[n], wire[n])
    BY DirectionTyped DEF Inv, Directions
  <2> DEFINE s == said[Peer(n)]
             h == heard[n]
             b == buffer[n]
             w == wire[n]
             m == s[Len(h) + 1]
  <2> HIDE DEF s, h, b, w
  <2>2. parse_message(b) = {[command |-> m.command, payload |-> Payload(m)]}
    BY <2>1, FlowFront DEF s, h, b, w
  <2> QED BY <2>2 DEF b
<1> QED BY <1>1, WireInvariant, PTL

-----------------------------------------------------------------------------
(* The conversation *)

\* An address that is shown as it is: printNetworkAddress takes the IPv4-mapped
\* ones for IPv4, and encodeNetworkAddress does not write IPv4 ones as such.
ShownAsIs(a) == a.family = "AF_INET6" /\ ~IsIpv4Mapped(a.ip)

OnlyIpv6 ==
    /\ \A m \in Hellos : ShownAsIs(m.to) /\ ShownAsIs(m.from)
    /\ \A m \in Others : m.command = "addr" =>
          \A k \in DOMAIN m.addresses :
              LET e == m.addresses[k]
              IN  ShownAsIs(e.addr) /\ e.valid = is_valid_bm_addr(e.addr.ip)

LEMMA GotMeaning ==
    ASSUME OnlyIpv6, NEW m \in Sayable
    PROVE  Got(m) = Meaning(m)
<1>1. ASSUME NEW a \in Sockaddr, ShownAsIs(a)
      PROVE  /\ printNetworkAddress(encodeNetworkAddress(a)) = Shown(a)
             /\ Slice(encodeNetworkAddress(a), 9, 16) = a.ip
  BY <1>1, AddressShown, AddressBytes DEF ShownAsIs
<1>2. CASE m \in Hellos
  <2>1. m.command = "version" /\ m.to \in Sockaddr /\ m.from \in Sockaddr
    BY <1>2, SaysAssumption DEF VersionMessage
  <2>2. ShownAsIs(m.to) /\ ShownAsIs(m.from)
    BY <1>2 DEF OnlyIpv6
  <2>3. /\ printNetworkAddress(encodeNetworkAddress(m.to)) = Shown(m.to)
        /\ printNetworkAddress(encodeNetworkAddress(m.from)) = Shown(m.from)
    BY <1>1, <2>1, <2>2
  <2> QED BY <2>1, <2>3 DEF Got, Meaning, VersionRead
<1>3. CASE m \in Others
  <2>1. \/ m \in [command : {"ping", "getdata", "object"}]
        \/ m \in [command : {"addr"}, addresses : Seq(AddrEntry)]
        \/ m \in [command : {"inv"}, items : Seq([1 .. 32 -> Byte])]
    BY <1>3, SaysAssumption DEF OtherMessage
  <2>2. CASE m.command \notin {"version", "addr"}
    BY <2>2 DEF Got, Meaning
  <2>3. CASE m \in [command : {"addr"}, addresses : Seq(AddrEntry)]
    <3> DEFINE as == m.addresses
               n == Len(as)
               G == [k \in 1 .. n |-> EntryRead(as[k])]
               M == [k \in DOMAIN as |-> [time |-> as[k].time, stream |-> as[k].stream,
                                          address |-> Shown(as[k].addr), valid |-> as[k].valid]]
    <3>1. m.command = "addr" /\ as \in Seq(AddrEntry)
      BY <2>3
    <3>2. Got(m) = [command |-> "addr", addresses |-> G]
      BY <3>1 DEF Got
    <3>3. Meaning(m) = [command |-> "addr", addresses |-> M]
      BY <3>1 DEF Meaning
    <3>4. DOMAIN as = 1 .. n
      BY <3>1
    <3>5. ASSUME NEW k \in 1 .. n
          PROVE  EntryRead(as[k]) = [time |-> as[k].time, stream |-> as[k].stream,
                                     address |-> Shown(as[k].addr), valid |-> as[k].valid]
      <4> DEFINE e == as[k]
      <4>1. e \in AddrEntry
        BY <3>1
      <4>2. ShownAsIs(e.addr) /\ e.valid = is_valid_bm_addr(e.addr.ip)
        BY <1>3, <3>1, <3>4 DEF OnlyIpv6
      <4> HIDE DEF e
      <4>3. e.addr \in Sockaddr
        BY <4>1 DEF AddrEntry
      <4>4. /\ printNetworkAddress(encodeNetworkAddress(e.addr)) = Shown(e.addr)
            /\ Slice(encodeNetworkAddress(e.addr), 9, 16) = e.addr.ip
        BY <1>1, <4>2, <4>3
      <4>5. EntryRead(e) = [time |-> e.time, stream |-> e.stream, address |-> Shown(e.addr), valid |-> e.valid]
        BY <4>2, <4>4 DEF EntryRead
      <4> QED BY <4>5 DEF e
    <3>6. G = M
      BY <3>4, <3>5
    <3> HIDE DEF G, M
    <3> QED BY <3>2, <3>3, <3>6
  <2> QED BY <2>1, <2>2, <2>3
<1>4. CASE m \in Replies
  <2>1. m.command \notin {"version", "addr"}
    BY <1>4 DEF Replies
  <2> QED BY <2>1 DEF Got, Meaning
<1> QED BY <1>2, <1>3, <1>4 DEF Sayable

LEMMA StartsConversation == Init => Conversation!Init
BY DEF Init, Conversation!Init

LEMMA StepsConversation ==
    ASSUME OnlyIpv6, Inv, [Next]_vars
    PROVE  [Conversation!Next]_(Conversation!vars)
<1>1. ASSUME NEW n \in Nodes, NEW m \in Hellos \cup Others, Say(n, m) PROVE Conversation!Next
  <2>1. Conversation!Say(n, m)
    BY <1>1 DEF Say, Conversation!Say
  <2> QED BY <2>1 DEF Conversation!Next
<1>2. ASSUME NEW n \in Nodes, Deliver(n) PROVE UNCHANGED Conversation!vars
  BY <1>2 DEF Deliver, Conversation!vars
<1>3. ASSUME NEW n \in Nodes, Process(n) PROVE Conversation!Next
  <2>1. PICK m : Heard(n, m)
    BY <1>3, ProcessHears
  <2>2. /\ Len(heard[n]) < Len(said[Peer(n)]) /\ m = said[Peer(n)][Len(heard[n]) + 1] /\ m \in Sayable
        /\ heard' = [heard EXCEPT ![n] = Append(heard[n], Got(m))]
        /\ said' = [said EXCEPT ![n] = said[n] \o Reply(m)]
    BY <2>1 DEF Heard
  <2>3. Got(m) = Meaning(m)
    BY <2>2, GotMeaning
  <2>4. Conversation!Answers(m) = Reply(m)
    BY DEF Conversation!Answers, Conversation!Answered, Reply
  <2>5. Conversation!Hear(n)
    BY <2>2, <2>3, <2>4 DEF Conversation!Hear
  <2> QED BY <2>5 DEF Conversation!Next
<1>4. CASE UNCHANGED vars
  BY <1>4 DEF vars, Conversation!vars
<1> QED BY <1>1, <1>2, <1>3, <1>4 DEF Next, postVersion, SayOther

\* However the bytes are cut into pieces, the two ends lead the conversation of
\* BmConversation, as long as the addresses they speak of are IPv6.
THEOREM WireConverses ==
    ASSUME OnlyIpv6
    PROVE  Spec => ImplementsConversation
<1>1. Inv /\ [Next]_vars => [Conversation!Next]_(Conversation!vars)
  BY StepsConversation
<1>2. Spec => Conversation!Init /\ [][Conversation!Next]_(Conversation!vars)
  BY <1>1, StartsConversation, WireInvariant, PTL DEF Spec
<1> QED BY <1>2 DEF ImplementsConversation, Conversation!Spec
=============================================================================
