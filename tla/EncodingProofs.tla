---------------------------- MODULE EncodingProofs ----------------------------
(***************************************************************************)
(* The functions that write numbers as bytes and digits never write        *)
(* outside their buffers and lose nothing: the lists of numbers of         *)
(* bm_protocol.c, the addresses and keys of bm_sonota.c with the division  *)
(* in place of base58encode, and the texts of printint.c.                  *)
(***************************************************************************)
EXTENDS LibraryCallsProofs

-----------------------------------------------------------------------------
(* Lists of numbers *)

\* Where each number of a list ends: what the three loops add up.
Ends(list) ==
    LET e[i \in 0 .. Len(list)] ==
          IF i = 0 THEN get_varint_size(Len(list)) ELSE e[i - 1] + get_varint_size(list[i])
    IN  e

\* The count and the first k numbers of list are written, and nothing else.
Written(list, k) ==
    /\ out \in Seq(Byte) /\ Len(out) = Ends(list)[k]
    /\ \A j0 \in 1 .. get_varint_size(Len(list)) : out[j0] = encodeVarint(Len(list))[j0]
    /\ \A i \in 1 .. k : \A j0 \in 1 .. get_varint_size(list[i]) :
          out[Ends(list)[i - 1] + j0] = encodeVarint(list[i])[j0]

\* Where a list stands.
AtList ==
    LET list == call.list
        n    == Len(list)
    IN  /\ pc \in ListPlaces \cup {"call", "return"}
        /\ pc = "call" => ListIdle
        /\ pc = "size" => /\ taken \in 0 .. n /\ size = Ends(list)[taken]
                          /\ out = <<>> /\ offset = 0 /\ got = <<>>
        /\ pc = "encode" => /\ taken \in 0 .. n /\ size = Ends(list)[n]
                            /\ Written(list, taken) /\ offset = Ends(list)[taken] /\ got = <<>>
        /\ pc \in {"decode", "return"} =>
              /\ taken = n /\ size = Ends(list)[n] /\ Written(list, n)
              /\ Len(got) \in 0 .. n /\ got = SubSeq(list, 1, Len(got))
              /\ offset = Ends(list)[Len(got)]
        /\ pc = "return" => Len(got) = n

ListInv == IF call.f = "list" THEN AtList ELSE ListIdle

\* A list that is sent: numbers, and not more of them than a number.
LEMMA ListFacts ==
    ASSUME WhereInv, call.f = "list"
    PROVE  /\ call.list \in Seq(Number) /\ Len(call.list) \in Number /\ Len(call.list) \in Nat
           /\ \A i \in 1 .. Len(call.list) : call.list[i] \in Number
<1>1. call \in ListCalls
  BY DEF WhereInv, CallKnown
<1>2. PICK n \in 0 .. MaxLen : call.list \in [1 .. n -> ListNumbers]
  BY <1>1 DEF ListCalls
<1>3. n \in Nat /\ n \in Number
  BY <1>2, MaxLenAssumption, BytePowers DEF Number
<1>4. call.list \in [1 .. n -> Number]
  BY <1>2, ListNumbersAssumption
<1>5. call.list \in Seq(Number) /\ Len(call.list) = n
  BY <1>3, <1>4
<1> QED BY <1>3, <1>4, <1>5

LEMMA EndsFacts ==
    ASSUME NEW list, Len(list) \in Nat
    PROVE  /\ Ends(list) \in [0 .. Len(list) -> Nat]
           /\ Ends(list)[0] = get_varint_size(Len(list))
           /\ \A i \in 1 .. Len(list) : Ends(list)[i] = Ends(list)[i - 1] + get_varint_size(list[i])
<1> DEFINE n == Len(list)
           a == get_varint_size(Len(list))
           F == [i \in 0 + 1 .. n |-> [x \in Nat |-> x + get_varint_size(list[i])]]
           AreEnds(e) == e = [i \in 0 .. n |-> IF i = 0 THEN a ELSE e[i - 1] + get_varint_size(list[i])]
           w == CHOOSE e : AreEnds(e)
<1>1. F \in [0 + 1 .. n -> [Nat -> Nat]] /\ a \in Nat
  BY SizeIsNat
<1>2. PICK u0 : Recurs(u0, Nat, a, F, 0, n)
  <2>1. 0 \in Int /\ n \in Int
    OBVIOUS
  <2> HIDE DEF F, n, a
  <2> QED BY <1>1, <2>1, RecursionDefines, Zenon
<1>3. AreEnds(u0) /\ u0 \in [0 .. n -> Nat]
  <2> HIDE DEF F, a
  <2>1. u0 \in [0 .. n -> Nat] /\ u0 = [i \in 0 .. n |-> IF i = 0 THEN a ELSE F[i][u0[i - 1]]]
    BY <1>2 DEF Recurs
  <2>2. ASSUME NEW i \in 0 .. n, i # 0 PROVE F[i][u0[i - 1]] = u0[i - 1] + get_varint_size(list[i])
    <3>1. i \in 0 + 1 .. n /\ i - 1 \in 0 .. n
      BY <2>2
    <3>2. u0[i - 1] \in Nat
      BY <2>1, <3>1
    <3> QED BY <3>1, <3>2 DEF F
  <2> QED BY <2>1, <2>2
<1>4. AreEnds(w)
  <2> HIDE DEF AreEnds
  <2> QED BY <1>3
<1>5. Ends(list) = w
  BY Zenon DEF Ends
<1> HIDE DEF w
<1>6. /\ w[0] = a /\ \A i \in 1 .. n : w[i] = w[i - 1] + get_varint_size(list[i])
      /\ w = [i \in 0 .. n |-> w[i]]
  <2> HIDE DEF a
  <2> QED BY <1>4
<1> DEFINE T == {i \in 0 .. n : w[i] \in Nat}
<1>7. 0 \in T
  BY <1>1, <1>6
<1>8. ASSUME NEW i \in 0 .. n - 1, i \in T PROVE i + 1 \in T
  <2>1. i + 1 \in 1 .. n /\ (i + 1) - 1 = i /\ w[i] \in Nat /\ i + 1 \in 0 .. n
    BY <1>8
  <2>2. w[i + 1] = w[i] + get_varint_size(list[i + 1]) /\ get_varint_size(list[i + 1]) \in Nat
    BY <1>6, <2>1, SizeIsNat
  <2> QED BY <2>1, <2>2
<1>9. 0 .. n \subseteq T
  <2> HIDE DEF T
  <2> QED BY <1>7, <1>8, IntervalInduction, SMTT(30)
<1>10. w \in [0 .. n -> Nat]
  BY <1>6, <1>9
<1> QED BY <1>5, <1>6, <1>10

\* Numbers end one behind the other.
LEMMA EndsRise ==
    ASSUME NEW list, Len(list) \in Nat, NEW l \in 0 .. Len(list), NEW i \in 0 .. l
    PROVE  Ends(list)[i] <= Ends(list)[l]
<1> DEFINE n == Len(list)
           e == Ends(list)
           T == {k \in i .. l : e[i] <= e[k]}
<1>1. /\ e \in [0 .. n -> Nat]
      /\ \A k \in 1 .. n : e[k] = e[k - 1] + get_varint_size(list[k])
  BY EndsFacts
<1> HIDE DEF e
<1>2. i \in T
  BY <1>1
<1>3. ASSUME NEW k \in i .. l - 1, k \in T PROVE k + 1 \in T
  <2>1. k + 1 \in 1 .. n /\ (k + 1) - 1 = k /\ k + 1 \in i .. l /\ k \in 0 .. n /\ k + 1 \in 0 .. n
        /\ i \in 0 .. n
    OBVIOUS
  <2>2. e[k + 1] = e[k] + get_varint_size(list[k + 1])
    BY <1>1, <2>1
  <2>3. e[i] <= e[k] /\ e[k] \in Nat /\ e[i] \in Nat
    BY <1>1, <1>3, <2>1
  <2> QED BY <2>1, <2>2, <2>3, SizeIsNat
<1>4. i .. l \subseteq T
  <2>1. i \in Int /\ l \in Int
    OBVIOUS
  <2> HIDE DEF T
  <2> QED BY <2>1, <1>2, <1>3, IntervalInduction
<1> QED BY <1>4 DEF e

\* Written behind what is there, nothing is overwritten and nothing left out.
LEMMA WriteAppends ==
    ASSUME out \in Seq(Byte), NEW t \in Seq(Byte)
    PROVE  /\ Write(Len(out), t) \in Seq(Byte)
           /\ Len(Write(Len(out), t)) = Len(out) + Len(t)
           /\ \A k \in 1 .. Len(out) : Write(Len(out), t)[k] = out[k]
           /\ \A k \in 1 .. Len(t) : Write(Len(out), t)[Len(out) + k] = t[k]
<1> DEFINE m == Len(out)
           l == Len(t)
           w == Write(m, t)
<1>1. m \in Nat /\ l \in Nat /\ m + l >= m
      /\ (\A k \in 1 .. m : out[k] \in Byte) /\ (\A k \in 1 .. l : t[k] \in Byte)
  OBVIOUS
<1>2. (IF m + l > m THEN m + l ELSE m) = m + l
  BY <1>1
<1>3. w = [k \in 1 .. m + l |-> IF k \in m + 1 .. m + l THEN t[k - m]
                                ELSE IF k <= m THEN out[k] ELSE 0]
  BY <1>2, Zenon DEF Write
<1> HIDE DEF m, l, w
<1>4. \A k \in 1 .. m : w[k] = out[k]
  BY <1>1, <1>3
<1>5. \A k \in 1 .. l : w[m + k] = t[k]
  <2> SUFFICES ASSUME NEW k \in 1 .. l PROVE w[m + k] = t[k]
    OBVIOUS
  <2>1. m + k \in 1 .. m + l /\ m + k \in m + 1 .. m + l /\ (m + k) - m = k
    BY <1>1
  <2> QED BY <1>3, <2>1
<1>6. w \in [1 .. m + l -> Byte]
  <2>1. ASSUME NEW k \in 1 .. m + l
        PROVE  (IF k \in m + 1 .. m + l THEN t[k - m] ELSE IF k <= m THEN out[k] ELSE 0) \in Byte
    <3>1. CASE k \in m + 1 .. m + l
      <4>1. k - m \in 1 .. l
        BY <1>1, <3>1
      <4> QED BY <1>1, <3>1, <4>1
    <3>2. CASE k \notin m + 1 .. m + l
      <4>1. k <= m /\ k \in 1 .. m
        BY <1>1, <3>2
      <4> QED BY <1>1, <3>2, <4>1
    <3> QED BY <3>1, <3>2
  <2> QED BY <1>3, <2>1
<1>7. w \in Seq(Byte) /\ Len(w) = m + l
  <2>1. m + l \in Nat
    BY <1>1
  <2> QED BY <1>6, <2>1
<1> QED BY <1>4, <1>5, <1>7 DEF w, m, l

\* The numbers that a list is made of.
IsList(list) ==
    /\ Len(list) \in Number /\ Len(list) \in Nat
    /\ \A i \in 1 .. Len(list) : list[i] \in Number

LEMMA WrittenFirst ==
    ASSUME NEW list, IsList(list), out = <<>>, out' = Write(0, encodeVarint(Len(list)))
    PROVE  Written(list, 0)'
<1> DEFINE t == encodeVarint(Len(list))
           w == Write(Len(out), t)
<1>1. Len(list) \in Nat /\ t \in Seq(Byte) /\ Len(t) = get_varint_size(Len(list))
  BY EncodedBytes DEF IsList
<1>2. out \in Seq(Byte) /\ Len(out) = 0 /\ out' = w
  OBVIOUS
<1> HIDE DEF t, w
<1>3. /\ w \in Seq(Byte) /\ Len(w) = 0 + Len(t)
      /\ \A k \in 1 .. Len(t) : w[0 + k] = t[k]
  BY <1>1, <1>2, WriteAppends DEF w
<1>4. Ends(list)[0] = get_varint_size(Len(list))
  BY <1>1, EndsFacts
<1>5. get_varint_size(Len(list)) \in Nat
  BY SizeIsNat
<1>6. w \in Seq(Byte) /\ Len(w) = Ends(list)[0] /\ \A k \in 1 .. get_varint_size(Len(list)) : w[k] = t[k]
  BY <1>1, <1>3, <1>4, <1>5
<1> QED BY <1>2, <1>6 DEF Written, t

LEMMA WrittenNext ==
    ASSUME NEW list, IsList(list), NEW k \in 0 .. Len(list) - 1, Written(list, k),
           out' = Write(Len(out), encodeVarint(list[k + 1]))
    PROVE  Written(list, k + 1)'
<1> DEFINE n == Len(list)
           e == Ends(list)
           g(i) == get_varint_size(list[i])
           t == encodeVarint(list[k + 1])
           w == Write(Len(out), t)
<1>1. n \in Nat /\ k + 1 \in 1 .. n /\ k \in Nat /\ k \in 0 .. n
  BY DEF IsList
<1>2. t \in Seq(Byte) /\ Len(t) = g(k + 1)
  BY <1>1, EncodedBytes DEF IsList
<1>3. out \in Seq(Byte) /\ Len(out) = e[k] /\ out' = w
  BY DEF Written
<1>4. /\ w \in Seq(Byte) /\ Len(w) = Len(out) + Len(t)
      /\ \A j0 \in 1 .. Len(out) : w[j0] = out[j0]
      /\ \A j0 \in 1 .. Len(t) : w[Len(out) + j0] = t[j0]
  BY <1>2, <1>3, WriteAppends
<1> HIDE DEF w
<1>5. e \in [0 .. n -> Nat] /\ e[0] = get_varint_size(n) /\ \A i \in 1 .. n : e[i] = e[i - 1] + g(i)
  BY <1>1, EndsFacts
<1>6. get_varint_size(n) \in Nat /\ \A i \in 1 .. n : g(i) \in Nat
  BY SizeIsNat
<1>7. \A i \in 0 .. k : e[i] <= e[k]
  BY <1>1, EndsRise
<1> HIDE DEF n, e, g, t
<1>8. Len(w) = e[k + 1]
  <2>1. e[k + 1] = e[(k + 1) - 1] + g(k + 1) /\ (k + 1) - 1 = k
    BY <1>1, <1>5
  <2> QED BY <1>2, <1>3, <1>4, <2>1
<1>9. \A j0 \in 1 .. get_varint_size(n) : w[j0] = encodeVarint(n)[j0]
  <2> SUFFICES ASSUME NEW j0 \in 1 .. get_varint_size(n) PROVE w[j0] = encodeVarint(n)[j0]
    OBVIOUS
  <2>1. e[0] <= e[k] /\ e[0] = get_varint_size(n) /\ e[k] \in Nat
    BY <1>1, <1>5, <1>7
  <2>2. j0 \in 1 .. Len(out)
    BY <1>3, <1>6, <2>1
  <2>3. out[j0] = encodeVarint(n)[j0]
    BY DEF Written, n
  <2> QED BY <1>4, <2>2, <2>3
<1>10. \A i \in 1 .. k + 1 : \A j0 \in 1 .. g(i) : w[e[i - 1] + j0] = encodeVarint(list[i])[j0]
  <2> SUFFICES ASSUME NEW i \in 1 .. k + 1, NEW j0 \in 1 .. g(i)
               PROVE  w[e[i - 1] + j0] = encodeVarint(list[i])[j0]
    OBVIOUS
  <2>1. CASE i = k + 1
    <3>1. e[i - 1] = Len(out) /\ j0 \in 1 .. Len(t)
      BY <1>1, <1>2, <1>3, <2>1
    <3> QED BY <1>4, <2>1, <3>1 DEF t
  <2>2. CASE i # k + 1
    <3>1. i \in 1 .. k /\ i \in 1 .. n /\ i - 1 \in 0 .. n /\ i \in 0 .. n /\ i \in 0 .. k
      BY <1>1, <2>2
    <3>2. e[i] = e[i - 1] + g(i) /\ e[i] <= e[k] /\ e[i - 1] \in Nat /\ g(i) \in Nat /\ e[k] \in Nat
      BY <1>1, <1>5, <1>6, <1>7, <3>1
    <3>3. e[i - 1] + j0 \in 1 .. Len(out)
      BY <1>3, <3>2
    <3>4. out[e[i - 1] + j0] = encodeVarint(list[i])[j0]
      BY <3>1 DEF Written, e, g
    <3> QED BY <1>4, <3>3, <3>4
  <2> QED BY <2>1, <2>2
<1> QED BY <1>3, <1>4, <1>8, <1>9, <1>10 DEF Written, e, g, n

\* What has been written is read: the count, and behind k numbers the next.
LEMMA CountReadsBack ==
    ASSUME NEW list, IsList(list), NEW k, Written(list, k)
    PROVE  decodeVarint(out, 1) = [value |-> Len(list), size |-> get_varint_size(Len(list))]
<1> DEFINE n == Len(list)
<1>1. n \in Number
  BY DEF IsList
<1>2. \A j0 \in 1 .. get_varint_size(n) : out[1 + j0 - 1] = encodeVarint(n)[j0]
  <2> SUFFICES ASSUME NEW j0 \in 1 .. get_varint_size(n) PROVE out[1 + j0 - 1] = encodeVarint(n)[j0]
    OBVIOUS
  <2>1. 1 + j0 - 1 = j0
    OBVIOUS
  <2>2. out[j0] = encodeVarint(n)[j0]
    BY DEF Written
  <2> QED BY <2>1, <2>2
<1>3. 1 \in Int
  OBVIOUS
<1> HIDE DEF n
<1>4. decodeVarint(out, 1) = [value |-> n, size |-> get_varint_size(n)]
  BY <1>1, <1>2, <1>3, VarintReadsBack
<1> QED BY <1>4 DEF n

LEMMA NumberReadsBack ==
    ASSUME NEW list, IsList(list), NEW k \in 1 .. Len(list), Written(list, Len(list))
    PROVE  decodeVarint(out, Ends(list)[k - 1] + 1) = [value |-> list[k], size |-> get_varint_size(list[k])]
<1> DEFINE u0 == list[k]
           i == Ends(list)[k - 1] + 1
<1>1. u0 \in Number /\ Len(list) \in Nat
  BY DEF IsList
<1>2. i \in Int /\ Ends(list)[k - 1] \in Int
  <2>1. k - 1 \in 0 .. Len(list)
    BY <1>1
  <2>2. Ends(list)[k - 1] \in Nat
    BY <1>1, <2>1, EndsFacts
  <2> QED BY <2>2
<1>3. \A j0 \in 1 .. get_varint_size(u0) : out[i + j0 - 1] = encodeVarint(u0)[j0]
  <2> SUFFICES ASSUME NEW j0 \in 1 .. get_varint_size(u0) PROVE out[i + j0 - 1] = encodeVarint(u0)[j0]
    OBVIOUS
  <2>1. i + j0 - 1 = Ends(list)[k - 1] + j0
    BY <1>2
  <2>2. out[Ends(list)[k - 1] + j0] = encodeVarint(u0)[j0]
    BY DEF Written
  <2> QED BY <2>1, <2>2
<1> HIDE DEF u0, i
<1>4. decodeVarint(out, i) = [value |-> u0, size |-> get_varint_size(u0)]
  BY <1>1, <1>2, <1>3, VarintReadsBack
<1> QED BY <1>4 DEF u0, i

LEMMA ListInit == ASSUME Init PROVE ListInv
BY DEF Init, Idle, ListInv, AtList, ListPlaces

\* Every step of the three loops keeps to the ends.
LEMMA ListStepKeeps ==
    ASSUME WhereInv, ListInv, ListNext, call' = call
    PROVE  ListInv'
<1> DEFINE list == call.list
           n == Len(list)
           e == Ends(list)
<1>1. call.f = "list" /\ AtList
  BY ListCall DEF ListInv
<1>2. IsList(list) /\ list \in Seq(Number) /\ n \in Nat
  BY <1>1, ListFacts DEF IsList
<1>3. /\ e \in [0 .. n -> Nat] /\ e[0] = get_varint_size(n)
      /\ \A i \in 1 .. n : e[i] = e[i - 1] + get_varint_size(list[i])
  BY <1>2, EndsFacts
<1> SUFFICES AtList'
  BY <1>1 DEF ListInv
<1>4. CASE MeasureLength
  <2>1. /\ pc' = "size" /\ taken' = 0 /\ size' = e[0] /\ out' = <<>> /\ offset' = 0 /\ got' = <<>>
    BY <1>1, <1>3, <1>4 DEF MeasureLength, Called, AtList, ListIdle
  <2>2. 0 \in 0 .. n
    BY <1>2
  <2> QED BY <2>1, <2>2 DEF AtList, ListPlaces
<1>5. CASE Measure
  <2>1. /\ pc' = "size" /\ taken \in 0 .. n /\ taken < n /\ taken' = taken + 1
        /\ size' = e[taken] + get_varint_size(list[taken + 1])
        /\ out' = <<>> /\ offset' = 0 /\ got' = <<>>
    BY <1>1, <1>5 DEF Measure, AtList
  <2>2. taken + 1 \in 1 .. n /\ (taken + 1) - 1 = taken /\ taken + 1 \in 0 .. n
    BY <1>2, <2>1
  <2>3. size' = e[taken']
    BY <1>3, <2>1, <2>2
  <2> QED BY <2>1, <2>2, <2>3 DEF AtList, ListPlaces
<1>6. CASE EncodeLength
  <2>1. /\ pc' = "encode" /\ taken = n /\ taken' = 0 /\ size' = e[n] /\ out = <<>>
        /\ out' = Write(0, encodeVarint(n)) /\ offset' = e[0] /\ got' = <<>>
    BY <1>1, <1>3, <1>6 DEF EncodeLength, AtList
  <2>2. Written(list, 0)'
    BY <1>2, <2>1, WrittenFirst
  <2>3. 0 \in 0 .. n
    BY <1>2
  <2> QED BY <2>1, <2>2, <2>3 DEF AtList, ListPlaces
<1>7. CASE EncodeNumber
  <2>1. /\ pc' = "encode" /\ taken \in 0 .. n /\ taken < n /\ taken' = taken + 1 /\ size' = e[n]
        /\ Written(list, taken) /\ offset = e[taken]
        /\ out' = Write(offset, encodeVarint(list[taken + 1]))
        /\ offset' = e[taken] + get_varint_size(list[taken + 1]) /\ got' = <<>>
    BY <1>1, <1>7 DEF EncodeNumber, AtList
  <2>2. taken + 1 \in 1 .. n /\ (taken + 1) - 1 = taken /\ taken + 1 \in 0 .. n /\ taken \in 0 .. n - 1
    BY <1>2, <2>1
  <2>3. offset' = e[taken']
    BY <1>3, <2>1, <2>2
  <2>4. offset = Len(out)
    BY <2>1 DEF Written
  <2>5. Written(list, taken)'
    <3>1. \E l, k : /\ l = list /\ k = taken /\ IsList(l) /\ k \in 0 .. Len(l) - 1 /\ Written(l, k)
                   /\ out' = Write(Len(out), encodeVarint(l[k + 1]))
      BY <1>2, <2>1, <2>2, <2>4
    <3>2. PICK l, k : /\ l = list /\ k = taken /\ IsList(l) /\ k \in 0 .. Len(l) - 1 /\ Written(l, k)
                      /\ out' = Write(Len(out), encodeVarint(l[k + 1]))
      BY <3>1
    <3>3. Written(l, k + 1)'
      BY <3>2, WrittenNext
    <3>4. call'.list = l /\ taken' = k + 1
      BY <2>1, <3>2
    <3> QED BY <3>3, <3>4 DEF Written
  <2> QED BY <2>1, <2>2, <2>3, <2>5 DEF AtList, ListPlaces
<1>8. CASE DecodeLength
  <2>1. /\ pc' = "decode" /\ taken = n /\ size' = e[n] /\ Written(list, n) /\ out' = out
        /\ got' = <<>> /\ got = <<>>
        /\ offset' = decodeVarint(out, 1).size /\ taken' = decodeVarint(out, 1).value
    BY <1>1, <1>8 DEF DecodeLength, AtList
  <2>2. offset' = e[0] /\ taken' = n
    BY <1>2, <1>3, <2>1, CountReadsBack
  <2>3. Written(list, n)'
    BY <2>1 DEF Written
  <2>4. Len(got') = 0 /\ 0 \in 0 .. n /\ got' = SubSeq(list, 1, Len(got'))
    BY <1>2, <2>1, SubSeqEmpty
  <2> QED BY <2>1, <2>2, <2>3, <2>4 DEF AtList, ListPlaces
<1>9. CASE DecodeNumber
  <2> DEFINE k == Len(got) + 1
  <2>1. /\ pc' = "decode" /\ taken = n /\ taken' = n /\ size' = e[n] /\ Written(list, n) /\ out' = out
        /\ Len(got) < n /\ Len(got) \in 0 .. n /\ got = SubSeq(list, 1, Len(got)) /\ offset = e[Len(got)]
        /\ got' = Append(got, decodeVarint(out, offset + 1).value)
        /\ offset' = offset + decodeVarint(out, offset + 1).size
    BY <1>1, <1>9 DEF DecodeNumber, AtList
  <2>2. k \in 1 .. n /\ k - 1 = Len(got) /\ k - 1 \in 0 .. n /\ k \in 0 .. n
    BY <1>2, <2>1
  <2>3. decodeVarint(out, offset + 1) = [value |-> list[k], size |-> get_varint_size(list[k])]
    <3>1. decodeVarint(out, e[k - 1] + 1) = [value |-> list[k], size |-> get_varint_size(list[k])]
      <4> HIDE DEF k, list
      <4> QED BY <1>2, <2>1, <2>2, NumberReadsBack
    <3> QED BY <2>1, <2>2, <3>1
  <2>4. got' = Append(SubSeq(list, 1, k - 1), list[k]) /\ offset' = e[k]
    BY <1>3, <2>1, <2>2, <2>3
  <2>5. got' = SubSeq(list, 1, k) /\ Len(got') = k
    <3> HIDE DEF k, list
    <3>1. SubSeq(list, 1, k) = SubSeq(list, 1, k - 1) \o <<list[k]>>
      <4>1. 1 \in 1 .. Len(list) /\ k \in 1 .. Len(list)
        BY <1>2, <2>2
      <4> QED BY <1>2, <4>1, SubSeqRecursiveSecond
    <3>2. SubSeq(list, 1, k - 1) \in Seq(Number) /\ list[k] \in Number
      <4>1. \A i \in 1 .. k - 1 : list[i] \in Number
        BY <1>2, <2>2
      <4>2. 1 \in Int /\ k - 1 \in Int
        BY <2>2
      <4> QED BY <1>2, <2>2, <4>1, <4>2, SubSeqProperties
    <3>3. got' = SubSeq(list, 1, k)
      BY <2>4, <3>1, <3>2, AppendIsConcat
    <3>4. Len(SubSeq(list, 1, k)) = k
      BY <1>2, <2>2
    <3> QED BY <3>3, <3>4
  <2>6. Written(list, n)'
    BY <2>1 DEF Written
  <2> HIDE DEF k
  <2> QED BY <2>1, <2>2, <2>4, <2>5, <2>6 DEF AtList, ListPlaces
<1>10. CASE EndOfList
  <2>1. /\ pc = "decode" /\ pc' = "return" /\ Len(got) = taken /\ got' = got /\ taken' = taken
        /\ size' = size /\ out' = out /\ offset' = offset
    BY <1>10 DEF EndOfList, Return, listVars
  <2> QED BY <1>1, <2>1 DEF AtList, ListPlaces, Written
<1> QED BY <1>4, <1>5, <1>6, <1>7, <1>8, <1>9, <1>10 DEF ListNext

LEMMA ListNextKeeps ==
    ASSUME ListInv, WhereInv, TwisterInv, [Next]_vars
    PROVE  ListInv'
<1>1. call' = call
  BY CallStays
<1>2. CASE ListNext
  BY <1>1, <1>2, ListStepKeeps
<1>3. CASE UNCHANGED listVars /\ (call.f # "list" \/ UNCHANGED <<call, pc>>)
  <2>1. taken' = taken /\ size' = size /\ out' = out /\ offset' = offset /\ got' = got
    BY <1>3 DEF listVars
  <2>2. CASE pc' = pc
    BY <1>1, <2>1, <2>2 DEF ListInv, AtList, Written, ListIdle
  <2>3. CASE call.f # "list"
    BY <1>1, <2>1, <2>3 DEF ListInv, ListIdle
  <2> QED BY <1>3, <2>2, <2>3
<1> QED BY <1>2, <1>3, OnlyList

LEMMA ListGood ==
    ASSUME ListInv, WhereInv
    PROVE  ListTypeOK /\ ListReadsBack
<1> DEFINE list == call.list
           n == Len(list)
           e == Ends(list)
<1>1. CASE call.f # "list"
  <2>1. taken = 0 /\ size = 0 /\ out = <<>> /\ offset = 0 /\ got = <<>>
    BY <1>1 DEF ListInv, ListIdle
  <2>2. pc \notin ListPlaces
    BY <1>1 DEF WhereInv, PlaceKnown
  <2> QED BY <1>1, <2>1, <2>2 DEF ListTypeOK, ListReadsBack, SizesAgree, Returned, ListPlaces
<1>2. CASE call.f = "list"
  <2>1. AtList /\ IsList(list) /\ list \in Seq(Number) /\ n \in Nat
    BY <1>2, ListFacts DEF ListInv, IsList
  <2>2. /\ e \in [0 .. n -> Nat]
        /\ \A i \in 0 .. n : e[i] <= e[n]
    BY <2>1, EndsFacts, EndsRise
  <2>3. \A k \in 0 .. n : SubSeq(list, 1, k) \in Seq(Number)
    <3> SUFFICES ASSUME NEW k \in 0 .. n PROVE SubSeq(list, 1, k) \in Seq(Number)
      OBVIOUS
    <3>1. 1 \in Int /\ k \in Int /\ \A i \in 1 .. k : list[i] \in Number
      BY <2>1
    <3> QED BY <3>1, SubSeqProperties
  <2>4. SubSeq(list, 1, n) = list
    BY <2>1, SubSeqFull
  <2> HIDE DEF e, list, n
  <2>5. CASE pc = "call"
    BY <2>1, <2>5 DEF AtList, ListIdle, ListTypeOK, ListReadsBack, SizesAgree, Returned
  <2>6. CASE pc = "size"
    <3>1. taken \in 0 .. n /\ size = e[taken] /\ out = <<>> /\ offset = 0 /\ got = <<>>
      BY <2>1, <2>6 DEF AtList, e, n, list
    <3>2. taken \in Nat /\ size \in Nat
      BY <2>1, <2>2, <3>1
    <3> QED BY <2>6, <3>1, <3>2 DEF ListTypeOK, ListReadsBack, SizesAgree, Returned
  <2>7. CASE pc = "encode"
    <3>1. /\ taken \in 0 .. n /\ size = e[n] /\ out \in Seq(Byte) /\ Len(out) = e[taken]
          /\ offset = e[taken] /\ got = <<>> /\ n = Len(call.list)
      BY <2>1, <2>7 DEF AtList, Written, e, n, list
    <3>2. taken \in Nat /\ n \in 0 .. n /\ e[taken] \in Nat /\ e[n] \in Nat /\ e[taken] <= e[n]
      BY <2>1, <2>2, <3>1
    <3> QED BY <2>7, <3>1, <3>2 DEF ListTypeOK, ListReadsBack, SizesAgree, Returned
  <2>8. CASE pc \in {"decode", "return"}
    <3>1. /\ taken = n /\ size = e[n] /\ out \in Seq(Byte) /\ Len(out) = e[n]
          /\ Len(got) \in 0 .. n /\ got = SubSeq(list, 1, Len(got)) /\ offset = e[Len(got)]
          /\ (pc = "return" => Len(got) = n) /\ n = Len(call.list) /\ list = call.list
      BY <2>1, <2>8 DEF AtList, Written, e, n, list
    <3>2. n \in 0 .. n /\ e[Len(got)] \in Nat /\ e[n] \in Nat /\ e[Len(got)] <= e[n]
      BY <2>1, <2>2, <3>1
    <3>3. got \in Seq(Number) /\ (pc = "return" => got = list)
      BY <2>3, <2>4, <3>1
    <3> QED BY <2>1, <2>8, <3>1, <3>2, <3>3 DEF ListTypeOK, ListReadsBack, SizesAgree, Returned
  <2> QED BY <2>1, <2>5, <2>6, <2>7, <2>8 DEF AtList, ListPlaces
<1> QED BY <1>1, <1>2

LEMMA ListAlways == Spec => []ListInv
<1>1. Init => ListInv
  BY ListInit
<1>2. ListInv /\ WhereInv /\ TwisterInv /\ [Next]_vars => ListInv'
  BY ListNextKeeps
<1> QED BY <1>1, <1>2, TwisterCorrect, Where, PTL DEF Spec

\* The three loops agree on where every number of a list ends, so the block is
\* measured right and filled, and the list that is read is the list that was sent:
\* for lists of any length and all numbers of 64 bits.
THEOREM ListCorrect == Spec => [](ListTypeOK /\ ListReadsBack)
<1>1. ListInv /\ WhereInv => ListTypeOK /\ ListReadsBack
  BY ListGood
<1> QED BY <1>1, ListAlways, Where, PTL

-----------------------------------------------------------------------------
(* base58encode: the division *)

\* The first of m .. n that is not in T, or n.
FirstOf(k, T, m, n) == k \in m .. n /\ (\A i \in m .. k - 1 : i \in T) /\ (k = n \/ k \notin T)

LEMMA FirstOutside ==
    ASSUME NEW T, NEW m \in Int, NEW n \in Int, m <= n
    PROVE  \E k : FirstOf(k, T, m, n)
<1> SUFFICES ASSUME \A k \in m .. n : (\A i \in m .. k - 1 : i \in T) => k # n /\ k \in T
             PROVE  FALSE
  BY DEF FirstOf
<1> DEFINE U == {k \in m .. n : \A i \in m .. k - 1 : i \in T}
<1>1. m \in U
  OBVIOUS
<1>2. ASSUME NEW k \in m .. n - 1, k \in U PROVE k + 1 \in U
  <2>1. k \in m .. n /\ k + 1 \in m .. n /\ k \in T /\ \A i \in m .. k - 1 : i \in T
    BY <1>2
  <2>2. \A i \in m .. (k + 1) - 1 : i \in m .. k - 1 \/ i = k
    OBVIOUS
  <2> QED BY <2>1, <2>2
<1> HIDE DEF U
<1>3. m .. n \subseteq U
  BY <1>1, <1>2, IntervalInduction
<1> QED BY <1>3 DEF U

LEMMA LeadingZerosIs ==
    ASSUME NEW z, Len(z) \in Nat
    PROVE  /\ LeadingZeros(z) \in 0 .. Len(z)
           /\ \A i \in 1 .. LeadingZeros(z) : z[i] = 0
           /\ LeadingZeros(z) = Len(z) \/ z[LeadingZeros(z) + 1] # 0
<1> DEFINE T == {i \in 1 .. Len(z) : z[i] = 0}
           P(k) == (\A i \in 1 .. k : z[i] = 0) /\ (k = Len(z) \/ z[k + 1] # 0)
<1>1. 1 <= Len(z) + 1 /\ Len(z) + 1 \in Int
  OBVIOUS
<1> HIDE DEF T
<1>2. PICK k : FirstOf(k, T, 1, Len(z) + 1)
  <2>1. 1 \in Int
    OBVIOUS
  <2> QED BY <1>1, <2>1, FirstOutside, Zenon
<1> USE DEF T, FirstOf
<1>3. k - 1 \in 0 .. Len(z) /\ P(k - 1)
  BY <1>2
<1> HIDE DEF P
<1>4. LeadingZeros(z) = CHOOSE n \in 0 .. Len(z) : P(n)
  BY DEF LeadingZeros, P
<1>5. LeadingZeros(z) \in 0 .. Len(z) /\ P(LeadingZeros(z))
  BY <1>3, <1>4
<1> QED BY <1>5 DEF P

LEMMA SkipZerosIs ==
    ASSUME templen \in Nat, NEW k \in 0 .. templen
    PROVE  /\ SkipZeros(k) \in k .. templen
           /\ \A i \in k .. SkipZeros(k) - 1 : temp[i] = 0
           /\ SkipZeros(k) = templen \/ temp[SkipZeros(k)] # 0
<1> DEFINE T == {i \in 0 .. templen - 1 : temp[i] = 0}
           P(l) == (\A i \in k .. l - 1 : temp[i] = 0) /\ (l = templen \/ temp[l] # 0)
<1> HIDE DEF T
<1>2. PICK l : FirstOf(l, T, k, templen)
  <2>1. k \in Int /\ templen \in Int /\ k <= templen
    OBVIOUS
  <2> QED BY <2>1, FirstOutside, Zenon
<1> USE DEF T, FirstOf
<1>3. l \in k .. templen /\ P(l)
  BY <1>2
<1> HIDE DEF P
<1>4. SkipZeros(k) = CHOOSE x \in k .. templen : P(x)
  BY DEF SkipZeros, P
<1>5. SkipZeros(k) \in k .. templen /\ P(SkipZeros(k))
  BY <1>3, <1>4
<1> QED BY <1>5 DEF P

\* What is left at each byte.
Remainders(w, number, from) ==
    /\ w \in [from - 1 .. Len(number) - 1 -> 0 .. D - 1]
    /\ w[from - 1] = 0
    /\ \A i \in from .. Len(number) - 1 : w[i] = (w[i - 1] * B + number[i + 1]) % D
    /\ \A i \in from - 1 .. Len(number) - 1 : remainder(number, from, i) = w[i]

LEMMA RemaindersAre ==
    ASSUME NEW number \in Seq(Byte), NEW from \in 0 .. Len(number)
    PROVE  \E w : Remainders(w, number, from)
<1> DEFINE last == Len(number) - 1
           F == [i \in from .. last |-> [x \in 0 .. D - 1 |-> (x * B + number[i + 1]) % D]]
<1>0. /\ Len(number) \in Nat /\ last \in Int /\ from \in Int /\ from - 1 \in Int /\ from - 1 <= last
      /\ B \in Nat /\ D \in Nat /\ D > 0 /\ 0 \in 0 .. D - 1
  BY BaseAssumption, ScratchAssumption
<1>1. F \in [from .. last -> [0 .. D - 1 -> 0 .. D - 1]]
  <2> SUFFICES ASSUME NEW i \in from .. last, NEW x \in 0 .. D - 1
               PROVE  (x * B + number[i + 1]) % D \in 0 .. D - 1
    OBVIOUS
  <2>1. number[i + 1] \in Int
    BY <1>0 DEF Byte
  <2> DEFINE y == x * B + number[i + 1]
  <2>2. y \in Int
    BY <1>0, <2>1
  <2> HIDE DEF y
  <2>3. y % D \in 0 .. D - 1
    BY <1>0, <2>2
  <2> QED BY <2>3 DEF y
<1> HIDE DEF F
<1>2. PICK w : Recurs(w, 0 .. D - 1, 0, F, from - 1, last)
  <2>1. F \in [(from - 1) + 1 .. last -> [0 .. D - 1 -> 0 .. D - 1]]
    BY <1>0, <1>1
  <2> HIDE DEF last
  <2> QED BY <1>0, <2>1, RecursionDefines
<1>3. /\ w \in [from - 1 .. last -> 0 .. D - 1]
      /\ w[from - 1] = 0
      /\ \A i \in from .. last : w[i] = F[i][w[i - 1]]
  <2>1. /\ w \in [from - 1 .. last -> 0 .. D - 1]
        /\ w = [i \in from - 1 .. last |-> IF i = from - 1 THEN 0 ELSE F[i][w[i - 1]]]
    BY <1>2 DEF Recurs
  <2>2. from - 1 \in from - 1 .. last /\ \A i \in from .. last : i \in from - 1 .. last /\ i # from - 1
    BY <1>0
  <2> HIDE DEF last
  <2>3. w[from - 1] = 0
    BY <2>1, <2>2
  <2>4. ASSUME NEW i \in from .. last PROVE w[i] = F[i][w[i - 1]]
    BY <2>1, <2>2
  <2> QED BY <2>1, <2>3, <2>4
<1>4. \A i \in from .. last : w[i] = (w[i - 1] * B + number[i + 1]) % D
  <2> SUFFICES ASSUME NEW i \in from .. last PROVE w[i] = (w[i - 1] * B + number[i + 1]) % D
    OBVIOUS
  <2>1. i - 1 \in from - 1 .. last
    BY <1>0
  <2>2. w[i - 1] \in 0 .. D - 1 /\ w[i] = F[i][w[i - 1]]
    BY <1>3, <2>1
  <2> QED BY <2>2 DEF F
<1>5. ASSUME NEW i \in from - 1 .. last PROVE remainder(number, from, i) = w[i]
  <2> DEFINE IsRem(f) ==
               f = [k \in from - 1 .. i |->
                     IF k < from THEN 0 ELSE (f[k - 1] * B + number[k + 1]) % D]
             r0 == [k \in from - 1 .. i |-> w[k]]
             r1 == CHOOSE f : IsRem(f)
  <2>1. IsRem(r0)
    <3> SUFFICES ASSUME NEW k \in from - 1 .. i
                 PROVE  w[k] = IF k < from THEN 0 ELSE (r0[k - 1] * B + number[k + 1]) % D
      BY Zenon
    <3>1. CASE k < from
      <4>1. k = from - 1
        BY <1>0, <3>1
      <4> QED BY <1>3, <3>1, <4>1
    <3>2. CASE ~(k < from)
      <4>1. k - 1 \in from - 1 .. i /\ k \in from .. last
        BY <1>0, <3>2
      <4> QED BY <1>4, <3>2, <4>1
    <3> QED BY <3>1, <3>2
  <2> HIDE DEF r0
  <2>2. IsRem(r1)
    <3> HIDE DEF IsRem
    <3> QED BY <2>1
  <2>3. remainder(number, from, i) = r1[i]
    BY Zenon DEF remainder
  <2> HIDE DEF r1
  <2> DEFINE T == {k \in from - 1 .. i : r1[k] = w[k]}
  <2>4. from - 1 \in T
    BY <1>0, <1>3, <2>2
  <2>5. ASSUME NEW k \in from - 1 .. i - 1, k \in T PROVE k + 1 \in T
    <3>1. k + 1 \in from .. i /\ k + 1 \in from - 1 .. i /\ k + 1 \in from .. last /\ (k + 1) - 1 = k
      BY <1>0
    <3>2. r1[k + 1] = (r1[k] * B + number[(k + 1) + 1]) % D
      <4>1. ~(k + 1 < from)
        BY <1>0, <3>1
      <4> QED BY <2>2, <3>1, <4>1
    <3>3. w[k + 1] = (w[k] * B + number[(k + 1) + 1]) % D
      BY <1>4, <3>1
    <3> QED BY <2>5, <3>1, <3>2, <3>3
  <2> HIDE DEF T
  <2>6. from - 1 .. i \subseteq T
    BY <1>0, <2>4, <2>5, IntervalInduction
  <2>7. i \in T
    BY <1>0, <2>6
  <2> QED BY <2>3, <2>7 DEF T
<1> QED BY <1>3, <1>4, <1>5 DEF Remainders

\* Digits that are zeros stand for nothing.
LEMMA ZerosNothing ==
    ASSUME NEW f, NEW b \in Int, NEW m \in Int, NEW n \in Int, m <= n, \A i \in m + 1 .. n : f[i] = 0
    PROVE  Numeral(f, b, m, n) = 0
<1> DEFINE v == [i \in m .. n |-> 0]
<1>1. AreInts(f, m, n)
  BY DEF AreInts
<1>2. v[m] = 0 /\ v[n] = 0 /\ \A i \in m + 1 .. n : v[i] = v[i - 1] * b + f[i]
  OBVIOUS
<1> HIDE DEF v
<1>3. v[n] = Numeral(f, b, m, n)
  BY <1>1, <1>2, NumeralIs
<1> QED BY <1>2, <1>3

LEMMA QuotientByte ==
    ASSUME NEW r0 \in 0 .. D - 1, NEW d \in Byte
    PROVE  /\ (r0 * B + d) \div D \in Byte
           /\ r0 * B + d = ((r0 * B + d) \div D) * D + ((r0 * B + d) % D)
<1> DEFINE y == r0 * B + d
           q == y \div D
<1>1. D \in Nat /\ D > 0 /\ B \in Nat /\ r0 \in Nat /\ d \in Nat /\ d < B /\ r0 <= D - 1
  BY ScratchAssumption, BaseAssumption DEF Byte
<1>2. y \in Nat
  BY <1>1
<1>3. y < D * B
  <2>1. r0 * B <= (D - 1) * B
    BY <1>1
  <2>2. (D - 1) * B = D * B - B
    BY <1>1
  <2> QED BY <1>1, <2>1, <2>2
<1> HIDE DEF y
<1>4. q \in Nat /\ y % D \in 0 .. D - 1 /\ y = q * D + (y % D)
  BY <1>1, <1>2, DivisionLeaves
<1>5. q < B
  <2> HIDE DEF q
  <2> SUFFICES ASSUME q >= B PROVE FALSE
    BY <1>1, <1>4
  <2>1. q * D >= B * D
    BY <1>1, <1>4
  <2> QED BY <1>1, <1>3, <1>4, <2>1
<1>6. q \in Byte
  BY <1>1, <1>4, <1>5 DEF Byte
<1> QED BY <1>4, <1>6 DEF y

\* The digit of the quotient at n.
LEMMA QuotientDigit ==
    ASSUME NEW number \in Seq(Byte), NEW from \in 0 .. Len(number), NEW w, Remainders(w, number, from)
    PROVE  /\ quotient(number, from) \in Seq(Byte)
           /\ Len(quotient(number, from)) = Len(number)
           /\ \A n \in 1 .. from : quotient(number, from)[n] = number[n]
           /\ \A n \in from + 1 .. Len(number) :
                 /\ quotient(number, from)[n] = (w[n - 2] * B + number[n]) \div D
                 /\ w[n - 2] * B + number[n] = quotient(number, from)[n] * D + w[n - 1]
<1> DEFINE q == quotient(number, from)
           last == Len(number) - 1
<1>0. Len(number) \in Nat /\ last \in Int /\ from \in Int /\ DOMAIN number = 1 .. Len(number)
  OBVIOUS
<1>1. /\ w \in [from - 1 .. last -> 0 .. D - 1]
      /\ w[from - 1] = 0
      /\ \A i \in from .. last : w[i] = (w[i - 1] * B + number[i + 1]) % D
      /\ \A i \in from - 1 .. last : remainder(number, from, i) = w[i]
  BY DEF Remainders
<1>2. ASSUME NEW n \in from + 1 .. Len(number)
      PROVE  q[n] = (w[n - 2] * B + number[n]) \div D
  <2>1. n - 2 \in from - 1 .. last /\ n \in 1 .. Len(number) /\ ~(n <= from)
    BY <1>0
  <2>2. q[n] = ((IF n = from + 1 THEN 0 ELSE remainder(number, from, n - 2)) * B + number[n]) \div D
    BY <1>0, <2>1 DEF quotient
  <2>3. (IF n = from + 1 THEN 0 ELSE remainder(number, from, n - 2)) = w[n - 2]
    <3>1. n = from + 1 => n - 2 = from - 1
      BY <1>0
    <3> QED BY <1>1, <2>1, <3>1
  <2> QED BY <2>2, <2>3
<1>3. ASSUME NEW n \in from + 1 .. Len(number)
      PROVE  q[n] \in Byte /\ w[n - 2] * B + number[n] = q[n] * D + w[n - 1]
  <2>1. n - 2 \in from - 1 .. last /\ n - 1 \in from .. last /\ (n - 1) - 1 = n - 2 /\ (n - 1) + 1 = n
        /\ n \in 1 .. Len(number)
    BY <1>0
  <2>2. w[n - 2] \in 0 .. D - 1 /\ number[n] \in Byte
    <3>1. w[n - 2] \in 0 .. D - 1
      BY <1>1, <2>1
    <3>2. number[n] \in Byte
      BY <2>1
    <3> QED BY <3>1, <3>2
  <2>3. w[n - 1] = (w[n - 2] * B + number[n]) % D
    BY <1>1, <2>1
  <2> DEFINE r0 == w[n - 2]
             d == number[n]
  <2> HIDE DEF q
  <2>4. /\ (r0 * B + d) \div D \in Byte
        /\ r0 * B + d = ((r0 * B + d) \div D) * D + ((r0 * B + d) % D)
    <3>1. r0 \in 0 .. D - 1 /\ d \in Byte
      BY <2>2
    <3> HIDE DEF r0, d
    <3> QED BY <3>1, QuotientByte
  <2>5. q[n] = (r0 * B + d) \div D /\ w[n - 1] = (r0 * B + d) % D
    BY <1>2, <2>3
  <2> QED BY <2>4, <2>5
<1>4. ASSUME NEW n \in 1 .. from PROVE q[n] = number[n]
  <2>1. n \in 1 .. Len(number) /\ n <= from
    BY <1>0
  <2> QED BY <1>0, <2>1 DEF quotient
<1>5. q \in [1 .. Len(number) -> Byte]
  <2>1. q = [n \in 1 .. Len(number) |-> q[n]]
    BY <1>0 DEF quotient
  <2> HIDE DEF q
  <2>2. \A n \in 1 .. Len(number) : q[n] \in Byte
    <3> SUFFICES ASSUME NEW n \in 1 .. Len(number) PROVE q[n] \in Byte
      OBVIOUS
    <3>1. n \in 1 .. from \/ n \in from + 1 .. Len(number)
      BY <1>0
    <3> QED BY <1>3, <1>4, <3>1
  <2> QED BY <2>1, <2>2
<1>6. q \in Seq(Byte) /\ Len(q) = Len(number)
  <2> HIDE DEF q
  <2> QED BY <1>0, <1>5
<1> HIDE DEF q
<1>7. q = quotient(number, from)
  BY DEF q
<1> QED BY <1>2, <1>3, <1>4, <1>6, <1>7

\* divmod58 divides: the bytes that it leaves, taken D times, and the remainder
\* are the number.  The zeros in front that it does not look at stand for nothing.
THEOREM DivisionExact ==
    ASSUME NEW number \in Seq(Byte), NEW from \in 0 .. Len(number) - 1, \A i \in 1 .. from : number[i] = 0
    PROVE  LET rest == remainder(number, from, Len(number) - 1)
           IN  /\ quotient(number, from) \in Seq(Byte)
               /\ rest \in 0 .. D - 1
               /\ Value(number) = Value(quotient(number, from)) * D + rest
<1> DEFINE q == quotient(number, from)
           last == Len(number) - 1
           V(i) == Numeral(number, B, 0, i)
           Q(i) == Numeral(q, B, 0, i)
<1>0. Len(number) \in Nat /\ last \in Nat /\ from \in Nat /\ from \in 0 .. Len(number) /\ B \in Nat /\ D \in Nat
  BY BaseAssumption, ScratchAssumption
<1>1. PICK w : Remainders(w, number, from)
  BY <1>0, RemaindersAre
<1> HIDE DEF q
<1>2. /\ q \in Seq(Byte) /\ Len(q) = Len(number) /\ \A n \in 1 .. from : q[n] = number[n]
      /\ \A n \in from + 1 .. Len(number) : w[n - 2] * B + number[n] = q[n] * D + w[n - 1]
  BY <1>0, <1>1, QuotientDigit DEF q
<1>3. /\ w \in [from - 1 .. last -> 0 .. D - 1] /\ w[from - 1] = 0
      /\ remainder(number, from, last) = w[last]
  BY <1>0, <1>1 DEF Remainders
<1>4. \A i \in 0 .. Len(number) : AreInts(number, 0, i) /\ AreInts(q, 0, i)
  <2>1. \A i \in 1 .. Len(number) : number[i] \in Byte /\ q[i] \in Byte
    BY <1>2
  <2> QED BY <1>0, <2>1 DEF AreInts, Byte
<1> DEFINE T == {i \in from .. Len(number) : V(i) = Q(i) * D + w[i - 1]}
<1>5. from \in T
  <2>1. \A i \in 0 + 1 .. from : number[i] = 0 /\ q[i] = 0
    BY <1>2
  <2>2. V(from) = 0 /\ Q(from) = 0
    BY <1>0, <2>1, ZerosNothing
  <2> QED BY <1>0, <1>3, <2>2
<1>6. ASSUME NEW i \in from .. Len(number) - 1, i \in T PROVE i + 1 \in T
  <2>1. /\ i + 1 \in from + 1 .. Len(number) /\ (i + 1) - 1 = i /\ (i + 1) - 2 = i - 1
        /\ i \in 0 .. Len(number) /\ i + 1 \in 0 .. Len(number) /\ 0 < i + 1 /\ i - 1 \in from - 1 .. last
        /\ i \in from - 1 .. last /\ i + 1 \in 1 .. Len(number)
    BY <1>0
  <2>2. V(i + 1) = V(i) * B + number[i + 1] /\ Q(i + 1) = Q(i) * B + q[i + 1]
    <3>1. 0 \in Int /\ i + 1 \in Int /\ AreInts(number, 0, i + 1) /\ AreInts(q, 0, i + 1)
      BY <1>4, <2>1
    <3> DEFINE k == i + 1
    <3>2. V(k) = V(k - 1) * B + number[k] /\ Q(k) = Q(k - 1) * B + q[k]
      <4> HIDE DEF k
      <4>1. k \in Int /\ 0 < k /\ 0 \in Int /\ B \in Int /\ AreInts(number, 0, k) /\ AreInts(q, 0, k)
        BY <1>0, <2>1, <3>1 DEF k
      <4> QED BY <4>1, NumeralStep
    <3> QED BY <2>1, <3>2
  <2>3. w[i - 1] * B + number[i + 1] = q[i + 1] * D + w[i]
    BY <1>2, <2>1
  <2>4. V(i) = Q(i) * D + w[i - 1]
    BY <1>6
  <2>5. V(i) \in Int /\ Q(i) \in Int
    <3>1. 0 \in Int /\ i \in Int /\ 0 <= i /\ AreInts(number, 0, i) /\ AreInts(q, 0, i) /\ B \in Int
      BY <1>0, <1>4, <2>1
    <3> QED BY <3>1, NumeralType
  <2>6. w[i - 1] \in Int /\ w[i] \in Int /\ number[i + 1] \in Int /\ q[i + 1] \in Int
    <3>1. w[i - 1] \in 0 .. D - 1 /\ w[i] \in 0 .. D - 1
      BY <1>3, <2>1
    <3>2. number[i + 1] \in Byte /\ q[i + 1] \in Byte
      BY <1>2, <2>1
    <3>3. D - 1 \in Int /\ B - 1 \in Int
      BY <1>0
    <3>4. w[i - 1] \in Int /\ w[i] \in Int
      BY <3>1, <3>3
    <3>5. number[i + 1] \in Int /\ q[i + 1] \in Int
      BY <3>2, <3>3 DEF Byte
    <3> QED BY <3>4, <3>5
  <2> DEFINE x == V(i)
             y == Q(i)
             r0 == w[i - 1]
             z == w[i]
             d == number[i + 1]
             e == q[i + 1]
  <2>7. x * B + d = (y * B + e) * D + z
    <3>1. x = y * D + r0 /\ r0 * B + d = e * D + z /\ x \in Int /\ y \in Int /\ r0 \in Int /\ z \in Int
          /\ d \in Int /\ e \in Int
      BY <2>3, <2>4, <2>5, <2>6
    <3> HIDE DEF x, y, r0, z, d, e
    <3>2. x * B = y * D * B + r0 * B /\ (y * B + e) * D = y * D * B + e * D
      BY <1>0, <3>1
    <3> DEFINE ydb == y * D * B
               rb  == r0 * B
               ed  == e * D
    <3>3. x * B = ydb + rb /\ (y * B + e) * D = ydb + ed /\ rb + d = ed + z
          /\ ydb \in Int /\ rb \in Int /\ ed \in Int
      BY <1>0, <3>1, <3>2
    <3> HIDE DEF ydb, rb, ed
    <3> QED BY <3>1, <3>3
  <2> QED BY <2>1, <2>2, <2>7
<1> HIDE DEF T
<1>7. from .. Len(number) \subseteq T
  <2> DEFINE n == Len(number)
  <2>1. from \in Int /\ n \in Int /\ from \in T /\ \A i \in from .. n - 1 : i \in T => i + 1 \in T
    BY <1>0, <1>5, <1>6
  <2> HIDE DEF n
  <2>2. from .. n \subseteq T
    BY <2>1, IntervalInduction
  <2> QED BY <2>2 DEF n
<1>8. Len(number) \in T
  BY <1>0, <1>7
<1>9. V(Len(number)) = Q(Len(number)) * D + w[last]
  BY <1>8 DEF T
<1>10. w[last] \in 0 .. D - 1
  BY <1>0, <1>3
<1> QED BY <1>2, <1>3, <1>9, <1>10 DEF Value, q

-----------------------------------------------------------------------------
(* base58encode: the text *)

\* The digits after zeros in front are the number.
LEMMA NumeralAfterZeros ==
    ASSUME NEW f, NEW b \in Int, NEW m \in Int, NEW l \in Int, NEW n \in Int, m <= l, l <= n,
           AreInts(f, m, n), \A i \in m + 1 .. l : f[i] = 0
    PROVE  Numeral(f, b, m, n) = Numeral(f, b, l, n)
<1>0. m <= n /\ l <= n /\ 0 \in Int /\ AreInts(f, m, l) /\ AreInts(f, l, n) /\ l \in m .. n
  BY DEF AreInts
<1>1. PICK w : Prefixes(w, 0, f, b, m, n)
  BY <1>0, ContinuedPrefix
<1>2. /\ w[m] = 0 /\ w[n] = Numeral(f, b, m, n)
      /\ \A i \in m + 1 .. n : w[i] = w[i - 1] * b + f[i]
  BY <1>1 DEF Prefixes, Numeral
<1>3. w[l] = Numeral(f, b, m, l)
  BY <1>0, <1>2, NumeralIs
<1>4. w[l] = 0
  BY <1>3, ZerosNothing
<1>5. \A i \in l + 1 .. n : w[i] = w[i - 1] * b + f[i]
  BY <1>2
<1>6. w[n] = Numeral(f, b, l, n)
  BY <1>0, <1>4, <1>5, NumeralIs
<1> QED BY <1>2, <1>6

\* The zero bytes in front that have become characters already.
Led == LeadingZeros(stored) - zeroCount

\* Every byte that is used up has paid for two characters, and the first of
\* those left pays for one as soon as it is a digit.
Paid == 2 * (startAt - LeadingZeros(stored))
           + (IF startAt < Len(work) /\ work[startAt + 1] < D THEN 1 ELSE 0)

Written58 == [k \in 1 .. templen - j |-> temp[j + k - 1]]

Dividing ==
    /\ zeroCount = LeadingZeros(stored)
    /\ \A i \in 1 .. startAt : work[i] = 0
    /\ templen - j <= Paid
    /\ Continued(Value(work), temp, D, j - 1, templen - 1) = Value(stored)

Divided ==
    /\ j + Led <= templen
    /\ \A i \in j .. (j + Led) - 1 : temp[i] = 0
    /\ j + Led = templen \/ temp[j + Led] # 0
    /\ Numeral(temp, D, (j + Led) - 1, templen - 1) = Value(stored)

\* Where base58encode stands.
Encoding ==
    /\ stored \in Seq(Byte) /\ work \in Seq(Byte) /\ Len(work) = Len(stored)
    /\ startAt \in LeadingZeros(stored) .. Len(stored)
    /\ zeroCount \in 0 .. LeadingZeros(stored)
    /\ temp \in [0 .. templen - 1 -> 0 .. D - 1]
    /\ j \in zeroCount .. templen
    /\ pc = "divide" => Dividing
    /\ pc \in {"lead", "return"} => Divided
    /\ IF pc = "return" THEN zeroCount = 0 /\ output = Printed(call, Written58) ELSE output = <<>>

Bytes58 ==
    CASE call.f = "bytes"   -> call.input
      [] call.f = "wif"     -> KeyBytes(call.key)
      [] call.f = "address" -> AddressBytes(call.version, call.stream, call.ripe, call.max)

AtAddress ==
    /\ pc \in AddressPlaces \cup {"call", "return"}
    /\ IF pc = "call" \/ (pc = "return" /\ Refused(call)) THEN AddressIdle
       ELSE ~Refused(call) /\ stored = Bytes58 /\ Encoding

AddressInv == IF call.f \in AddressFunctions THEN AtAddress ELSE AddressIdle

-----------------------------------------------------------------------------
(* The bytes of an address *)

LEMMA HashBytes ==
    ASSUME NEW z \in Seq(Byte), z # <<>>
    PROVE  Hash(z) \in Seq(Byte) /\ Len(Hash(z)) = ChecksumSize
<1>0. ChecksumSize \in Nat /\ B \in Nat /\ B > 3
  BY SizesAssumption, BaseAssumption
<1>1. Len(z) \in Nat /\ z[1] \in Int /\ z[Len(z)] \in Int
  <2>1. Len(z) \in Nat /\ Len(z) > 0
    OBVIOUS
  <2>2. 1 \in 1 .. Len(z) /\ Len(z) \in 1 .. Len(z)
    BY <2>1
  <2>3. z[1] \in Byte /\ z[Len(z)] \in Byte
    BY <2>2
  <2> QED BY <2>1, <2>3, <1>0 DEF Byte
<1>2. ASSUME NEW k \in 1 .. ChecksumSize PROVE (k * Len(z) + z[Len(z)] + z[1]) % B \in Byte
  <2> DEFINE y == k * Len(z) + z[Len(z)] + z[1]
  <2>1. y \in Int
    BY <1>0, <1>1
  <2> HIDE DEF y
  <2>2. y % B \in Byte
    BY <1>0, <2>1 DEF Byte
  <2> QED BY <2>2 DEF y
<1>3. Hash(z) \in [1 .. ChecksumSize -> Byte]
  BY <1>2 DEF Hash
<1> QED BY <1>0, <1>3

LEMMA WithChecksumBytes ==
    ASSUME NEW z \in Seq(Byte), z # <<>>
    PROVE  WithChecksum(z) \in Seq(Byte) /\ Len(WithChecksum(z)) = Len(z) + ChecksumSize
           /\ \A k \in 1 .. Len(z) : WithChecksum(z)[k] = z[k]
BY HashBytes, SizesAssumption DEF WithChecksum

\* What is encoded of the hash.
LEMMA WorkripeBytes ==
    ASSUME NEW version, NEW ripe \in Seq(Byte), Len(ripe) = RipeSize, NEW max
    PROVE  workripe(version, ripe, max) \in Seq(Byte) /\ Len(workripe(version, ripe, max)) <= RipeSize
<1>0. RipeSize \in Nat /\ RipeSize > 2 /\ \A i \in 1 .. RipeSize : ripe[i] \in Byte
  BY SizesAssumption
<1>1. ASSUME NEW i \in 1 .. RipeSize + 1
      PROVE  SubSeq(ripe, i, Len(ripe)) \in Seq(Byte) /\ Len(SubSeq(ripe, i, Len(ripe))) <= RipeSize
  BY <1>0
<1>2. LeadingZeros(ripe) + 1 \in 1 .. RipeSize + 1
  BY <1>0, LeadingZerosIs
<1>3. 2 \in 1 .. RipeSize + 1 /\ 3 \in 1 .. RipeSize + 1
  BY <1>0
<1>4. DropZeros(ripe) \in Seq(Byte) /\ Len(DropZeros(ripe)) <= RipeSize
  BY <1>1, <1>2 DEF DropZeros
<1>5. DropTwoZeros(ripe) \in Seq(Byte) /\ Len(DropTwoZeros(ripe)) <= RipeSize
  BY <1>0, <1>1, <1>3 DEF DropTwoZeros
<1> QED BY <1>0, <1>4, <1>5 DEF workripe

LEMMA SmallNumbers == 0 .. 4 \subseteq Number /\ 0 .. B^4 - 1 \subseteq Number
<1>1. B \in Nat /\ B > 3 /\ PowersTo(B, 8)
  BY BaseAssumption
<1>2. \A n \in 0 .. 7 : B^(n + 1) >= 4 * B^n
  <2> SUFFICES ASSUME NEW n \in 0 .. 7 PROVE B^(n + 1) >= 4 * B^n
    OBVIOUS
  <2>1. B^(n + 1) = B * B^n /\ B^n \in Nat
    BY <1>1, BytePowers DEF PowersTo
  <2> DEFINE p == B^n
  <2>2. p \in Nat
    BY <2>1
  <2> HIDE DEF p
  <2>3. B * p >= 4 * p
    BY <1>1, <2>2
  <2> QED BY <2>1, <2>3 DEF p
<1>3. \A n \in 0 .. 8 : B^n \in Nat
  BY BytePowers
<1>4. B^1 >= 4 * B^0 /\ B^2 >= 4 * B^1 /\ B^3 >= 4 * B^2 /\ B^4 >= 4 * B^3 /\ B^0 = 1
  BY <1>1, <1>2 DEF PowersTo
<1>5. B^5 >= 4 * B^4 /\ B^6 >= 4 * B^5 /\ B^7 >= 4 * B^6 /\ B^8 >= 4 * B^7
  BY <1>2
<1>6. B^1 \in Nat /\ B^2 \in Nat /\ B^3 \in Nat /\ B^4 \in Nat
      /\ B^5 \in Nat /\ B^6 \in Nat /\ B^7 \in Nat /\ B^8 \in Nat
  BY <1>3
<1>7. B^8 >= B^4 /\ B^8 > 4
  BY <1>4, <1>5, <1>6
<1> QED BY <1>6, <1>7 DEF Number

\* A call that has an address, its version and its stream.
LEMMA AddressFacts ==
    ASSUME WhereInv, call.f = "address"
    PROVE  /\ call.version \in Number /\ call.stream \in Number /\ call.ripe \in Seq(Byte)
           /\ call.version \in 2 .. 4 /\ call.stream \in 0 .. B^4 - 1
<1>1. call \in AddressCalls
  BY DEF WhereInv, CallKnown, AddressFunctions
<1>2. 1 \in 0 .. B^4 - 1
  <2>1. B^4 \in Nat /\ B^4 > 1
    <3>1. B \in Nat /\ B > 3 /\ PowersTo(B, 8) /\ B^3 \in Nat /\ B^3 > 0 /\ B^4 \in Nat
      BY BaseAssumption, BytePowers
    <3>2. B^(3 + 1) = B * B^3
      BY <3>1 DEF PowersTo
    <3> DEFINE p == B^3
    <3>3. p \in Nat /\ p > 0
      BY <3>1
    <3> HIDE DEF p
    <3>4. B * p > 1
      BY <3>1, <3>3
    <3> QED BY <3>1, <3>2, <3>4 DEF p
  <2> QED BY <2>1
<1>3. /\ call.ripe \in Ripes /\ call.version \in 2 .. 4 /\ call.stream \in Streams \cup {1}
  BY <1>1 DEF AddressCalls, encodeAddress, encodeV4Address, encodeV3Address, encodeShorterV3Address,
              encodeWIF, base58encode, Address
<1>4. call.version \in 0 .. 4
  BY <1>3
<1> QED BY <1>2, <1>3, <1>4, SmallNumbers, InputsAssumption

\* There is something to encode, and it is bytes.
LEMMA Bytes58Are ==
    ASSUME WhereInv, call.f \in AddressFunctions, ~Refused(call)
    PROVE  Bytes58 \in Seq(Byte) /\ Bytes58 # <<>>
<1>1. call \in AddressCalls
  BY DEF WhereInv, CallKnown
<1>2. CASE call.f = "bytes"
  <2>1. call.input \in Inputs /\ call.input # <<>>
    BY <1>1, <1>2 DEF Refused, AddressCalls, encodeAddress, encodeV4Address, encodeV3Address,
                      encodeShorterV3Address, encodeWIF, base58encode, Address
  <2> QED BY <1>2, <2>1, InputsAssumption DEF Bytes58
<1>3. CASE call.f = "wif"
  <2>1. call.key \in Seq(Byte)
    BY <1>1, <1>3, InputsAssumption
       DEF AddressCalls, encodeAddress, encodeV4Address, encodeV3Address,
           encodeShorterV3Address, encodeWIF, base58encode, Address
  <2> DEFINE z == <<B \div 2>> \o call.key
  <2>2. B \div 2 \in Byte
    BY BaseAssumption DEF Byte
  <2>3. z \in Seq(Byte) /\ z # <<>>
    BY <2>1, <2>2
  <2>4. Bytes58 = WithChecksum(z)
    BY <1>3 DEF Bytes58, KeyBytes
  <2> HIDE DEF z
  <2> QED BY <2>3, <2>4, WithChecksumBytes, SizesAssumption
<1>4. CASE call.f = "address"
  <2>1. /\ call.version \in Number /\ call.stream \in Number /\ call.ripe \in Seq(Byte)
        /\ Len(call.ripe) = RipeSize
    BY <1>4, AddressFacts DEF Refused
  <2> DEFINE v == encodeVarint(call.version)
             t == encodeVarint(call.stream)
             p == workripe(call.version, call.ripe, call.max)
  <2>2. v \in Seq(Byte) /\ t \in Seq(Byte) /\ p \in Seq(Byte) /\ Len(v) = get_varint_size(call.version)
    BY <2>1, EncodedBytes, WorkripeBytes
  <2>3. Len(v) > 0
    BY <2>2 DEF get_varint_size
  <2> DEFINE z == v \o t \o p
  <2>4. Bytes58 = WithChecksum(z)
    BY <1>4 DEF Bytes58, AddressBytes
  <2> HIDE DEF v, t, p
  <2>5. z \in Seq(Byte) /\ z # <<>>
    BY <2>2, <2>3
  <2> HIDE DEF z
  <2> QED BY <2>4, <2>5, WithChecksumBytes, SizesAssumption
<1> QED BY <1>2, <1>3, <1>4 DEF AddressFunctions

-----------------------------------------------------------------------------
(* What the steps of base58encode do *)

LEMMA AddressInit == ASSUME Init PROVE AddressInv
BY DEF Init, Idle, AddressInv, AtAddress

\* What is known of the places in temp.
LEMMA ScratchFacts ==
    ASSUME Encoding
    PROVE  /\ templen \in Nat /\ templen = 2 * Len(stored) /\ Len(stored) \in Nat
           /\ LeadingZeros(stored) \in 0 .. Len(stored)
           /\ j \in Nat /\ zeroCount \in Nat /\ startAt \in Nat
           /\ \A m \in -1 .. templen - 1 : AreInts(temp, m, templen - 1)
           /\ Value(work) \in Int /\ Value(stored) \in Int
<1>1. stored \in Seq(Byte) /\ work \in Seq(Byte) /\ Len(stored) \in Nat /\ Len(work) \in Nat
  BY DEF Encoding
<1>2. templen \in Nat /\ templen = 2 * Len(stored)
  BY <1>1 DEF templen, ScratchSize
<1>3. LeadingZeros(stored) \in 0 .. Len(stored)
  BY <1>1, LeadingZerosIs
<1>4. j \in Nat /\ zeroCount \in Nat /\ startAt \in Nat
  BY <1>2, <1>3 DEF Encoding
<1>5. ASSUME NEW m \in -1 .. templen - 1 PROVE AreInts(temp, m, templen - 1)
  <2>1. \A i \in 0 .. templen - 1 : temp[i] \in Int
    BY ScratchAssumption DEF Encoding
  <2> QED BY <1>2, <2>1 DEF AreInts
<1>6. ASSUME NEW z \in Seq(Byte) PROVE Value(z) \in Int
  <2>1. Len(z) \in Nat /\ B \in Int /\ \A i \in 1 .. Len(z) : z[i] \in Int
    BY BaseAssumption DEF Byte
  <2>2. AreInts(z, 0, Len(z))
    BY <2>1 DEF AreInts
  <2> QED BY <2>1, <2>2, NumeralType DEF Value
<1> QED BY <1>1, <1>2, <1>3, <1>4, <1>5, <1>6

LEMMA AssembleKeeps == ASSUME AtAddress, WhereInv, call.f \in AddressFunctions, Assemble PROVE AtAddress'
<1>1. AddressIdle /\ pc' = "divide" /\ ~Refused(call) /\ call' = call /\ pc = "call" /\ output = <<>> /\ output' = <<>>
  BY DEF AtAddress, Assemble, Called, AddressIdle
<1>2. stored' = Bytes58 /\ stored' \in Seq(Byte) /\ Bytes58' = Bytes58
  BY <1>1, Bytes58Are DEF Assemble, Bytes58
<1> DEFINE n == Len(stored')
           z == LeadingZeros(stored')
<1>3. n \in Nat /\ z \in 0 .. n /\ \A i \in 1 .. z : stored'[i] = 0
  BY <1>2, LeadingZerosIs
<1>4. /\ work' = stored' /\ startAt' = z /\ zeroCount' = z /\ j' = 2 * n /\ templen' = 2 * n
      /\ temp' = [k \in 0 .. 2 * n - 1 |-> 0]
  BY DEF Assemble, templen, ScratchSize
<1> HIDE DEF z, n
<1>5. temp' \in [0 .. templen' - 1 -> 0 .. D - 1]
  BY <1>3, <1>4, ScratchAssumption
<1>6. Continued(Value(work)', temp', D, j' - 1, templen' - 1) = Value(stored)'
  <2> DEFINE a == Value(stored)'
             m == 2 * n - 1
  <2>1. Value(work)' = a
    BY <1>4 DEF Value
  <2>2. a \in Int
    <3>1. n \in Nat /\ B \in Int /\ \A i \in 1 .. n : stored'[i] \in Int
      BY <1>2, <1>3, BaseAssumption DEF Byte, n
    <3>2. AreInts(stored', 0, n)
      BY <3>1 DEF AreInts
    <3> QED BY <3>1, <3>2, NumeralType DEF Value, n
  <2>3. m \in Int /\ j' - 1 = m /\ templen' - 1 = m /\ D \in Int
    BY <1>3, <1>4, ScratchAssumption
  <2> HIDE DEF a, m
  <2>4. Continued(a, temp', D, m, m) = a
    BY <2>2, <2>3, ContinuedEmpty
  <2> QED BY <2>1, <2>3, <2>4 DEF a
<1>7. Dividing'
  <2>1. templen' - j' <= Paid'
    BY <1>3, <1>4 DEF Paid, z
  <2> QED BY <1>3, <1>4, <1>6, <2>1 DEF Dividing, z
<1>8. Encoding'
  BY <1>1, <1>2, <1>3, <1>4, <1>5, <1>7 DEF Encoding, n, z
<1> QED BY <1>1, <1>2, <1>8 DEF AtAddress, AddressPlaces, Refused

LEMMA DivideKeeps == ASSUME AtAddress, Divide PROVE AtAddress'
<1>1. Encoding /\ Dividing /\ pc' = pc /\ pc = "divide" /\ call' = call /\ ~Refused(call) /\ stored = Bytes58
  BY DEF AtAddress, Divide, Encoding
<1>2. UNCHANGED <<stored, zeroCount, output, templen>> /\ Bytes58' = Bytes58
  BY DEF Divide, templen, Bytes58
<1> DEFINE z == LeadingZeros(stored)
           n == Len(stored)
           rest == remainder(work, startAt, Len(work) - 1)
           q == quotient(work, startAt)
<1>3. /\ stored \in Seq(Byte) /\ work \in Seq(Byte) /\ Len(work) = n /\ n \in Nat /\ z \in 0 .. n
      /\ startAt \in z .. n - 1 /\ \A i \in 1 .. startAt : work[i] = 0
      /\ templen = 2 * n /\ templen \in Nat /\ j \in Nat /\ startAt \in Nat /\ zeroCount = z
      /\ Value(work) \in Int /\ Value(stored) \in Int
  BY <1>1, ScratchFacts DEF Divide, Encoding, Dividing
<1>4. startAt \in 0 .. Len(work) - 1 /\ startAt \in 0 .. Len(work)
  BY <1>3
<1>5. q \in Seq(Byte) /\ rest \in 0 .. D - 1 /\ Value(work) = Value(q) * D + rest
  BY <1>3, <1>4, DivisionExact
<1>6. PICK w : Remainders(w, work, startAt)
  BY <1>3, <1>4, RemaindersAre
<1>7. /\ Len(q) = n /\ \A i \in 1 .. startAt : q[i] = 0
      /\ q[startAt + 1] = work[startAt + 1] \div D
  <2>1. /\ Len(q) = n /\ \A i \in 1 .. startAt : q[i] = work[i]
        /\ \A i \in startAt + 1 .. Len(work) : q[i] = (w[i - 2] * B + work[i]) \div D
    BY <1>3, <1>4, <1>6, QuotientDigit
  <2>2. startAt + 1 \in startAt + 1 .. Len(work) /\ (startAt + 1) - 2 = startAt - 1 /\ startAt + 1 \in 1 .. Len(work)
    BY <1>3, <1>4
  <2>3. w[startAt - 1] = 0
    BY <1>6 DEF Remainders
  <2>4. work[startAt + 1] \in Byte
    BY <1>3, <2>2
  <2>5. w[startAt - 1] * B + work[startAt + 1] = work[startAt + 1]
    BY <2>3, <2>4, BaseAssumption DEF Byte
  <2>6. q[startAt + 1] = (w[startAt - 1] * B + work[startAt + 1]) \div D
    BY <2>1, <2>2
  <2> QED BY <1>3, <2>1, <2>5, <2>6
<1> HIDE DEF rest, q
<1>8. /\ work' = q /\ j' = j - 1 /\ temp' = [temp EXCEPT ![j - 1] = rest]
      /\ startAt' = IF q[startAt + 1] = 0 THEN startAt + 1 ELSE startAt
  BY DEF Divide, rest, q
<1> DEFINE d == work[startAt + 1]
           e == q[startAt + 1]
           s1 == startAt'
<1>9. templen - j <= 2 * (startAt - z) + (IF d < D THEN 1 ELSE 0)
  BY <1>1, <1>3 DEF Dividing, Paid
<1>10. d \in Nat /\ d < D * D /\ e = d \div D
  <2>1. startAt + 1 \in 1 .. Len(work)
    BY <1>3
  <2>2. d \in Byte
    BY <1>3, <2>1
  <2> QED BY <1>7, <2>2, ScratchAssumption, BaseAssumption DEF Byte
<1>11. e \in Nat /\ e < D /\ (d < D => e = 0)
  <2> DEFINE r0 == d % D
  <2>1. D \in Nat /\ D > 1
    BY ScratchAssumption
  <2> HIDE DEF d, e
  <2>2. e \in Nat /\ r0 \in 0 .. D - 1 /\ d = e * D + r0
    BY <1>10, <2>1, DivisionLeaves
  <2> HIDE DEF r0
  <2>3. e < D
    <3> SUFFICES ASSUME e >= D PROVE FALSE
      BY <2>1, <2>2
    <3>1. e * D >= D * D
      BY <2>1, <2>2
    <3> QED BY <1>10, <2>1, <2>2, <3>1
  <2>4. d < D => e = 0
    <3> SUFFICES ASSUME e >= 1, d < D PROVE FALSE
      BY <2>2
    <3>1. e * D >= 1 * D
      BY <2>1, <2>2
    <3> QED BY <2>1, <2>2, <3>1
  <2> QED BY <2>2, <2>3, <2>4
<1>12. j - 1 >= z /\ j - 1 \in 0 .. templen - 1
  BY <1>3, <1>9, <1>1, SMTT(30) DEF Encoding
<1>13. Paid' = 2 * (s1 - z) + (IF s1 < n /\ q[s1 + 1] < D THEN 1 ELSE 0)
  BY <1>2, <1>7, <1>8 DEF Paid
<1>14. templen - (j - 1) <= Paid'
  <2>1. CASE e = 0
    <3>1. s1 = startAt + 1
      BY <1>8, <2>1
    <3>2. Paid' >= 2 * (startAt - z) + 2
      BY <1>3, <1>13, <3>1
    <3> HIDE DEF d, e
    <3> QED BY <1>3, <1>9, <1>13, <3>1, <3>2
  <2>2. CASE e # 0
    <3>1. s1 = startAt /\ ~(d < D)
      BY <1>8, <1>11, <2>2
    <3>2. q[s1 + 1] < D /\ s1 < n
      BY <1>3, <1>11, <3>1
    <3>3. Paid' = 2 * (startAt - z) + 1
      BY <1>13, <3>1, <3>2
    <3> HIDE DEF d, e
    <3> QED BY <1>3, <1>9, <3>1, <3>3
  <2> QED BY <2>1, <2>2
<1>15. s1 \in z .. n /\ \A i \in 1 .. s1 : q[i] = 0
  BY <1>3, <1>7, <1>8
<1>16. temp' \in [0 .. templen - 1 -> 0 .. D - 1] /\ temp'[j - 1] = rest
       /\ \A i \in j .. templen - 1 : temp'[i] = temp[i]
  BY <1>1, <1>3, <1>5, <1>8, <1>12 DEF Encoding
<1>17. Continued(Value(q), temp', D, (j - 1) - 1, templen - 1) = Value(stored)
  <2> DEFINE m == (j - 1) - 1
             l == templen - 1
             a == Value(q)
             b == Value(work)
  <2>1. m \in Int /\ l \in Int /\ m < l /\ m + 1 = j - 1 /\ m + 1 <= l /\ D \in Int
    BY <1>3, <1>12, ScratchAssumption
  <2>2. AreInts(temp', m, l) /\ AreInts(temp, m + 1, l)
    <3>1. \A i \in 0 .. l : temp'[i] \in Int
      BY <1>16, ScratchAssumption
    <3>2. \A i \in 0 .. l : temp[i] \in Int
      BY <1>1, ScratchAssumption DEF Encoding
    <3> QED BY <1>12, <2>1, <3>1, <3>2 DEF AreInts
  <2>3. a \in Int /\ b \in Int /\ b = a * D + temp'[m + 1]
    <3>1. n \in Nat /\ B \in Int /\ \A i \in 1 .. n : q[i] \in Int
      <4>1. q \in Seq(Byte) /\ Len(q) = n /\ n \in Nat
        BY <1>3, <1>5, <1>7
      <4>2. \A i \in 1 .. n : q[i] \in Byte
        BY <4>1
      <4>3. B \in Int /\ Byte \subseteq Int
        BY BaseAssumption DEF Byte
      <4> QED BY <4>1, <4>2, <4>3
    <3>2. AreInts(q, 0, n)
      BY <3>1 DEF AreInts
    <3>3. a \in Int
      BY <1>7, <3>1, <3>2, NumeralType DEF Value
    <3> QED BY <1>3, <1>5, <1>16, <2>1, <3>3
  <2>4. Continued(b, temp, D, m + 1, l) = Value(stored)
    BY <1>1, <2>1 DEF Dividing
  <2>5. \A i \in (m + 1) + 1 .. l : temp'[i] = temp[i]
    <3>1. (m + 1) + 1 = j
      BY <1>3
    <3> QED BY <1>16, <3>1
  <2> HIDE DEF a, b, m, l
  <2>6. Continued(a, temp', D, m, l) = Continued(a * D + temp'[m + 1], temp', D, m + 1, l)
    BY <2>1, <2>2, <2>3, ContinuedFirst
  <2>7. Continued(b, temp', D, m + 1, l) = Continued(b, temp, D, m + 1, l)
    BY <2>1, <2>2, <2>3, <2>5, ContinuedSame
  <2>8. Continued(a, temp', D, m, l) = Value(stored)
    BY <2>3, <2>4, <2>6, <2>7
  <2> QED BY <2>8 DEF a, m, l
<1>18. Dividing'
  <2>1. Value(work') = Value(work)' /\ Value(stored)' = Value(stored)
    BY <1>2
  <2> QED BY <1>1, <1>2, <1>3, <1>8, <1>14, <1>15, <1>17, <2>1 DEF Dividing
<1>19. Encoding'
  <2>1. j' \in zeroCount' .. templen'
    BY <1>2, <1>3, <1>8, <1>12
  <2>2. pc' = "divide" /\ output' = <<>> /\ zeroCount' \in 0 .. LeadingZeros(stored')
    BY <1>1, <1>2 DEF Encoding
  <2> QED BY <1>1, <1>2, <1>3, <1>5, <1>7, <1>8, <1>15, <1>16, <1>18, <2>1, <2>2 DEF Encoding
<1> QED BY <1>1, <1>2, <1>19 DEF AtAddress, AddressPlaces, Refused

LEMMA TrimKeeps == ASSUME AtAddress, Trim PROVE AtAddress'
<1>1. /\ Encoding /\ Dividing /\ pc' = "lead" /\ pc = "divide" /\ call' = call /\ ~Refused(call) /\ stored = Bytes58
      /\ startAt = Len(work) /\ j' = SkipZeros(j)
  BY DEF AtAddress, Trim, Encoding
<1>2. /\ UNCHANGED <<stored, work, startAt, zeroCount, temp, output, templen>> /\ Bytes58' = Bytes58
      /\ LeadingZeros(stored)' = LeadingZeros(stored) /\ Value(stored)' = Value(stored)
  BY DEF Trim, templen, Bytes58
<1> DEFINE k == SkipZeros(j)
<1>3. /\ templen \in Nat /\ j \in 0 .. templen /\ Value(work) \in Int /\ zeroCount = LeadingZeros(stored)
      /\ zeroCount \in Nat /\ j >= zeroCount
      /\ \A m \in -1 .. templen - 1 : AreInts(temp, m, templen - 1)
  BY <1>1, ScratchFacts DEF Encoding, Dividing
<1>4. k \in j .. templen /\ (\A i \in j .. k - 1 : temp[i] = 0) /\ (k = templen \/ temp[k] # 0)
  BY <1>3, SkipZerosIs
<1> HIDE DEF k
<1>5. Value(work) = 0
  <2> DEFINE n == Len(work)
  <2>1. n \in Nat /\ \A i \in 0 + 1 .. n : work[i] = 0
    BY <1>1 DEF Encoding, Dividing
  <2> HIDE DEF n
  <2>2. Numeral(work, B, 0, n) = 0
    BY <2>1, ZerosNothing, BaseAssumption
  <2> QED BY <2>2 DEF Value, n
<1>6. Numeral(temp, D, j - 1, templen - 1) = Value(stored)
  BY <1>1, <1>5 DEF Dividing, Numeral
<1>7. Numeral(temp, D, k - 1, templen - 1) = Value(stored)
  <2> DEFINE m == j - 1
             l == k - 1
             n == templen - 1
  <2>1. m \in Int /\ l \in Int /\ n \in Int /\ m <= l /\ l <= n /\ D \in Int /\ m \in -1 .. n
    BY <1>3, <1>4, ScratchAssumption
  <2>2. \A i \in m + 1 .. l : temp[i] = 0
    <3>1. m + 1 = j
      BY <1>3
    <3> QED BY <1>4, <3>1
  <2>3. AreInts(temp, m, n)
    BY <1>3, <2>1
  <2> HIDE DEF m, l, n
  <2>4. Numeral(temp, D, m, n) = Numeral(temp, D, l, n)
    BY <2>1, <2>2, <2>3, NumeralAfterZeros
  <2> QED BY <1>6, <2>4 DEF m, l, n
<1>8. j' = k
  BY <1>1 DEF k
<1>9. Led' = 0
  BY <1>2, <1>3 DEF Led
<1>10. Divided'
  <2>1. j' + Led' = k /\ k \in Int
    BY <1>3, <1>4, <1>8, <1>9
  <2>2. \A i \in j' .. (j' + Led') - 1 : temp'[i] = 0
    BY <1>3, <1>4, <1>8, <1>9, <2>1
  <2>3. (j' + Led') - 1 = k - 1 /\ templen' = templen /\ temp' = temp
    BY <1>2, <2>1
  <2>4. Numeral(temp', D, (j' + Led') - 1, templen' - 1) = Value(stored)'
    BY <1>2, <1>7, <2>3, Zenon
  <2>5. j' + Led' <= templen' /\ (j' + Led' = templen' \/ temp'[j' + Led'] # 0)
    BY <1>3, <1>4, <2>1, <2>3
  <2> QED BY <2>2, <2>4, <2>5 DEF Divided
<1>11. Encoding'
  <2>1. j' \in zeroCount' .. templen'
    BY <1>2, <1>3, <1>4, <1>8
  <2> QED BY <1>1, <1>2, <1>10, <2>1 DEF Encoding
<1> QED BY <1>1, <1>2, <1>11 DEF AtAddress, AddressPlaces, Refused

LEMMA LeadKeeps == ASSUME AtAddress, Lead PROVE AtAddress'
<1>1. /\ Encoding /\ Divided /\ pc' = pc /\ pc = "lead" /\ call' = call /\ ~Refused(call) /\ stored = Bytes58
      /\ zeroCount > 0 /\ zeroCount' = zeroCount - 1 /\ j' = j - 1 /\ temp' = [temp EXCEPT ![j - 1] = 0]
  BY DEF AtAddress, Lead, Encoding
<1>2. /\ UNCHANGED <<stored, work, startAt, output, templen>> /\ Bytes58' = Bytes58
      /\ LeadingZeros(stored)' = LeadingZeros(stored) /\ Value(stored)' = Value(stored)
  BY DEF Lead, templen, Bytes58
<1> DEFINE k == j + Led
<1>3. /\ templen \in Nat /\ j \in Nat /\ zeroCount \in Nat /\ j >= zeroCount
      /\ zeroCount <= LeadingZeros(stored) /\ LeadingZeros(stored) \in Nat
      /\ \A m \in -1 .. templen - 1 : AreInts(temp, m, templen - 1)
  BY <1>1, ScratchFacts DEF Encoding
<1>4. Led \in Nat /\ Led' = Led + 1 /\ k \in Nat /\ k = j' + Led' /\ j - 1 >= 0 /\ k <= templen /\ k >= j
  BY <1>1, <1>2, <1>3 DEF Led, Divided
<1>5. /\ temp' \in [0 .. templen - 1 -> 0 .. D - 1] /\ temp'[j - 1] = 0
      /\ \A i \in j .. templen - 1 : temp'[i] = temp[i]
  <2>1. j - 1 \in 0 .. templen - 1 /\ 0 \in 0 .. D - 1 /\ temp \in [0 .. templen - 1 -> 0 .. D - 1]
    BY <1>1, <1>3, <1>4, ScratchAssumption DEF Encoding
  <2> QED BY <1>1, <1>3, <2>1
<1>6. Divided'
  <2>1. \A i \in j' .. (j' + Led') - 1 : temp'[i] = 0
    <3> SUFFICES ASSUME NEW i \in j' .. (j' + Led') - 1 PROVE temp'[i] = 0
      OBVIOUS
    <3>1. i = j - 1 \/ i \in j .. (j + Led) - 1
      BY <1>1, <1>3, <1>4
    <3>2. \A h \in j .. (j + Led) - 1 : temp[h] = 0
      BY <1>1 DEF Divided
    <3>3. (j + Led) - 1 <= templen - 1
      BY <1>3, <1>4
    <3> QED BY <1>3, <1>4, <1>5, <3>1, <3>2, <3>3
  <2>2. k = templen \/ temp'[k] # 0
    BY <1>1, <1>3, <1>4, <1>5 DEF Divided
  <2>3. Numeral(temp', D, k - 1, templen - 1) = Value(stored)
    <3> DEFINE m == k - 1
               n == templen - 1
    <3>1. m \in Int /\ n \in Int /\ m <= n /\ D \in Int /\ m \in -1 .. n /\ \A i \in m + 1 .. n : temp'[i] = temp[i]
      <4>1. m + 1 = k
        BY <1>4
      <4>2. \A i \in k .. n : temp'[i] = temp[i]
        BY <1>3, <1>4, <1>5
      <4> QED BY <1>3, <1>4, <4>1, <4>2, ScratchAssumption
    <3>2. AreInts(temp, m, n)
      BY <1>3, <3>1
    <3>3. Numeral(temp, D, m, n) = Value(stored)
      BY <1>1, Zenon DEF Divided
    <3> HIDE DEF m, n
    <3>4. Numeral(temp', D, m, n) = Numeral(temp, D, m, n)
      BY <3>1, <3>2, NumeralSame
    <3> QED BY <3>3, <3>4 DEF m, n
  <2>4. j' + Led' = k
    BY <1>4
  <2>5. (j' + Led') - 1 = k - 1 /\ templen' = templen /\ k <= templen
    BY <1>2, <1>4, <2>4
  <2> HIDE DEF k
  <2>6. Numeral(temp', D, (j' + Led') - 1, templen' - 1) = Value(stored)'
    BY <1>2, <2>3, <2>5, Zenon
  <2>7. j' + Led' <= templen' /\ (j' + Led' = templen' \/ temp'[j' + Led'] # 0)
    BY <2>2, <2>4, <2>5
  <2> QED BY <2>1, <2>6, <2>7 DEF Divided
<1>7. Encoding'
  <2>1. j' \in zeroCount' .. templen' /\ zeroCount' \in 0 .. LeadingZeros(stored)'
    BY <1>1, <1>2, <1>3, <1>4
  <2>2. temp' \in [0 .. templen' - 1 -> 0 .. D - 1]
    BY <1>2, <1>5
  <2> QED BY <1>1, <1>2, <1>6, <2>1, <2>2 DEF Encoding
<1> QED BY <1>1, <1>2, <1>7 DEF AtAddress, AddressPlaces, Refused

LEMMA FinishKeeps == ASSUME AtAddress, Finish PROVE AtAddress'
<1>1. /\ Encoding /\ Divided /\ pc' = "return" /\ pc = "lead" /\ call' = call /\ ~Refused(call) /\ stored = Bytes58
      /\ zeroCount = 0 /\ output' = Printed(call, Written58)
  BY DEF AtAddress, Finish, Encoding, Written58, Return
<1>2. /\ UNCHANGED <<stored, work, startAt, zeroCount, temp, j, templen>> /\ Bytes58' = Bytes58
      /\ LeadingZeros(stored)' = LeadingZeros(stored) /\ Value(stored)' = Value(stored)
      /\ Written58' = Written58 /\ Led' = Led
  BY DEF Finish, templen, Bytes58, Written58, Led
<1>3. Divided'
  BY <1>1, <1>2 DEF Divided
<1>4. Encoding'
  BY <1>1, <1>2, <1>3 DEF Encoding
<1> QED BY <1>1, <1>2, <1>4 DEF AtAddress, AddressPlaces, Refused

LEMMA AddressNextKeeps == ASSUME AddressInv, WhereInv, TwisterInv, [Next]_vars PROVE AddressInv'
<1>1. call' = call
  BY CallStays
<1>2. CASE AddressNext
  <2>1. call.f \in AddressFunctions /\ AtAddress
    BY <1>2, AddressCall DEF AddressInv
  <2>2. CASE Assemble
    BY <2>1, <2>2, AssembleKeeps, <1>1 DEF AddressInv
  <2>3. CASE Reject
    <3>1. UNCHANGED addressVars /\ pc' = "return" /\ Refused(call) /\ pc = "call"
      BY <2>3 DEF Reject, Return, Called
    <3> QED BY <1>1, <2>1, <3>1 DEF AddressInv, AtAddress, AddressIdle, addressVars, Refused
  <2>4. CASE Divide
    BY <2>1, <2>4, DivideKeeps, <1>1 DEF AddressInv
  <2>5. CASE Trim
    BY <2>1, <2>5, TrimKeeps, <1>1 DEF AddressInv
  <2>6. CASE Lead
    BY <2>1, <2>6, LeadKeeps, <1>1 DEF AddressInv
  <2>7. CASE Finish
    BY <2>1, <2>7, FinishKeeps, <1>1 DEF AddressInv
  <2> QED BY <1>2, <2>2, <2>3, <2>4, <2>5, <2>6, <2>7 DEF AddressNext
<1>3. CASE UNCHANGED addressVars /\ (call.f \notin AddressFunctions \/ UNCHANGED <<call, pc>>)
  <2>1. CASE call.f \notin AddressFunctions
    BY <1>1, <1>3, <2>1 DEF AddressInv, AddressIdle, addressVars
  <2>2. CASE UNCHANGED <<call, pc>>
    <3>1. /\ UNCHANGED <<stored, work, startAt, zeroCount, temp, j, output, call, pc, templen>>
          /\ LeadingZeros(stored)' = LeadingZeros(stored) /\ Value(stored)' = Value(stored)
      BY <1>3, <2>2 DEF addressVars, templen
    <3>2. /\ Written58' = Written58 /\ Led' = Led /\ Bytes58' = Bytes58 /\ Paid' = Paid
          /\ AddressIdle' = AddressIdle /\ Value(work)' = Value(work)
      BY <3>1 DEF Written58, Led, Bytes58, Paid, AddressIdle
    <3>3. Dividing' = Dividing /\ Divided' = Divided
      BY <3>1, <3>2 DEF Dividing, Divided
    <3>4. Encoding' = Encoding
      BY <3>1, <3>2, <3>3 DEF Encoding
    <3> QED BY <3>1, <3>2, <3>4 DEF AddressInv, AtAddress, Refused
  <2> QED BY <1>3, <2>1, <2>2
<1> QED BY <1>2, <1>3, OnlyAddress

-----------------------------------------------------------------------------
(* An address is read back *)

LEMMA LeadingZerosOnly ==
    ASSUME NEW z, Len(z) \in Nat, NEW k \in 0 .. Len(z),
           \A i \in 1 .. k : z[i] = 0, k = Len(z) \/ z[k + 1] # 0
    PROVE  LeadingZeros(z) = k
<1> DEFINE l == LeadingZeros(z)
<1>1. l \in 0 .. Len(z) /\ (\A i \in 1 .. l : z[i] = 0) /\ (l = Len(z) \/ z[l + 1] # 0)
  BY LeadingZerosIs
<1> HIDE DEF l
<1>2. ~(l < k)
  <2> SUFFICES ASSUME l < k PROVE FALSE
    OBVIOUS
  <2>1. l + 1 \in 1 .. k /\ l # Len(z)
    BY <1>1
  <2> QED BY <1>1, <2>1
<1>3. ~(k < l)
  <2> SUFFICES ASSUME k < l PROVE FALSE
    OBVIOUS
  <2>1. k + 1 \in 1 .. l /\ k # Len(z)
    BY <1>1
  <2> QED BY <1>1, <2>1
<1>4. l = k
  BY <1>1, <1>2, <1>3
<1> QED BY <1>4 DEF l

LEMMA PowersRise ==
    ASSUME NEW b \in Nat, b > 0, NEW n \in Nat, PowersTo(b, n)
    PROVE  \A m \in 0 .. n : \A k \in 0 .. m : b^k <= b^m
<1>1. \A k \in 0 .. n : b^k \in Nat /\ b^k > 0
  BY PowersPositive
<1>2. ASSUME NEW m \in 0 .. n, NEW k \in 0 .. m PROVE b^k <= b^m
  <2> DEFINE T == {i \in k .. m : b^k <= b^i}
  <2>1. k \in T /\ k \in Int /\ m \in Int
    BY <1>1
  <2>2. ASSUME NEW i \in k .. m - 1, i \in T PROVE i + 1 \in T
    <3>1. i \in 0 .. n - 1 /\ i \in 0 .. n /\ k \in 0 .. n /\ i + 1 \in k .. m
      BY <1>2
    <3>2. b^(i + 1) = b * b^i /\ b^i \in Nat /\ b^k \in Nat
      BY <1>1, <3>1 DEF PowersTo
    <3> DEFINE p == b^i
    <3>3. p \in Nat /\ b^k <= p
      BY <2>2, <3>2
    <3> HIDE DEF p
    <3>4. b * p >= p
      BY <3>3
    <3>5. b^k <= b^(i + 1)
      BY <3>2, <3>3, <3>4 DEF p
    <3> QED BY <3>1, <3>5
  <2> HIDE DEF T
  <2>3. k .. m \subseteq T
    BY <2>1, <2>2, IntervalInduction
  <2>4. m \in T
    BY <2>1, <2>3
  <2> QED BY <2>4 DEF T
<1> QED BY <1>2

\* A number with a digit in front is as large as its length says.
LEMMA NumeralLarge ==
    ASSUME NEW f, NEW b \in Nat, b > 0, NEW m \in Int, NEW n \in Int, m < n,
           \A i \in m + 1 .. n : f[i] \in Nat, f[m + 1] # 0, PowersTo(b, n - m - 1)
    PROVE  Numeral(f, b, m, n) >= b^(n - m - 1)
<1> DEFINE k == n - m - 1
           T == {i \in 0 .. k : Numeral(f, b, m, m + 1 + i) >= b^i}
<1>0. k \in Nat /\ m + 1 + k = n /\ m + 1 \in m + 1 .. n /\ m \in Int /\ b \in Int
  OBVIOUS
<1>1. \A i \in 0 .. k : b^i \in Nat /\ b^i > 0
  BY <1>0, PowersPositive
<1>2. \A i \in m .. n : AreInts(f, m, i)
  BY DEF AreInts
<1>3. 0 \in T
  <2>1. m + 1 \in Int /\ m < m + 1 /\ AreInts(f, m, m + 1) /\ (m + 1) - 1 = m
    BY <1>0, <1>2
  <2>2. Numeral(f, b, m, m + 1) = Numeral(f, b, m, m) * b + f[m + 1]
    <3> DEFINE l == m + 1
    <3> HIDE DEF l
    <3>1. l \in Int /\ m < l /\ AreInts(f, m, l)
      BY <2>1 DEF l
    <3>2. Numeral(f, b, m, l) = Numeral(f, b, m, l - 1) * b + f[l]
      BY <1>0, <3>1, NumeralStep
    <3> QED BY <2>1, <3>2 DEF l
  <2>3. Numeral(f, b, m, m) = 0
    BY <1>0, NumeralEmpty
  <2>4. f[m + 1] \in Nat /\ f[m + 1] > 0
    BY <1>0
  <2>5. Numeral(f, b, m, m + 1) = f[m + 1]
    BY <2>2, <2>3, <2>4
  <2>6. b^0 = 1 /\ m + 1 + 0 = m + 1
    BY DEF PowersTo
  <2> QED BY <1>0, <2>4, <2>5, <2>6
<1>4. ASSUME NEW i \in 0 .. k - 1, i \in T PROVE i + 1 \in T
  <2> DEFINE l == m + 1 + i
             v == Numeral(f, b, m, l)
             d == f[l + 1]
             p == b^i
  <2>1. l \in Int /\ l \in m .. n /\ l + 1 \in m .. n /\ l + 1 \in m + 1 .. n /\ l + 1 = m + 1 + (i + 1)
        /\ m <= l /\ m < l + 1 /\ i \in 0 .. k /\ i + 1 \in 0 .. k
    BY <1>0
  <2> HIDE DEF l
  <2>2. Numeral(f, b, m, l + 1) = v * b + d
    <3> DEFINE h == l + 1
    <3>1. h \in Int /\ m < h /\ AreInts(f, m, h) /\ h - 1 = l
      BY <1>2, <2>1
    <3> HIDE DEF h
    <3>2. Numeral(f, b, m, h) = Numeral(f, b, m, h - 1) * b + f[h]
      BY <1>0, <3>1, NumeralStep
    <3> QED BY <3>1, <3>2 DEF h
  <2>3. v \in Int /\ d \in Nat
    BY <1>0, <1>2, <2>1, NumeralType
  <2>4. p \in Nat /\ b^(i + 1) = b * p
    BY <1>1, <2>1 DEF PowersTo
  <2>5. v >= p
    BY <1>4 DEF l
  <2> HIDE DEF v, d, p
  <2>6. v * b >= p * b
    BY <2>3, <2>4, <2>5
  <2>7. v * b + d >= b * p
    BY <2>3, <2>4, <2>6
  <2>8. Numeral(f, b, m, m + 1 + (i + 1)) >= b^(i + 1)
    BY <2>1, <2>2, <2>4, <2>7
  <2> QED BY <2>1, <2>8
<1> HIDE DEF T
<1>5. 0 .. k \subseteq T
  <2>1. 0 \in Int /\ k \in Int
    BY <1>0
  <2> HIDE DEF k
  <2> QED BY <2>1, <1>3, <1>4, IntervalInduction
<1>6. k \in T
  BY <1>0, <1>5
<1> QED BY <1>0, <1>6 DEF T

\* More digits do not make it smaller.
LEMMA NumeralRises ==
    ASSUME NEW f, NEW b \in Nat, b > 0, NEW m \in Int, NEW l \in Int, NEW n \in Int, m <= l, l <= n,
           \A i \in m + 1 .. n : f[i] \in Nat
    PROVE  Numeral(f, b, m, l) <= Numeral(f, b, m, n)
<1> DEFINE v(i) == Numeral(f, b, m, i)
           T == {i \in l .. n : v(i) \in Int /\ v(l) <= v(i) /\ v(i) >= 0}
<1>1. \A i \in m .. n : AreInts(f, m, i)
  BY DEF AreInts
<1>2. l \in T
  <2> DEFINE U == {i \in m .. l : v(i) \in Int /\ v(i) >= 0}
  <2>1. m \in U
    BY NumeralEmpty
  <2>2. ASSUME NEW i \in m .. l - 1, i \in U PROVE i + 1 \in U
    <3> DEFINE h == i + 1
    <3>1. h \in Int /\ m < h /\ AreInts(f, m, h) /\ h - 1 = i /\ h \in m .. l /\ h \in m + 1 .. n
      BY <1>1
    <3> HIDE DEF h
    <3>2. v(h) = v(h - 1) * b + f[h] /\ f[h] \in Nat
      BY <3>1, NumeralStep
    <3> DEFINE x == v(i)
    <3>3. x \in Int /\ x >= 0
      BY <2>2
    <3>4. v(h) = x * b + f[h]
      BY <3>1, <3>2
    <3> HIDE DEF x, v
    <3>5. x * b >= 0 /\ x * b \in Int
      BY <3>3
    <3>6. v(h) \in Int /\ v(h) >= 0
      BY <3>2, <3>4, <3>5
    <3> QED BY <3>1, <3>6 DEF h
  <2> HIDE DEF U
  <2>3. m .. l \subseteq U
    BY <2>1, <2>2, IntervalInduction
  <2>4. l \in U
    BY <2>3
  <2> QED BY <2>4 DEF U
<1>3. ASSUME NEW i \in l .. n - 1, i \in T PROVE i + 1 \in T
  <2> DEFINE h == i + 1
  <2>1. h \in Int /\ m < h /\ AreInts(f, m, h) /\ h - 1 = i /\ h \in l .. n /\ h \in m + 1 .. n
    BY <1>1
  <2> HIDE DEF h
  <2>2. v(h) = v(h - 1) * b + f[h] /\ f[h] \in Nat
    BY <2>1, NumeralStep
  <2> DEFINE x == v(i)
  <2>3. x \in Int /\ x >= 0 /\ v(l) <= x /\ v(l) \in Int
    BY <1>2, <1>3
  <2>4. v(h) = x * b + f[h]
    BY <2>1, <2>2
  <2> HIDE DEF x, v
  <2>5. x * b >= x /\ x * b \in Int
    BY <2>3
  <2>6. v(h) \in Int /\ v(h) >= 0 /\ v(l) <= v(h)
    BY <2>2, <2>3, <2>4, <2>5
  <2> QED BY <2>1, <2>6 DEF h
<1> HIDE DEF T
<1>4. l .. n \subseteq T
  BY <1>2, <1>3, IntervalInduction
<1>5. n \in T
  BY <1>4
<1> QED BY <1>5 DEF T

\* The bytes of the number of some bytes.
LEMMA ByteBack ==
    ASSUME NEW z \in Seq(Byte), PowersTo(B, Len(z)), NEW l \in 1 .. Len(z)
    PROVE  (Value(z) \div B^(Len(z) - l)) % B = z[l]
<1> DEFINE n == Len(z)
           c == Numeral(z, B, 0, l)
           a == Numeral(z, B, 0, l - 1)
           low == Numeral(z, B, l, n)
           p == B^(n - l)
           v == Numeral(z, B, 0, n)
<1>0. /\ n \in Nat /\ l \in Int /\ l - 1 \in Int /\ B \in Nat /\ B > 0 /\ 0 < l /\ l <= n /\ 0 <= l - 1 /\ n - l \in 0 .. n
      /\ \A i \in 1 .. n : z[i] \in Byte
  BY BaseAssumption
<1>1. AreInts(z, 0, n) /\ AreInts(z, 0, l) /\ AreInts(z, 0, l - 1) /\ AreInts(z, l, n)
  BY <1>0 DEF AreInts, Byte
<1>2. \A k \in 0 .. n : B^k \in Nat /\ B^k > 0
  BY <1>0, PowersPositive
<1>3. PowersTo(B, n - l)
  BY <1>0 DEF PowersTo
<1>4. v = c * p + low
  <2>1. 0 \in Int /\ 0 <= l /\ n \in Int
    BY <1>0
  <2> HIDE DEF n
  <2> QED BY <1>0, <1>1, <1>3, <2>1, NumeralJoin
<1>5. low \in 0 .. p - 1
  <2>1. \A i \in l + 1 .. n : z[i] \in 0 .. B - 1
    BY <1>0 DEF Byte
  <2> HIDE DEF n
  <2> QED BY <1>0, <1>3, <2>1, NumeralBound
<1>6. c = a * B + z[l]
  BY <1>0, <1>1, NumeralStep
<1>7. c \in Int /\ a \in Int /\ p \in Nat /\ p > 0 /\ v \in Int /\ low \in Int /\ z[l] \in 0 .. B - 1
  <2>1. c \in Int /\ a \in Int /\ v \in Int /\ low \in Int
    BY <1>0, <1>1, NumeralType
  <2> QED BY <1>0, <1>2, <2>1 DEF Byte
<1> DEFINE d == z[l]
<1>8. Value(z) = v
  BY DEF Value
<1> HIDE DEF n, c, a, low, p, v, d
<1>9. v \div p = c
  BY <1>4, <1>5, <1>7, DivisionIs
<1>10. c % B = d
  <2>1. c = a * B + d /\ d \in 0 .. B - 1 /\ c \in Int /\ a \in Int
    BY <1>6, <1>7 DEF d
  <2> QED BY <1>0, <2>1, DivisionIs
<1> QED BY <1>8, <1>9, <1>10 DEF p, n, d

\* How many bytes a number takes.
LEMMA SizeOnly ==
    ASSUME NEW n \in Nat, PowersTo(B, n), NEW v \in Nat, NEW k \in 0 .. n,
           v < B^k, k = 0 \/ v >= B^(k - 1)
    PROVE  (CHOOSE i \in 0 .. n : v < B^i /\ (i = 0 \/ v >= B^(i - 1))) = k
<1> DEFINE P(i) == v < B^i /\ (i = 0 \/ v >= B^(i - 1))
           c == CHOOSE i \in 0 .. n : P(i)
<1>1. k \in 0 .. n /\ P(k)
  OBVIOUS
<1>2. c \in 0 .. n /\ P(c)
  <2> HIDE DEF P
  <2> QED BY <1>1
<1> HIDE DEF c
<1>3. B \in Nat /\ B > 0
  BY BaseAssumption
<1>4. /\ \A i \in 0 .. n : B^i \in Nat
      /\ \A m \in 0 .. n : \A i \in 0 .. m : B^i <= B^m
  BY <1>3, PowersPositive, PowersRise
<1>5. \A x, y \in 0 .. n : P(x) /\ P(y) => ~(x < y)
  <2> SUFFICES ASSUME NEW x \in 0 .. n, NEW y \in 0 .. n, P(x), P(y), x < y PROVE FALSE
    OBVIOUS
  <2>1. y - 1 \in 0 .. n /\ x \in 0 .. y - 1 /\ y # 0
    OBVIOUS
  <2>2. B^x <= B^(y - 1) /\ B^x \in Nat /\ B^(y - 1) \in Nat
    BY <1>4, <2>1
  <2> DEFINE px == B^x
             py == B^(y - 1)
  <2>3. v < px /\ v >= py
    BY <2>1
  <2> HIDE DEF px, py
  <2>4. px <= py /\ px \in Nat /\ py \in Nat
    BY <2>2 DEF px, py
  <2> QED BY <2>3, <2>4
<1>6. c = k
  <2> HIDE DEF P
  <2>1. ~(c < k) /\ ~(k < c)
    BY <1>1, <1>2, <1>5
  <2> QED BY <1>1, <1>2, <2>1
<1> QED BY <1>6 DEF c

\* A text with as many zeros in front as the bytes have, and their number, stands
\* for the bytes.
LEMMA BytesBack ==
    ASSUME stored \in Seq(Byte), PowersTo(B, Len(stored)), NEW text, Len(text) \in Nat,
           LeadingZeros(text) = LeadingZeros(stored),
           Numeral(text, D, 0, Len(text)) = Value(stored)
    PROVE  BytesOf(text) = stored
<1> DEFINE n == Len(stored)
           z == LeadingZeros(stored)
           v == Value(stored)
           k == n - z
<1>0. /\ n \in Nat /\ B \in Nat /\ B > 0 /\ \A i \in 1 .. n : stored[i] \in Byte
      /\ z \in 0 .. n /\ (\A i \in 1 .. z : stored[i] = 0) /\ (z = n \/ stored[z + 1] # 0)
  BY BaseAssumption, LeadingZerosIs
<1>1. k \in 0 .. n /\ PowersTo(B, k) /\ (k > 0 => PowersTo(B, k - 1))
  BY <1>0 DEF PowersTo
<1>2. AreInts(stored, 0, n)
  BY <1>0 DEF AreInts, Byte
<1>3. v = Numeral(stored, B, z, n)
  <2>1. 0 \in Int /\ n \in Int /\ z \in Int /\ 0 <= z /\ z <= n /\ B \in Int /\ \A i \in 0 + 1 .. z : stored[i] = 0
    BY <1>0
  <2>2. v = Numeral(stored, B, 0, n)
    BY DEF Value
  <2> HIDE DEF n, z, v
  <2> QED BY <1>2, <2>1, <2>2, NumeralAfterZeros
<1>4. v \in 0 .. B^k - 1
  <2>1. n \in Int /\ z \in Int /\ z <= n /\ \A i \in z + 1 .. n : stored[i] \in 0 .. B - 1
    BY <1>0 DEF Byte
  <2>2. PowersTo(B, n - z)
    BY <1>1
  <2> HIDE DEF n, z, v
  <2>3. Numeral(stored, B, z, n) \in 0 .. B^(n - z) - 1
    BY <1>0, <2>1, <2>2, NumeralBound
  <2> QED BY <1>3, <2>3
<1>5. k = 0 \/ v >= B^(k - 1)
  <2> SUFFICES ASSUME k # 0 PROVE v >= B^(k - 1)
    OBVIOUS
  <2>1. n \in Int /\ z \in Int /\ z < n /\ stored[z + 1] # 0 /\ \A i \in z + 1 .. n : stored[i] \in Nat
    BY <1>0 DEF Byte
  <2>2. PowersTo(B, n - z - 1)
    BY <1>0, <1>1
  <2> HIDE DEF n, z, v
  <2>3. Numeral(stored, B, z, n) >= B^(n - z - 1)
    BY <1>0, <2>1, <2>2, NumeralLarge
  <2> QED BY <1>3, <2>3
<1>6. v \in Nat /\ v < B^k
  <2>1. B^k \in Nat
    BY <1>0, <1>1, PowersPositive
  <2> HIDE DEF v, k
  <2> QED BY <1>4, <2>1
<1>7. BytesOf(text) = [i \in 1 .. z |-> 0] \o BigEndian(v, k)
  <2> DEFINE bytes == CHOOSE i \in 0 .. n : v < B^i /\ (i = 0 \/ v >= B^(i - 1))
  <2>1. bytes = k
    <3> HIDE DEF n, k, v
    <3> QED BY <1>0, <1>1, <1>5, <1>6, SizeOnly
  <2>2. BytesOf(text) = [i \in 1 .. z |-> 0] \o BigEndian(v, bytes)
    BY DEF BytesOf
  <2> QED BY <2>1, <2>2
<1>8. /\ BigEndian(v, k) \in [1 .. k -> Byte]
      /\ \A i \in 1 .. k : BigEndian(v, k)[i] = stored[z + i]
  <2>1. ASSUME NEW i \in 1 .. k PROVE (v \div B^(k - i)) % B = stored[z + i]
    <3> DEFINE l == z + i
    <3>1. l \in 1 .. n /\ n - l = k - i
      BY <1>0
    <3>2. (v \div B^(n - l)) % B = stored[l]
      <4> HIDE DEF l
      <4> QED BY <3>1, ByteBack
    <3> QED BY <3>1, <3>2
  <2>2. \A i \in 1 .. k : stored[z + i] \in Byte
    BY <1>0
  <2> QED BY <2>1, <2>2 DEF BigEndian
<1> DEFINE t == BigEndian(v, k)
           o == [i \in 1 .. z |-> 0]
<1>9. o \in Seq(Byte) /\ Len(o) = z /\ t \in Seq(Byte) /\ Len(t) = k /\ k \in Nat /\ z \in Nat
  <2>1. o \in [1 .. z -> Byte] /\ z \in Nat /\ k \in Nat
    BY <1>0, <1>1, BaseAssumption DEF Byte
  <2> HIDE DEF o, t
  <2>2. t \in [1 .. k -> Byte]
    BY <1>8 DEF t
  <2> HIDE DEF k, z
  <2> QED BY <2>1, <2>2
<1>10. \A i \in 1 .. z : o[i] = 0
  OBVIOUS
<1>11. \A i \in 1 .. k : t[i] = stored[z + i]
  BY <1>8
<1>12. n = z + k
  BY <1>0
<1>14. n \in Nat /\ \A i \in 1 .. z : stored[i] = 0
  BY <1>0
<1> HIDE DEF o, t, k, n, z
<1>13. o \o t = stored
  <2> DEFINE x == o \o t
  <2>1. x \in Seq(Byte) /\ Len(x) = n
    BY <1>9, <1>12
  <2>4. Len(stored) = n
    BY DEF n
  <2>2. \A i \in 1 .. n : x[i] = stored[i]
    <3> SUFFICES ASSUME NEW i \in 1 .. n PROVE x[i] = stored[i]
      OBVIOUS
    <3>1. CASE i <= z
      <4>1. x[i] = o[i] /\ i \in 1 .. z
        BY <1>9, <1>12, <3>1
      <4> QED BY <1>10, <1>14, <4>1
    <3>2. CASE i > z
      <4> DEFINE h == i - z
      <4>1. h \in 1 .. k /\ i = z + h
        BY <1>9, <1>12, <1>14, <3>2
      <4> HIDE DEF h
      <4>2. (o \o t)[z + h] = t[h]
        BY <1>9, <4>1, SMTT(30)
      <4>3. t[h] = stored[z + h]
        BY <1>11, <4>1
      <4> QED BY <4>1, <4>2, <4>3
    <3>3. i <= z \/ i > z
      <4>1. i \in Int /\ z \in Int
        BY <1>9, <1>14
      <4> QED BY <4>1
    <3> QED BY <3>1, <3>2, <3>3, Zenon
  <2> HIDE DEF x
  <2>3. x = stored
    BY <2>1, <2>2, <2>4, SeqEqual
  <2> QED BY <2>3 DEF x
<1> QED BY <1>7, <1>13 DEF o, t

LEMMA WrittenText ==
    ASSUME Encoding, pc = "return"
    PROVE  /\ Written58 \in Seq(0 .. D - 1)
           /\ LeadingZeros(Written58) = LeadingZeros(stored)
           /\ Numeral(Written58, D, 0, Len(Written58)) = Value(stored)
<1> DEFINE text == Written58
           n == templen - j
           z == LeadingZeros(stored)
<1>1. /\ Divided /\ zeroCount = 0 /\ j \in 0 .. templen /\ templen \in Nat /\ n \in Nat /\ z \in Nat /\ j \in Nat
      /\ temp \in [0 .. templen - 1 -> 0 .. D - 1] /\ D \in Int /\ D \in Nat /\ D > 0
      /\ \A m \in -1 .. templen - 1 : AreInts(temp, m, templen - 1)
  BY ScratchFacts, ScratchAssumption DEF Encoding
<1>2. Led = z
  BY <1>1 DEF Led
<1>3. /\ j + z <= templen
      /\ \A i \in j .. (j + z) - 1 : temp[i] = 0
      /\ j + z = templen \/ temp[j + z] # 0
      /\ Numeral(temp, D, (j + z) - 1, templen - 1) = Value(stored)
  BY <1>1, <1>2 DEF Divided
<1> HIDE DEF z
<1>4. text = [k \in 1 .. n |-> temp[(j + k) - 1]]
  <2>1. \A k \in 1 .. n : j + k - 1 = (j + k) - 1
    BY <1>1
  <2> QED BY <2>1 DEF Written58
<1>5. \A k \in 1 .. n : text[k] = temp[(j + k) - 1] /\ text[k] \in 0 .. D - 1
  BY <1>1, <1>4
<1>6. text \in [1 .. n -> 0 .. D - 1]
  BY <1>4, <1>5
<1> HIDE DEF text
<1>7. text \in Seq(0 .. D - 1) /\ Len(text) = n
  <2> HIDE DEF n
  <2> QED BY <1>1, <1>6
<1>8. LeadingZeros(text) = z
  <2>1. z \in 0 .. n
    BY <1>1, <1>3
  <2>2. \A i \in 1 .. z : text[i] = 0
    <3> SUFFICES ASSUME NEW i \in 1 .. z PROVE text[i] = 0
      OBVIOUS
    <3>1. (j + i) - 1 \in j .. (j + z) - 1 /\ i \in 1 .. n
      BY <1>1, <2>1
    <3> QED BY <1>3, <1>5, <3>1
  <2>3. z = n \/ text[z + 1] # 0
    <3> SUFFICES ASSUME z # n PROVE text[z + 1] # 0
      OBVIOUS
    <3>1. z + 1 \in 1 .. n /\ (j + (z + 1)) - 1 = j + z /\ j + z # templen
      BY <1>1, <2>1
    <3>2. temp[j + z] # 0
      BY <1>3, <3>1
    <3>3. text[z + 1] = temp[(j + (z + 1)) - 1]
      BY <1>5, <3>1
    <3> QED BY <3>1, <3>2, <3>3
  <2> HIDE DEF n
  <2> QED BY <1>1, <1>7, <2>1, <2>2, <2>3, LeadingZerosOnly
<1>9. Numeral(temp, D, j - 1, templen - 1) = Value(stored)
  <2> DEFINE m == j - 1
             l == (j + z) - 1
             h == templen - 1
  <2>1. m \in Int /\ l \in Int /\ h \in Int /\ m <= l /\ l <= h /\ m \in -1 .. h /\ m + 1 = j
    BY <1>1, <1>3
  <2>2. AreInts(temp, m, h) /\ \A i \in m + 1 .. l : temp[i] = 0
    BY <1>1, <1>3, <2>1
  <2>3. Numeral(temp, D, l, h) = Value(stored)
    BY <1>3
  <2> HIDE DEF m, l, h
  <2>4. Numeral(temp, D, m, h) = Numeral(temp, D, l, h)
    BY <1>1, <2>1, <2>2, NumeralAfterZeros
  <2> QED BY <2>3, <2>4 DEF m, h
<1>10. Numeral(text, D, 0, n) = Value(stored)
  <2> DEFINE k == j - 1
             h == templen - 1
  <2>1. k \in Int /\ 0 \in Int /\ n \in Int /\ 0 <= n /\ 0 + k = k /\ n + k = h
    BY <1>1
  <2>2. AreInts(text, 0, n)
    BY <1>1, <1>5 DEF AreInts
  <2>3. \A i \in 0 + 1 .. n : temp[i + k] = text[i]
    <3> SUFFICES ASSUME NEW i \in 1 .. n PROVE temp[i + k] = text[i]
      OBVIOUS
    <3>1. (j + i) - 1 = i + k
      BY <1>1
    <3> QED BY <1>5, <3>1
  <2>4. Numeral(temp, D, k, h) = Value(stored)
    BY <1>9
  <2> HIDE DEF k, n, h
  <2>5. Numeral(temp, D, 0 + k, n + k) = Numeral(text, D, 0, n)
    <3>1. Shifted(temp, text, k, 0, n)
      BY <2>3 DEF Shifted
    <3> QED BY <1>1, <2>1, <2>2, <3>1, ContinuedShift DEF Numeral
  <2> QED BY <2>1, <2>4, <2>5
<1> QED BY <1>7, <1>8, <1>10 DEF text, z

\* The parts of an address.
AddressParts(v, t, p) ==
    /\ v = encodeVarint(call.version) /\ t = encodeVarint(call.stream)
    /\ p = workripe(call.version, call.ripe, call.max)
    /\ v \in Seq(Byte) /\ t \in Seq(Byte) /\ p \in Seq(Byte)
    /\ Len(v) = get_varint_size(call.version) /\ Len(v) = 1 /\ v[1] = call.version
    /\ Len(t) = get_varint_size(call.stream) /\ Len(t) \in 1 .. 5
    /\ Len(p) <= RipeSize
    /\ Bytes58 = WithChecksum((v \o t) \o p)

LEMMA PartsOfAddress ==
    ASSUME WhereInv, call.f = "address", ~Refused(call)
    PROVE  \E v, t, p : AddressParts(v, t, p)
<1> DEFINE v == encodeVarint(call.version)
           t == encodeVarint(call.stream)
           p == workripe(call.version, call.ripe, call.max)
<1>1. /\ call.version \in Number /\ call.version \in 2 .. 4 /\ call.stream \in Number /\ call.ripe \in Seq(Byte)
      /\ Len(call.ripe) = RipeSize /\ call.stream \in 0 .. B^4 - 1
  BY AddressFacts DEF Refused
<1>2. v \in Seq(Byte) /\ t \in Seq(Byte) /\ p \in Seq(Byte) /\ Len(p) <= RipeSize
      /\ Len(v) = get_varint_size(call.version) /\ Len(t) = get_varint_size(call.stream)
  BY <1>1, EncodedBytes, WorkripeBytes
<1>3. call.version < Mark(1)
  BY <1>1, TextSizeAssumption, BaseAssumption DEF Mark
<1>4. Len(v) = 1 /\ v[1] = call.version
  BY <1>1, <1>2, <1>3, EncodedBytes DEF get_varint_size
<1>5. Len(t) \in 1 .. 5
  <2>1. call.stream < B^4
    BY <1>1, BytePowers, SMTT(30)
  <2> QED BY <1>2, <2>1 DEF get_varint_size
<1>6. Bytes58 = WithChecksum((v \o t) \o p)
  BY DEF Bytes58, AddressBytes
<1> HIDE DEF v, t, p
<1>7. AddressParts(v, t, p)
  BY <1>2, <1>4, <1>5, <1>6 DEF AddressParts, v, t, p
<1> QED BY <1>7

\* An address is not longer than Longest, and does not begin with a zero.
LEMMA AddressShort ==
    ASSUME WhereInv, call.f = "address", ~Refused(call), stored = Bytes58
    PROVE  /\ stored \in Seq(Byte) /\ Len(stored) \in Nat /\ Len(stored) <= Longest /\ Longest \in Nat
           /\ Len(stored) > 0 /\ LeadingZeros(stored) = 0
<1>1. PICK v, t, p : AddressParts(v, t, p)
  BY PartsOfAddress
<1> DEFINE body == (v \o t) \o p
           n == Len(stored)
<1>2. /\ v \in Seq(Byte) /\ t \in Seq(Byte) /\ p \in Seq(Byte) /\ Len(v) = 1 /\ v[1] = call.version
      /\ Len(t) \in 1 .. 5 /\ Len(p) <= RipeSize /\ stored = WithChecksum(body)
  BY <1>1 DEF AddressParts
<1>3. body \in Seq(Byte) /\ Len(body) = 1 + Len(t) + Len(p) /\ body[1] = v[1]
  <2>1. v \o t \in Seq(Byte) /\ Len(v \o t) = 1 + Len(t) /\ (v \o t)[1] = v[1]
    <3>1. v \in Seq(Byte) /\ t \in Seq(Byte) /\ Len(v) = 1 /\ Len(t) \in Nat
      BY <1>2
    <3>2. /\ v \o t \in Seq(Byte) /\ Len(v \o t) = Len(v) + Len(t)
          /\ \A i \in 1 .. Len(v) + Len(t) : (v \o t)[i] = IF i <= Len(v) THEN v[i] ELSE t[i - Len(v)]
      BY <3>1, ConcatProperties
    <3>3. 1 \in 1 .. Len(v) + Len(t) /\ 1 <= Len(v)
      BY <3>1
    <3> QED BY <3>1, <3>2, <3>3
  <2> DEFINE w == v \o t
  <2>2. w \in Seq(Byte) /\ Len(w) = 1 + Len(t) /\ w[1] = v[1] /\ p \in Seq(Byte) /\ Len(t) \in Nat
    BY <1>2, <2>1
  <2> HIDE DEF w
  <2>3. w \o p \in Seq(Byte) /\ Len(w \o p) = 1 + Len(t) + Len(p) /\ (w \o p)[1] = v[1]
    BY <2>2
  <2> QED BY <2>3 DEF w
<1>4. call.version \in 2 .. 4
  BY AddressFacts
<1> HIDE DEF body
<1>5. n \in Nat /\ n = Len(body) + ChecksumSize /\ stored[1] = body[1] /\ stored \in Seq(Byte) /\ n > 0
  <2>1. body # <<>> /\ Len(body) \in Nat /\ Len(body) > 0
    BY <1>2, <1>3
  <2> DEFINE w == WithChecksum(body)
             b == Len(body)
  <2>2. 1 \in 1 .. b /\ b \in Nat /\ ChecksumSize \in Nat
    BY <2>1, SizesAssumption
  <2>3. w \in Seq(Byte) /\ Len(w) = b + ChecksumSize /\ w[1] = body[1]
    BY <1>3, <2>1, <2>2, WithChecksumBytes
  <2>4. stored = w
    BY <1>2
  <2>5. Len(stored) = b + ChecksumSize /\ b > 0
    BY <2>1, <2>3, <2>4
  <2> HIDE DEF w, b
  <2> QED BY <2>2, <2>3, <2>4, <2>5 DEF b
<1>6. n <= Longest /\ n \in 0 .. Longest /\ Longest \in Nat
  <2> DEFINE b == Len(t)
             c == Len(p)
  <2>1. b \in 1 .. 5 /\ c \in Nat /\ c <= RipeSize /\ n = 1 + b + c + ChecksumSize /\ n \in Nat
    BY <1>2, <1>3, <1>5
  <2> HIDE DEF b, c, n
  <2> QED BY <2>1, SizesAssumption DEF Longest
<1>7. LeadingZeros(stored) = 0
  <2>1. stored[0 + 1] # 0
    BY <1>2, <1>3, <1>4, <1>5
  <2>2. 0 \in 0 .. n /\ \A i \in 1 .. 0 : stored[i] = 0
    BY <1>5
  <2> QED BY <1>5, <2>1, <2>2, LeadingZerosOnly
<1> QED BY <1>5, <1>6, <1>7

\* The buffer of an address holds all of its characters.
LEMMA TextFits ==
    ASSUME WhereInv, Encoding, pc = "return", call.f = "address", ~Refused(call), stored = Bytes58
    PROVE  Len(Written58) <= TextSize
<1> DEFINE n == Len(stored)
           text == Written58
           L == Len(text)
<1>7. /\ stored \in Seq(Byte) /\ n \in Nat /\ n <= Longest /\ Longest \in Nat /\ n > 0
      /\ LeadingZeros(stored) = 0
  BY AddressShort
<1>5. n \in Nat /\ stored \in Seq(Byte) /\ n > 0
  BY <1>7
<1>6. n <= Longest /\ n \in 0 .. Longest /\ Longest \in Nat
  BY <1>7
<1>8. text \in Seq(0 .. D - 1) /\ LeadingZeros(text) = 0 /\ Numeral(text, D, 0, L) = Value(stored)
  BY <1>7, WrittenText
<1>9. B \in Nat /\ B > 0 /\ D \in Nat /\ D > 0 /\ PowersTo(B, Longest) /\ PowersTo(D, TextSize) /\ TextSize \in Nat
  BY BaseAssumption, ScratchAssumption, LengthsAssumption, SizesAssumption
<1> DEFINE pn == B^n
           pl == B^Longest
           pd == D^TextSize
           v0 == Value(stored)
<1>10. v0 < pd /\ v0 \in Int
  <2>1. PowersTo(B, n)
    BY <1>6, <1>9 DEF PowersTo
  <2>2. 0 \in Int /\ n \in Int /\ 0 <= n /\ \A i \in 0 + 1 .. n : stored[i] \in 0 .. B - 1
    <3>1. \A i \in 1 .. n : stored[i] \in Byte
      BY <1>5
    <3> QED BY <1>5, <3>1 DEF Byte
  <2>3. PowersTo(B, n - 0)
    BY <1>5, <2>1
  <2>4. Numeral(stored, B, 0, n) \in 0 .. B^(n - 0) - 1
    <3> HIDE DEF n
    <3> QED BY <1>9, <2>2, <2>3, NumeralBound
  <2>5. v0 \in 0 .. pn - 1
    BY <1>5, <2>4 DEF Value
  <2>6. pn <= pl /\ pn \in Nat /\ pl \in Nat
    <3>1. Longest \in 0 .. Longest /\ n \in 0 .. Longest
      BY <1>6
    <3> HIDE DEF n
    <3> QED BY <1>6, <1>9, <3>1, PowersRise, PowersPositive
  <2>7. pl <= pd /\ pd \in Nat
    <3>1. TextSize \in 0 .. TextSize
      BY <1>9
    <3>2. pd \in Nat
      BY <1>9, <3>1, PowersPositive
    <3> QED BY <3>2, TextSizeAssumption
  <2> HIDE DEF v0, pn, pl, pd
  <2> QED BY <2>5, <2>6, <2>7
<1> SUFFICES ASSUME ~(L <= TextSize) PROVE FALSE
  OBVIOUS
<1> DEFINE k == TextSize + 1
<1>11. L \in Nat /\ k <= L /\ k \in Nat /\ k \in Int /\ L \in Int /\ 0 <= k /\ 0 < k
  BY <1>8, <1>9
<1>12. \A i \in 1 .. L : text[i] \in Nat
  BY <1>8, <1>9
<1> HIDE DEF text, L
<1>13. text[0 + 1] # 0
  <2>1. Len(text) = L /\ L # 0
    BY <1>11 DEF L
  <2>2. LeadingZeros(text) = Len(text) \/ text[LeadingZeros(text) + 1] # 0
    BY <1>11, <2>1, LeadingZerosIs
  <2> QED BY <1>8, <2>1, <2>2
<1>14. Numeral(text, D, 0, k) >= D^(k - 0 - 1)
  <2>1. PowersTo(D, k - 0 - 1)
    <3>1. k - 0 - 1 = TextSize
      BY <1>9
    <3> QED BY <1>9, <3>1
  <2>2. \A i \in 0 + 1 .. k : text[i] \in Nat
    BY <1>11, <1>12
  <2> HIDE DEF k
  <2> QED BY <1>9, <1>11, <1>13, <2>1, <2>2, NumeralLarge
<1>15. Numeral(text, D, 0, k) <= Numeral(text, D, 0, L)
  <2>1. \A i \in 0 + 1 .. L : text[i] \in Nat
    BY <1>12
  <2> HIDE DEF k
  <2> QED BY <1>9, <1>11, <2>1, NumeralRises
<1>16. k - 0 - 1 = TextSize
  BY <1>9
<1>17. Numeral(text, D, 0, k) \in Int /\ pd \in Int
  <2>1. AreInts(text, 0, k)
    BY <1>11, <1>12 DEF AreInts
  <2>2. pd \in Int
    <3>1. TextSize \in 0 .. TextSize
      BY <1>9
    <3> QED BY <1>9, <3>1, PowersPositive
  <2> HIDE DEF k, pd
  <2> QED BY <1>9, <1>11, <2>1, <2>2, NumeralType
<1> DEFINE x == Numeral(text, D, 0, k)
<1>18. x >= pd
  BY <1>14, <1>16
<1>19. x <= v0
  BY <1>8, <1>15 DEF L, text
<1> HIDE DEF x, v0, pd
<1> QED BY <1>10, <1>17, <1>18, <1>19 DEF x

\* Part p of a hash with the zeros that were left out.
Padded(p) == [k \in 1 .. RipeSize - Len(p) |-> 0] \o p

\* The zeros in front of a hash that were left out are told by its length.
LEMMA RipePadded ==
    ASSUME NEW version, NEW ripe \in Seq(Byte), Len(ripe) = RipeSize, NEW max
    PROVE  Padded(workripe(version, ripe, max)) = ripe
<1> DEFINE p == workripe(version, ripe, max)
<1>p. p = workripe(version, ripe, max)
  OBVIOUS
<1> HIDE DEF p
<1> SUFFICES Padded(p) = ripe
  BY <1>p
<1>0. RipeSize \in Nat /\ RipeSize > 2
  BY SizesAssumption
<1>1. ASSUME NEW i \in 0 .. RipeSize, \A k \in 1 .. i : ripe[k] = 0, p = SubSeq(ripe, i + 1, Len(ripe))
      PROVE  Padded(p) = ripe
  <2> DEFINE o == [k \in 1 .. i |-> 0]
  <2>1. /\ Len(p) = RipeSize - i /\ p \in Seq(Byte)
        /\ \A k \in 1 .. RipeSize - i : p[k] = ripe[i + k]
    BY <1>0, <1>1
  <2>2. RipeSize - Len(p) = i
    BY <1>0, <2>1
  <2>3. o \in Seq(Byte) /\ Len(o) = i /\ \A k \in 1 .. i : o[k] = 0
    <3>1. o \in [1 .. i -> Byte] /\ i \in Nat
      BY BaseAssumption DEF Byte
    <3> QED BY <3>1
  <2> HIDE DEF o
  <2> DEFINE x == o \o p
  <2>4. /\ x \in Seq(Byte) /\ Len(x) = Len(o) + Len(p)
        /\ \A k \in 1 .. Len(o) + Len(p) : x[k] = IF k <= Len(o) THEN o[k] ELSE p[k - Len(o)]
    BY <2>1, <2>3, ConcatProperties
  <2>5. Len(o) + Len(p) = RipeSize
    BY <1>0, <2>1, <2>3
  <2> HIDE DEF x
  <2>6. \A k \in 1 .. RipeSize : x[k] = ripe[k]
    <3> SUFFICES ASSUME NEW k \in 1 .. RipeSize PROVE x[k] = ripe[k]
      OBVIOUS
    <3>1. CASE k <= i
      <4>1. x[k] = o[k] /\ k \in 1 .. i
        BY <2>3, <2>4, <2>5, <3>1
      <4> QED BY <1>1, <2>3, <4>1
    <3>2. CASE ~(k <= i)
      <4>1. k - i \in 1 .. RipeSize - i /\ i + (k - i) = k
        BY <1>0, <3>2
      <4>2. x[k] = p[k - i]
        BY <2>3, <2>4, <2>5, <3>2
      <4>3. p[k - i] = ripe[i + (k - i)]
        BY <2>1, <4>1
      <4> QED BY <4>1, <4>2, <4>3
    <3> QED BY <3>1, <3>2
  <2>7. x = ripe
    BY <2>4, <2>5, <2>6, SeqEqual
  <2> QED BY <2>2, <2>7 DEF x, o, Padded
<1>2. CASE p = DropZeros(ripe)
  <2> DEFINE l == LeadingZeros(ripe)
  <2>1. l \in 0 .. RipeSize /\ \A k \in 1 .. l : ripe[k] = 0
    BY <1>0, LeadingZerosIs
  <2>2. p = SubSeq(ripe, l + 1, Len(ripe))
    BY <1>2 DEF DropZeros
  <2> HIDE DEF l
  <2> QED BY <1>1, <2>1, <2>2
<1>3. CASE p = ripe
  <2>1. 0 \in 0 .. RipeSize /\ (\A k \in 1 .. 0 : ripe[k] = 0)
    BY <1>0
  <2>2. p = SubSeq(ripe, 0 + 1, Len(ripe))
    BY <1>3
  <2> QED BY <1>1, <2>1, <2>2
<1>4. CASE p = DropTwoZeros(ripe) /\ p # ripe
  <2>1. ripe[1] = 0
    BY <1>4 DEF DropTwoZeros
  <2>2. CASE ripe[2] # 0
    <3>1. 1 \in 0 .. RipeSize /\ (\A k \in 1 .. 1 : ripe[k] = 0) /\ p = SubSeq(ripe, 1 + 1, Len(ripe))
      BY <1>0, <1>4, <2>1, <2>2 DEF DropTwoZeros
    <3> QED BY <1>1, <3>1
  <2>3. CASE ripe[2] = 0
    <3>1. 2 \in 0 .. RipeSize /\ (\A k \in 1 .. 2 : ripe[k] = 0) /\ p = SubSeq(ripe, 2 + 1, Len(ripe))
      BY <1>0, <1>4, <2>1, <2>3 DEF DropTwoZeros
    <3> QED BY <1>1, <3>1
  <2> QED BY <2>2, <2>3
<1> QED BY <1>2, <1>3, <1>4, <1>p DEF workripe

\* What an address says.
LEMMA PartsRead ==
    ASSUME NEW v, NEW t, NEW p, AddressParts(v, t, p), call.version \in Number, call.stream \in Number,
           stored = Bytes58
    PROVE  LET body    == SubSeq(stored, 1, Len(stored) - ChecksumSize)
               version == decodeVarint(body, 1)
               stream  == decodeVarint(body, 1 + version.size)
               rest    == SubSeq(body, 1 + version.size + stream.size, Len(body))
           IN  version.value = call.version /\ stream.value = call.stream /\ rest = p
<1> DEFINE vt == v \o t
           z == vt \o p
           w == WithChecksum(z)
           body == SubSeq(stored, 1, Len(stored) - ChecksumSize)
           l == Len(t)
           r0 == Len(p)
<1>0. /\ v = encodeVarint(call.version) /\ t = encodeVarint(call.stream)
      /\ v \in Seq(Byte) /\ t \in Seq(Byte) /\ p \in Seq(Byte) /\ Len(v) = 1 /\ l \in 1 .. 5 /\ r0 \in Nat
      /\ get_varint_size(call.version) = 1 /\ get_varint_size(call.stream) = l
      /\ stored = w /\ ChecksumSize \in Nat
  BY SizesAssumption DEF AddressParts
<1>1. /\ vt \in Seq(Byte) /\ Len(vt) = 1 + l
      /\ vt[1] = v[1] /\ \A k \in 1 .. l : vt[1 + k] = t[k]
  <2>1. /\ vt \in Seq(Byte) /\ Len(vt) = Len(v) + l
        /\ \A i \in 1 .. Len(v) + l : vt[i] = IF i <= Len(v) THEN v[i] ELSE t[i - Len(v)]
    BY <1>0, ConcatProperties
  <2> HIDE DEF vt, l
  <2>2. ASSUME NEW k \in 1 .. l PROVE vt[1 + k] = t[k]
    <3>1. 1 + k \in 1 .. Len(v) + l /\ ~(1 + k <= Len(v)) /\ (1 + k) - Len(v) = k
      BY <1>0
    <3> QED BY <2>1, <3>1
  <2>3. 1 \in 1 .. Len(v) + l /\ 1 <= Len(v)
    BY <1>0
  <2> QED BY <1>0, <2>1, <2>2, <2>3
<1>2. /\ z \in Seq(Byte) /\ Len(z) = 1 + l + r0
      /\ \A k \in 1 .. 1 + l : z[k] = vt[k]
      /\ \A k \in 1 .. r0 : z[1 + l + k] = p[k]
  <2> HIDE DEF vt, l
  <2>1. /\ z \in Seq(Byte) /\ Len(z) = Len(vt) + r0
        /\ \A i \in 1 .. Len(vt) + r0 : z[i] = IF i <= Len(vt) THEN vt[i] ELSE p[i - Len(vt)]
    BY <1>0, <1>1, ConcatProperties
  <2> HIDE DEF z, r0
  <2>2. ASSUME NEW k \in 1 .. r0 PROVE z[1 + l + k] = p[k]
    <3>1. 1 + l + k \in 1 .. Len(vt) + r0 /\ ~(1 + l + k <= Len(vt)) /\ (1 + l + k) - Len(vt) = k
      BY <1>0, <1>1
    <3> QED BY <2>1, <3>1
  <2>3. ASSUME NEW k \in 1 .. 1 + l PROVE z[k] = vt[k]
    <3>1. k \in 1 .. Len(vt) + r0 /\ k <= Len(vt)
      BY <1>0, <1>1
    <3> QED BY <2>1, <3>1
  <2> QED BY <1>0, <1>1, <2>1, <2>2, <2>3
<1> HIDE DEF vt, z, l, r0
<1>3. w \in Seq(Byte) /\ Len(w) = Len(z) + ChecksumSize /\ \A k \in 1 .. Len(z) : w[k] = z[k]
  <2>1. z # <<>>
    BY <1>0, <1>2
  <2> QED BY <1>2, <2>1, WithChecksumBytes
<1>4. body = z
  <2> DEFINE n == Len(z)
  <2>1. n \in Nat /\ Len(stored) - ChecksumSize = n
    BY <1>0, <1>2, <1>3
  <2> HIDE DEF n, w
  <2>2. SubSeq(stored, 1, n) \in Seq(Byte) /\ Len(SubSeq(stored, 1, n)) = n
        /\ \A k \in 1 .. n : SubSeq(stored, 1, n)[k] = stored[k]
    BY <1>0, <1>3, <2>1
  <2>3. Len(z) = n /\ \A k \in 1 .. n : SubSeq(stored, 1, n)[k] = z[k]
    BY <1>0, <1>3, <2>2 DEF n
  <2>4. SubSeq(stored, 1, n) = z
    BY <1>2, <2>2, <2>3, SeqEqual
  <2> QED BY <2>1, <2>4
<1> HIDE DEF body, w
<1>5. decodeVarint(z, 1) = [value |-> call.version, size |-> 1]
  <2>1. \A k \in 1 .. get_varint_size(call.version) : z[1 + k - 1] = encodeVarint(call.version)[k]
    <3>1. z[1] = v[1]
      BY <1>0, <1>1, <1>2
    <3> QED BY <1>0, <3>1
  <2> QED BY <1>0, <2>1, VarintReadsBack
<1>6. decodeVarint(z, 2) = [value |-> call.stream, size |-> l]
  <2>1. \A k \in 1 .. get_varint_size(call.stream) : z[2 + k - 1] = encodeVarint(call.stream)[k]
    <3> SUFFICES ASSUME NEW k \in 1 .. l PROVE z[2 + k - 1] = t[k]
      BY <1>0
    <3>1. 2 + k - 1 = 1 + k /\ 1 + k \in 1 .. 1 + l
      BY <1>0
    <3>2. z[1 + k] = vt[1 + k] /\ vt[1 + k] = t[k]
      BY <1>1, <1>2, <3>1
    <3> QED BY <3>1, <3>2
  <2> QED BY <1>0, <2>1, VarintReadsBack
<1>7. SubSeq(z, 1 + 1 + l, Len(z)) = p
  <2> DEFINE x == SubSeq(z, 1 + 1 + l, Len(z))
  <2>1. /\ x \in Seq(Byte) /\ Len(x) = r0 /\ \A k \in 1 .. r0 : x[k] = z[(1 + 1 + l) + k - 1]
    BY <1>0, <1>2
  <2> HIDE DEF x
  <2>2. \A k \in 1 .. r0 : x[k] = p[k]
    <3> SUFFICES ASSUME NEW k \in 1 .. r0 PROVE x[k] = p[k]
      OBVIOUS
    <3>1. (1 + 1 + l) + k - 1 = 1 + l + k
      BY <1>0
    <3> QED BY <1>2, <2>1, <3>1
  <2>3. Len(p) = r0
    BY DEF r0
  <2>4. x = p
    BY <1>0, <2>1, <2>2, <2>3, SeqEqual
  <2> QED BY <2>4 DEF x
<1> DEFINE version == decodeVarint(body, 1)
           stream == decodeVarint(body, 1 + version.size)
           rest == SubSeq(body, 1 + version.size + stream.size, Len(body))
<1>8. version.value = call.version /\ version.size = 1
  BY <1>4, <1>5
<1>9. stream.value = call.stream /\ stream.size = l
  BY <1>4, <1>6, <1>8
<1>10. rest = p
  BY <1>4, <1>7, <1>8, <1>9
<1> QED BY <1>8, <1>9, <1>10 DEF body

-----------------------------------------------------------------------------
(* The properties *)

LEMMA AddressTyped ==
    ASSUME AddressInv, WhereInv
    PROVE  AddressTypeOK /\ ScratchInBounds /\ ValueKept
<1>1. CASE AddressIdle
  <2>1. pc # "divide" \/ Encoding
    BY <1>1, PlacesDisjoint DEF AddressInv, AtAddress, AddressPlaces, WhereInv, PlaceKnown
  <2>2. CASE pc # "divide"
    <3>1. stored = <<>> /\ work = <<>> /\ startAt = 0 /\ zeroCount = 0 /\ temp = <<>> /\ j = 0 /\ output = <<>>
      BY <1>1 DEF AddressIdle
    <3> QED BY <2>2, <3>1 DEF AddressTypeOK, ScratchInBounds, ValueKept
  <2>3. CASE pc = "divide" /\ Encoding
    <3>1. j \in 0 .. 0 /\ stored = <<>> /\ work = <<>> /\ startAt = 0 /\ zeroCount = 0 /\ temp = <<>> /\ j = 0 /\ output = <<>>
      BY <1>1 DEF AddressIdle
    <3>2. ValueKept
      BY <2>3 DEF ValueKept, Encoding, Dividing
    <3> QED BY <3>1, <3>2 DEF AddressTypeOK, ScratchInBounds
  <2> QED BY <2>1, <2>2, <2>3
<1>2. CASE Encoding
  <2>1. /\ templen \in Nat /\ LeadingZeros(stored) \in 0 .. Len(stored) /\ Len(stored) \in Nat /\ j \in Nat
        /\ zeroCount \in Nat /\ startAt \in Nat
    BY <1>2, ScratchFacts
  <2>2. stored \in Seq(Byte) /\ work \in Seq(Byte) /\ startAt \in 0 .. Len(work) /\ zeroCount \in 0 .. Len(stored)
    BY <1>2, <2>1 DEF Encoding
  <2>3. \A k \in DOMAIN temp : temp[k] \in 0 .. D - 1
    BY <1>2 DEF Encoding
  <2>4. output \in Seq(0 .. D - 1)
    <3>1. CASE pc = "return"
      <4> DEFINE text == Written58
                 m == AtMost(Len(text), TextSize)
      <4>1. text \in Seq(0 .. D - 1) /\ output = Printed(call, text)
        BY <1>2, <3>1, WrittenText DEF Encoding
      <4> HIDE DEF text
      <4>2. m \in 0 .. Len(text)
        BY <4>1, SizesAssumption DEF AtMost
      <4>3. SubSeq(text, 1, m) \in Seq(0 .. D - 1)
        <5> HIDE DEF m
        <5>1. ASSUME NEW k \in 1 .. m PROVE text[k] \in 0 .. D - 1
          <6>1. Len(text) \in Nat
            BY <4>1
          <6>2. k \in 1 .. Len(text)
            BY <4>2, <6>1
          <6> DEFINE S == 0 .. D - 1
          <6> HIDE DEF S
          <6>3. text \in Seq(S)
            BY <4>1 DEF S
          <6> QED BY <6>2, <6>3, ElementOfSeq DEF S
        <5>2. 1 \in Int /\ m \in Int
          BY <4>1, <4>2
        <5> QED BY <5>1, <5>2, SubSeqProperties
      <4> QED BY <4>1, <4>3 DEF Printed
    <3>2. CASE pc # "return"
      BY <1>2, <3>2 DEF Encoding
    <3> QED BY <3>1, <3>2
  <2>5. ValueKept
    BY <1>2 DEF ValueKept, Encoding, Dividing
  <2>6. j \in Int /\ j >= 0
    BY <2>1
  <2> QED BY <2>2, <2>3, <2>4, <2>5, <2>6 DEF AddressTypeOK, ScratchInBounds
<1> QED BY <1>1, <1>2 DEF AddressInv, AtAddress

LEMMA AddressTold ==
    ASSUME AddressInv, WhereInv
    PROVE  AddressTellsRipe
<1> SUFFICES ASSUME pc = "return", call.f \in AddressFunctions, ~Refused(call)
             PROVE  /\ BytesOf(output) = stored
                    /\ call.f = "address" =>
                          LET body    == SubSeq(stored, 1, Len(stored) - ChecksumSize)
                              version == decodeVarint(body, 1)
                              stream  == decodeVarint(body, 1 + version.size)
                              rest    == SubSeq(body, 1 + version.size + stream.size, Len(body))
                          IN  /\ version.value = call.version
                              /\ stream.value = call.stream
                              /\ Len(rest) <= RipeSize
                              /\ [k \in 1 .. RipeSize - Len(rest) |-> 0] \o rest = call.ripe
  BY DEF AddressTellsRipe, AddressFunctions
<1>1. Encoding /\ stored = Bytes58 /\ stored \in Seq(Byte)
  BY DEF AddressInv, AtAddress, Encoding
<1> DEFINE text == Written58
<1>2. /\ text \in Seq(0 .. D - 1)
      /\ LeadingZeros(text) = LeadingZeros(stored)
      /\ Numeral(text, D, 0, Len(text)) = Value(stored)
      /\ output = Printed(call, text)
  BY <1>1, WrittenText DEF Encoding
<1>3. output = text
  <2>1. CASE call.f # "address"
    BY <1>2, <2>1 DEF Printed
  <2>2. CASE call.f = "address"
    <3>1. Len(text) <= TextSize
      BY <1>1, <2>2, TextFits
    <3> DEFINE l == Len(text)
    <3>2. l \in Nat
      BY <1>2
    <3>3. AtMost(l, TextSize) = l
      BY <3>1, <3>2, SizesAssumption DEF AtMost
    <3>4. SubSeq(text, 1, l) = text
      <4> HIDE DEF text
      <4> QED BY <1>2, SubSeqFull
    <3> QED BY <1>2, <2>2, <3>3, <3>4 DEF Printed
  <2> QED BY <2>1, <2>2
<1>4. PowersTo(B, Len(stored))
  <2>1. call \in AddressCalls
    BY DEF WhereInv, CallKnown
  <2>2. CASE call.f = "bytes"
    <3>1. call.input \in Inputs /\ stored = call.input
      BY <1>1, <2>1, <2>2 DEF Bytes58, AddressCalls, encodeAddress, encodeV4Address, encodeV3Address,
                              encodeShorterV3Address, encodeWIF, base58encode, Address
    <3> QED BY <3>1, LengthsAssumption
  <2>3. CASE call.f = "wif"
    <3>1. call.key \in Keys /\ stored = KeyBytes(call.key)
      BY <1>1, <2>1, <2>3 DEF Bytes58, AddressCalls, encodeAddress, encodeV4Address, encodeV3Address,
                              encodeShorterV3Address, encodeWIF, base58encode, Address
    <3> DEFINE o == <<B \div 2>>
               z == o \o call.key
    <3>2. o \in Seq(Byte) /\ Len(o) = 1 /\ call.key \in Seq(Byte)
      <4>1. B \div 2 \in Byte
        BY BaseAssumption DEF Byte
      <4> QED BY <3>1, <4>1, InputsAssumption
    <3> HIDE DEF o
    <3>3. z \in Seq(Byte) /\ Len(z) = 1 + Len(call.key) /\ z # <<>>
      <4> DEFINE k == call.key
      <4>1. k \in Seq(Byte)
        BY <3>2
      <4> HIDE DEF k
      <4>2. o \o k \in Seq(Byte) /\ Len(o \o k) = Len(o) + Len(k)
        BY <3>2, <4>1, ConcatProperties
      <4>3. Len(o \o k) # 0 /\ Len(o \o k) = 1 + Len(k)
        BY <3>2, <4>1, <4>2
      <4> QED BY <4>2, <4>3 DEF k
    <3>4. stored = WithChecksum(z)
      BY <3>1 DEF KeyBytes, o
    <3> HIDE DEF z
    <3>5. Len(stored) = 1 + Len(call.key) + ChecksumSize
      BY <3>3, <3>4, WithChecksumBytes
    <3> QED BY <3>1, <3>5, LengthsAssumption
  <2>4. CASE call.f = "address"
    <3>1. Len(stored) <= Longest /\ Len(stored) \in Nat /\ Longest \in Nat
      BY <1>1, <2>4, AddressShort
    <3> QED BY <3>1, LengthsAssumption DEF PowersTo
  <2> QED BY <2>2, <2>3, <2>4 DEF AddressFunctions
<1>5. BytesOf(output) = stored
  <2>1. Len(text) \in Nat
    BY <1>2
  <2> HIDE DEF text
  <2> QED BY <1>1, <1>2, <1>3, <1>4, <2>1, BytesBack
<1>6. ASSUME call.f = "address"
      PROVE  LET body    == SubSeq(stored, 1, Len(stored) - ChecksumSize)
                 version == decodeVarint(body, 1)
                 stream  == decodeVarint(body, 1 + version.size)
                 rest    == SubSeq(body, 1 + version.size + stream.size, Len(body))
             IN  /\ version.value = call.version
                 /\ stream.value = call.stream
                 /\ Len(rest) <= RipeSize
                 /\ [k \in 1 .. RipeSize - Len(rest) |-> 0] \o rest = call.ripe
  <2> DEFINE body    == SubSeq(stored, 1, Len(stored) - ChecksumSize)
             version == decodeVarint(body, 1)
             stream  == decodeVarint(body, 1 + version.size)
             rest    == SubSeq(body, 1 + version.size + stream.size, Len(body))
  <2>1. PICK v, t, p : AddressParts(v, t, p)
    BY <1>6, PartsOfAddress
  <2>2. call.version \in Number /\ call.stream \in Number /\ call.ripe \in Seq(Byte) /\ Len(call.ripe) = RipeSize
    BY <1>6, AddressFacts DEF Refused
  <2>3. version.value = call.version /\ stream.value = call.stream /\ rest = p
    BY <1>1, <2>1, <2>2, PartsRead
  <2>4. Len(p) <= RipeSize /\ p = workripe(call.version, call.ripe, call.max)
    BY <2>1 DEF AddressParts
  <2>5. [k \in 1 .. RipeSize - Len(p) |-> 0] \o p = call.ripe
    <3>1. Padded(workripe(call.version, call.ripe, call.max)) = call.ripe
      BY <2>2, RipePadded
    <3>2. Padded(p) = call.ripe
      BY <2>4, <3>1, Zenon
    <3> QED BY <3>2 DEF Padded
  <2> QED BY <2>3, <2>4, <2>5
<1> QED BY <1>5, <1>6

LEMMA AddressAlways == Spec => []AddressInv
<1>1. Init => AddressInv
  BY AddressInit
<1>2. AddressInv /\ WhereInv /\ TwisterInv /\ [Next]_vars => AddressInv'
  BY AddressNextKeeps
<1> QED BY <1>1, <1>2, TwisterCorrect, Where, PTL DEF Spec

\* base58encode never writes in front of its scratch array, however many zeros
\* the bytes begin with, and no division loses anything, for bytes of any length.
THEOREM DivisionSafe == Spec => [](AddressTypeOK /\ ScratchInBounds /\ ValueKept)
<1>1. AddressInv /\ WhereInv => AddressTypeOK /\ ScratchInBounds /\ ValueKept
  BY AddressTyped
<1> QED BY <1>1, AddressAlways, Where, PTL

\* A text of base58encode can be read back, and an address names its version, its
\* stream and all of its hash: nothing that is left out is lost, and the buffer
\* of an address cuts nothing off.
THEOREM AddressCorrect == Spec => []AddressTellsRipe
<1>1. AddressInv /\ WhereInv => AddressTellsRipe
  BY AddressTold
<1> QED BY <1>1, AddressAlways, Where, PTL
-----------------------------------------------------------------------------
(* The calls that write texts *)

LEMMA TextFacts ==
    ASSUME WhereInv, call.f \in TextFunctions
    PROVE  /\ call.f = "snprintUInt64" =>
                 /\ call.l \in Nat /\ call.l \div 10^(MaxDigits - 1) < 10
                 /\ call.room \in Nat /\ call.room > 0 /\ "l" \in DOMAIN call
           /\ call.f = "itoa" =>
                 /\ IsInt(call.l)
                 /\ call.radix \in 2 .. 36 /\ call.room = 34 /\ "l" \in DOMAIN call
           /\ call.f = "base64encode" =>
                 /\ call.data \in Seq(0 .. 255) /\ call.room = base64length(Len(call.data))
                 /\ "l" \notin DOMAIN call
           /\ call.f = "parseHex" =>
                 /\ call.str \in Seq(0 .. 16) /\ call.room = Len(call.str) \div 2
                 /\ "l" \notin DOMAIN call
           /\ call.f = "strjoin" =>
                 /\ call.array \in Seq(Seq(0 .. 255)) /\ call.room = 0 /\ "l" \notin DOMAIN call
<1>1. call \in TextCalls
  BY DEF WhereInv, CallKnown
<1>2. CASE \E n \in Sizes, l \in Numbers : call = snprintUInt64(n, l)
  BY <1>2, NumbersAssumption, BufferSizesAssumption DEF snprintUInt64
<1>3. CASE \E value \in Ints, radix \in Radices : call = itoa(value, radix)
  <2>1. PICK value \in Ints, radix \in Radices : call = itoa(value, radix)
    BY <1>3
  <2>2. /\ call.f = "itoa" /\ call.l = value /\ call.radix = radix /\ call.room = 34 /\ "l" \in DOMAIN call
    BY <2>1 DEF itoa
  <2>3. IsInt(value) /\ radix \in 2 .. 36
    BY IntsAssumption, RadicesAssumption
  <2> QED BY <2>2, <2>3
<1>4. CASE \E data \in Data : call = base64encode(data)
  BY <1>4, DataAssumption DEF base64encode
<1>5. CASE \E str \in HexTexts : call = parseHex(str)
  BY <1>5, DataAssumption DEF parseHex
<1>6. CASE \E delimiter \in Delimiters, items \in Arrays : call = strjoin(delimiter, items)
  BY <1>6, DataAssumption DEF strjoin
<1>7. \/ \E n \in Sizes, l \in Numbers : call = snprintUInt64(n, l)
      \/ \E value \in Ints, radix \in Radices : call = itoa(value, radix)
      \/ \E data \in Data : call = base64encode(data)
      \/ \E str \in HexTexts : call = parseHex(str)
      \/ \E delimiter \in Delimiters, items \in Arrays : call = strjoin(delimiter, items)
  BY <1>1 DEF TextCalls
<1> QED BY <1>2, <1>3, <1>4, <1>5, <1>6, <1>7, Zenon

-----------------------------------------------------------------------------
(* Decimal digits *)

LEMMA TenPowers ==
    /\ MaxDigits \in Nat /\ MaxDigits > 0
    /\ \A n \in 0 .. MaxDigits - 1 : 10^n \in Nat /\ 10^n > 0
    /\ 10^0 = 1
    /\ \A n \in 0 .. MaxDigits - 2 : 10^(n + 1) = 10 * 10^n
<1>0. MaxDigits \in Nat \ {0} /\ PowersTo(10, MaxDigits - 1)
  BY NumbersAssumption, Zenon
<1>1. MaxDigits \in Nat /\ MaxDigits - 1 \in Nat /\ PowersTo(10, MaxDigits - 1) /\ 10 \in Nat /\ 10 > 0
  BY <1>0
<1>2. \A n \in 0 .. MaxDigits - 1 : 10^n \in Nat /\ 10^n > 0
  <2> DEFINE m == MaxDigits - 1
  <2> HIDE DEF m
  <2> SUFFICES \A n \in 0 .. m : 10^n \in Nat /\ 10^n > 0
    BY DEF m
  <2> QED BY <1>1, PowersPositive DEF m
<1>3. /\ 10^0 = 1
      /\ \A n \in 0 .. (MaxDigits - 1) - 1 : 10^(n + 1) = 10 * 10^n
  BY <1>1, Zenon DEF PowersTo
<1>4. (MaxDigits - 1) - 1 = MaxDigits - 2
  BY <1>1
<1> QED BY <1>1, <1>2, <1>3, <1>4

\* n has p digits; zero has one.
Sized(n, p) ==
    /\ p \in 1 .. MaxDigits /\ n \in Nat
    /\ n < 10 * 10^(p - 1)
    /\ p = 1 \/ n >= 10^(p - 1)

LEMMA SizedOne ==
    ASSUME NEW n
    PROVE  Sized(n, 1) <=> n \in 0 .. 9
BY TenPowers DEF Sized

\* Without its last digit.
LEMMA SizedTenth ==
    ASSUME NEW n, NEW p, Sized(n, p), p > 1
    PROVE  Sized(n \div 10, p - 1) /\ n \div 10 > 0
<1> DEFINE e == 10^(p - 2)
           q == n \div 10
           r0 == n % 10
<1>1. p - 2 \in 0 .. MaxDigits - 2 /\ p - 2 \in 0 .. MaxDigits - 1 /\ (p - 2) + 1 = p - 1 /\ p \in 1 .. MaxDigits /\ n \in Nat
      /\ (p - 1) - 1 = p - 2
  BY TenPowers DEF Sized
<1>2. e \in Nat /\ e > 0 /\ 10^(p - 1) = 10 * e
  BY <1>1, TenPowers
<1>3. n < 10 * (10 * e) /\ n >= 10 * e
  BY <1>2 DEF Sized
<1>4. q \in Nat /\ r0 \in 0 .. 9 /\ n = 10 * q + r0
  BY <1>1
<1> HIDE DEF e, q, r0
<1>5. q < 10 * e /\ q >= e
  BY <1>2, <1>3, <1>4
<1>6. 10^((p - 1) - 1) = e
  BY <1>1 DEF e
<1>7. p - 1 \in 1 .. MaxDigits
  BY <1>1, TenPowers
<1>8. Sized(q, p - 1)
  BY <1>2, <1>4, <1>5, <1>6, <1>7 DEF Sized
<1> QED BY <1>2, <1>4, <1>5, <1>8 DEF q

\* Without its last two.
LEMMA SizedPair ==
    ASSUME NEW n, NEW p, Sized(n, p), n >= 100
    PROVE  p - 2 \in 1 .. MaxDigits /\ Sized(n \div 100, p - 2) /\ n \div 100 > 0
<1>1. p > 2
  <2>1. p # 1
    BY SizedOne
  <2>2. p # 2
    <3>1. MaxDigits > 1 => 10^1 = 10
      <4>1. MaxDigits > 1 => 10^(0 + 1) = 10 * 10^0
        BY TenPowers
      <4> QED BY <4>1, TenPowers
    <3>2. ASSUME p = 2 PROVE FALSE
      <4>1. 2 \in 1 .. MaxDigits /\ n < 10 * 10^(2 - 1)
        BY <3>2 DEF Sized
      <4>2. 2 - 1 = 1 /\ MaxDigits > 1
        BY <4>1, TenPowers
      <4>3. 10^(2 - 1) = 10 /\ n \in Nat
        BY <3>1, <4>2 DEF Sized
      <4> QED BY <4>1, <4>3
    <3> QED BY <3>2
  <2> QED BY <2>1, <2>2 DEF Sized
<1>2. /\ p \in 1 .. MaxDigits /\ n \in Nat
      /\ p > 1 /\ p - 1 > 1
  <2>1. p \in 1 .. MaxDigits /\ n \in Nat
    BY DEF Sized
  <2> QED BY <1>1, <2>1, TenPowers
<1>5. Sized(n \div 10, p - 1)
  BY <1>2, SizedTenth
<1>3. Sized((n \div 10) \div 10, (p - 1) - 1) /\ (n \div 10) \div 10 > 0
  BY <1>2, <1>5, SizedTenth
<1>4. (n \div 10) \div 10 = n \div 100
  BY <1>2
<1>6. (p - 1) - 1 = p - 2 /\ p - 2 \in 1 .. MaxDigits
  BY <1>2, TenPowers
<1> QED BY <1>3, <1>4, <1>6

LEMMA StringSizeIs ==
    ASSUME NEW l \in Nat, l \div 10^(MaxDigits - 1) < 10
    PROVE  stringSize(l) \in 1 .. MaxDigits /\ Sized(l, stringSize(l))
<1> DEFINE T == {i \in 1 .. MaxDigits : l >= 10^i}
           P(i) == /\ i = MaxDigits \/ l < 10^i
                   /\ i = 1 \/ l >= 10^(i - 1)
           n == stringSize(l)
<1> HIDE DEF T
<1>1. PICK k : FirstOf(k, T, 1, MaxDigits)
  <2>1. 1 \in Int /\ MaxDigits \in Int /\ 1 <= MaxDigits
    BY TenPowers
  <2> QED BY <2>1, FirstOutside, Zenon
<1>2. k \in 1 .. MaxDigits /\ P(k)
  <2>1. k \in 1 .. MaxDigits /\ k \in Int
    BY <1>1, TenPowers DEF FirstOf
  <2>2. k = MaxDigits \/ l < 10^k
    <3>1. k # MaxDigits => 10^k \in Nat
      BY <2>1, TenPowers
    <3> QED BY <1>1, <2>1, <3>1 DEF FirstOf, T
  <2>3. k = 1 \/ l >= 10^(k - 1)
    <3>1. k # 1 => k - 1 \in 1 .. k - 1
      BY <2>1
    <3> QED BY <1>1, <3>1 DEF FirstOf, T
  <2> QED BY <2>1, <2>2, <2>3
<1>3. stringSize(l) = CHOOSE i \in 1 .. MaxDigits : P(i)
  BY DEF stringSize
<1> HIDE DEF P
<1>4. n \in 1 .. MaxDigits /\ P(n)
  BY <1>2, <1>3
<1> HIDE DEF n
<1> DEFINE e == 10^(n - 1)
<1>5. n - 1 \in 0 .. MaxDigits - 1 /\ e \in Nat /\ e > 0
  BY <1>4, TenPowers
<1>6. l < 10 * e
  <2>1. CASE n = MaxDigits
    <3>1. l \div e < 10
      BY <2>1
    <3>2. l \div e \in Nat /\ l % e \in 0 .. e - 1 /\ l = (l \div e) * e + (l % e)
      <4> HIDE DEF e
      <4> QED BY <1>5, DivisionLeaves
    <3> DEFINE q == l \div e
               r0 == l % e
    <3> HIDE DEF q, r0, e
    <3>3. q \in 0 .. 9 /\ r0 \in 0 .. e - 1 /\ l = q * e + r0
      BY <3>1, <3>2 DEF q, r0
    <3>4. q * e <= 9 * e
      <4>1. (9 - q) \in Nat /\ (9 - q) * e \in Nat /\ q * e + (9 - q) * e = 9 * e
        BY <1>5, <3>3
      <4> QED BY <1>5, <3>3, <4>1
    <3> QED BY <1>5, <3>3, <3>4
  <2>2. CASE n # MaxDigits
    <3>1. n - 1 \in 0 .. MaxDigits - 2 /\ (n - 1) + 1 = n
      BY <1>4, <2>2, TenPowers
    <3>2. 10^n = 10 * e
      BY <3>1, TenPowers
    <3> QED BY <1>4, <2>2, <3>2 DEF P
  <2> QED BY <2>1, <2>2
<1>7. n = 1 \/ l >= e
  BY <1>4 DEF P
<1> QED BY <1>4, <1>6, <1>7 DEF Sized, n

\* A number without its last digits has as many as are left, and the next of
\* its beginnings is a tenth of it.
LEMMA FirstDigitsAre ==
    ASSUME NEW l \in Nat, l \div 10^(MaxDigits - 1) < 10
    PROVE  /\ FirstDigits(l, stringSize(l)) = l
           /\ \A k \in 1 .. stringSize(l) : Sized(FirstDigits(l, k), k) /\ (l # 0 => FirstDigits(l, k) # 0)
           /\ \A k \in 1 .. stringSize(l) : FirstDigits(l, k - 1) = FirstDigits(l, k) \div 10
<1> DEFINE n == stringSize(l)
           d(k) == FirstDigits(l, k)
<1>1. n \in 1 .. MaxDigits /\ Sized(l, n)
  BY StringSizeIs
<1> HIDE DEF n
<1>2. d(n) = l
  <2>1. d(n) = l \div 10^(n - n)
    BY <1>1 DEF FirstDigits, n
  <2>2. n - n = 0
    BY <1>1
  <2>3. 10^(n - n) = 1
    BY <2>2, TenPowers
  <2>4. l \div 1 = l
    OBVIOUS
  <2> HIDE DEF d
  <2> QED BY <2>1, <2>3, <2>4
<1>3. ASSUME NEW k \in 2 .. n PROVE d(k - 1) = d(k) \div 10
  <2> DEFINE e == 10^(n - k)
  <2>1. /\ n - k \in 0 .. MaxDigits - 2 /\ n - k \in 0 .. MaxDigits - 1 /\ (n - k) + 1 = n - (k - 1)
        /\ k # 0 /\ k - 1 # 0
    BY <1>1, TenPowers
  <2>2. e \in Nat /\ e > 0 /\ 10^(n - (k - 1)) = 10 * e
    BY <2>1, TenPowers
  <2>3. d(k) = l \div e /\ d(k - 1) = l \div (10 * e)
    BY <2>1, <2>2 DEF FirstDigits, n
  <2> HIDE DEF e, d
  <2>4. (l \div e) \div 10 = l \div (e * 10) /\ e * 10 = 10 * e
    BY <2>2, DivideTwice
  <2> QED BY <2>3, <2>4
<1> DEFINE T == {i \in 0 .. n - 1 : Sized(d(n - i), n - i) /\ (l # 0 => d(n - i) # 0)}
<1>4. 0 \in T
  <2>1. n - 0 = n /\ 0 \in 0 .. n - 1
    BY <1>1
  <2> QED BY <1>1, <1>2, <2>1
<1>5. ASSUME NEW i \in 0 .. (n - 1) - 1, i \in T PROVE i + 1 \in T
  <2> DEFINE k == n - i
  <2>1. k \in 2 .. n /\ k > 1 /\ n - (i + 1) = k - 1 /\ i + 1 \in 0 .. n - 1
    BY <1>1
  <2>2. Sized(d(k), k)
    BY <1>5
  <2> HIDE DEF k, d
  <2>3. Sized(d(k) \div 10, k - 1) /\ d(k) \div 10 > 0
    BY <2>1, <2>2, SizedTenth
  <2>4. d(k - 1) = d(k) \div 10
    BY <1>3, <2>1
  <2>5. Sized(d(k - 1), k - 1) /\ d(k - 1) # 0
    BY <2>3, <2>4
  <2> QED BY <2>1, <2>5
<1>6. 0 .. n - 1 \subseteq T
  <2>1. 0 \in Int /\ n - 1 \in Int
    BY <1>1
  <2> HIDE DEF T
  <2> QED BY <1>4, <1>5, <2>1, IntervalInduction
<1>7. ASSUME NEW k \in 1 .. n PROVE Sized(d(k), k) /\ (l # 0 => d(k) # 0)
  <2>1. n - k \in T /\ n - (n - k) = k
    <3>1. n - k \in 0 .. n - 1 /\ n - (n - k) = k
      BY <1>1
    <3> HIDE DEF T
    <3> QED BY <1>6, <3>1
  <2> HIDE DEF d
  <2> QED BY <2>1
<1>8. ASSUME NEW k \in 1 .. n PROVE d(k - 1) = d(k) \div 10
  <2>1. CASE k = 1
    <3>1. Sized(d(1), 1)
      BY <1>7, <2>1
    <3>2. d(1) \in 0 .. 9
      <4> HIDE DEF d
      <4> QED BY <3>1, SizedOne
    <3>3. d(1) \div 10 = 0
      <4> HIDE DEF d
      <4> QED BY <3>2
    <3>4. d(k - 1) = 0
      BY <2>1 DEF FirstDigits
    <3> QED BY <2>1, <3>3, <3>4
  <2>2. CASE k # 1
    <3>1. k \in 2 .. n
      BY <2>2
    <3> QED BY <1>3, <3>1
  <2> QED BY <2>1, <2>2
<1> QED BY <1>2, <1>7, <1>8 DEF n

\* A digit is taken from the number and written in front of the others.
InFront(q, g, a, f, b, p, n) ==
    /\ b \in Int /\ p \in Int /\ n \in Int /\ a \in Int /\ q \in Int
    /\ p - 1 <= n /\ AreInts(f, p - 1, n)
    /\ g[p - 1] \in Int /\ a = q * b + g[p - 1]
    /\ \A i \in p .. n : g[i] = f[i]

LEMMA DigitInFront ==
    ASSUME NEW q, NEW g, NEW a, NEW f, NEW b, NEW p, NEW n, InFront(q, g, a, f, b, p, n)
    PROVE  Continued(q, g, b, p - 2, n) = Continued(a, f, b, p - 1, n) /\ AreInts(g, p - 2, n)
<1> USE DEF InFront
<1>1. p - 2 < n /\ (p - 2) + 1 = p - 1 /\ (p - 1) + 1 = p /\ p - 2 \in Int /\ p - 1 \in Int
  OBVIOUS
<1>2. AreInts(g, p - 2, n) /\ AreInts(g, p - 1, n)
  BY <1>1 DEF AreInts
<1>3. Continued(q, g, b, p - 2, n) = Continued(q * b + g[p - 1], g, b, p - 1, n)
  <2> DEFINE m == p - 2
  <2>1. m < n /\ m \in Int /\ AreInts(g, m, n) /\ m + 1 = p - 1
    BY <1>1, <1>2
  <2> HIDE DEF m
  <2>2. Continued(q, g, b, m, n) = Continued(q * b + g[m + 1], g, b, m + 1, n)
    BY <2>1, ContinuedFirst
  <2> QED BY <2>1, <2>2 DEF m
<1>4. Continued(a, g, b, p - 1, n) = Continued(a, f, b, p - 1, n)
  <2> DEFINE m == p - 1
  <2>1. m <= n /\ m \in Int /\ AreInts(f, m, n) /\ \A i \in m + 1 .. n : g[i] = f[i]
    BY <1>1
  <2> HIDE DEF m
  <2>2. Continued(a, g, b, m, n) = Continued(a, f, b, m, n)
    BY <2>1, ContinuedSame
  <2> QED BY <2>2 DEF m
<1> QED BY <1>2, <1>3, <1>4

-----------------------------------------------------------------------------
(* snprintUInt64 *)

\* The buffer of the function called, and what may stand in it.
IsBuffer(t, n) == DOMAIN t = 0 .. n - 1 /\ \A i \in 0 .. n - 1 : t[i] \in Unset .. 255

Buffer(n) == IsBuffer(s, n)

LEMMA CharacterWritten ==
    ASSUME NEW t, NEW n \in Int, IsBuffer(t, n), NEW k \in Int, NEW v \in Unset .. 255
    PROVE  LET u0 == [t EXCEPT ![k] = v]
           IN  /\ IsBuffer(u0, n)
               /\ \A i \in 0 .. n - 1 : i # k => u0[i] = t[i]
               /\ k \in 0 .. n - 1 => u0[k] = v
<1> DEFINE u0 == [t EXCEPT ![k] = v]
<1>1. DOMAIN u0 = 0 .. n - 1 /\ \A i \in 0 .. n - 1 : u0[i] = IF i = k THEN v ELSE t[i]
  BY DEF IsBuffer
<1> HIDE DEF u0
<1>2. \A i \in 0 .. n - 1 : u0[i] \in Unset .. 255
  BY <1>1 DEF IsBuffer
<1>3. IsBuffer(u0, n)
  BY <1>1, <1>2 DEF IsBuffer
<1> QED BY <1>1, <1>3 DEF u0

\* As many of the digits as there is room for.
LengthKept ==
    /\ length \in 0 .. stringSize(call.l) /\ length < call.room
    /\ length = stringSize(call.l) \/ length = call.room - 1

\* What the digits from pos on and the number in front of them are.
Printing ==
    /\ LengthKept
    /\ pos \in 0 .. length
    /\ s[length] = Nul
    /\ AreDigits(10, pos, length)
    /\ Continued(num, s, 10, pos - 1, length - 1) = FirstDigits(call.l, length)
    /\ num = 0 => length = 0 \/ call.l = 0
    /\ IF pos = 0 THEN length = 0 /\ num = 0 ELSE Sized(num, pos)

Printed10 ==
    /\ LengthKept
    /\ num = 0 /\ pos = (IF call.room = 1 THEN -1 ELSE 0)
    /\ s[length] = Nul
    /\ AreDigits(10, 0, length)
    /\ NumberAt(10, 0, length) = FirstDigits(call.l, length)
    /\ s[0] = 0 => call.l = 0

AtPrint ==
    /\ pc \in {"call", "snprintUInt64", "wide", "narrow", "single", "return"}
    /\ pc = "call" => TextIdle
    /\ pc # "call" => Buffer(call.room) /\ start = 0 /\ end = 0
    /\ pc = "snprintUInt64" =>
          /\ pos = 0 /\ length \in 0 .. stringSize(call.l)
          /\ length = stringSize(call.l) \/ length >= call.room - 1
          /\ num = FirstDigits(call.l, length)
    /\ pc \in {"wide", "narrow", "single"} => Printing
    /\ pc = "narrow" => num <= Big
    /\ pc = "single" => num < Small
    /\ pc = "return" => Printed10

PrintCall == call.f = "snprintUInt64" /\ call' = call /\ WhereInv /\ AtPrint

LEMMA PrintFacts ==
    ASSUME PrintCall
    PROVE  /\ call.f = "snprintUInt64" /\ call' = call
           /\ call.l \in Nat /\ call.l \div 10^(MaxDigits - 1) < 10
           /\ call.room \in Nat /\ call.room > 0
           /\ stringSize(call.l) \in 1 .. MaxDigits /\ MaxDigits \in Nat /\ stringSize(call.l) \in Nat
<1>1. call.f \in TextFunctions
  BY DEF PrintCall, TextFunctions
<1> QED BY <1>1, TextFacts, StringSizeIs, TenPowers DEF PrintCall

LEMMA EnterPrintKeeps == ASSUME PrintCall, EnterText PROVE AtPrint'
<1>1. /\ pc = "call" /\ pc' = "snprintUInt64" /\ num' = call.l /\ s' = [i \in 0 .. call.room - 1 |-> Unset]
      /\ length' = stringSize(call.l) /\ UNCHANGED <<call, pos, start, end>>
  BY PrintFacts, TextFacts DEF PrintCall, EnterText, Called, TextFunctions
<1>2. pos = 0 /\ start = 0 /\ end = 0
  BY <1>1 DEF PrintCall, AtPrint, TextIdle
<1>3. FirstDigits(call.l, stringSize(call.l)) = call.l
  BY PrintFacts, FirstDigitsAre
<1>4. Buffer(call.room)'
  BY <1>1 DEF Buffer, IsBuffer, Unset
<1> QED BY <1>1, <1>2, <1>3, <1>4, PrintFacts DEF AtPrint

LEMMA CutKeeps == ASSUME PrintCall, Cut PROVE AtPrint'
<1>1. /\ pc = "snprintUInt64" /\ length >= call.room /\ length' = length - 1 /\ num' = num \div 10
      /\ UNCHANGED <<call, pc, s, pos, start, end>>
  BY DEF Cut, MustCut
<1>2. /\ pos = 0 /\ length \in 0 .. stringSize(call.l) /\ num = FirstDigits(call.l, length)
      /\ Buffer(call.room) /\ start = 0 /\ end = 0
  BY <1>1 DEF PrintCall, AtPrint
<1>3. length \in 1 .. stringSize(call.l)
  BY <1>1, <1>2, PrintFacts
<1>4. FirstDigits(call.l, length - 1) = FirstDigits(call.l, length) \div 10
  BY <1>3, PrintFacts, FirstDigitsAre
<1>5. Buffer(call.room)'
  BY <1>1, <1>2 DEF Buffer, IsBuffer
<1>6. num' = FirstDigits(call.l, length')
  BY <1>1, <1>2, <1>4
<1>7. length' \in 0 .. stringSize(call.l) /\ length' >= call.room - 1
  BY <1>1, <1>3, PrintFacts
<1> QED BY <1>1, <1>2, <1>5, <1>6, <1>7, PrintFacts DEF AtPrint

LEMMA TerminateKeeps == ASSUME PrintCall, Terminate PROVE AtPrint'
<1>1. /\ pc = "snprintUInt64" /\ length < call.room /\ pos' = length /\ s' = [s EXCEPT ![length] = Nul]
      /\ pc' = "wide" /\ UNCHANGED <<call, num, length, start, end>>
  <2>1. pc = "snprintUInt64" => length \in Int
    BY PrintFacts DEF PrintCall, AtPrint
  <2> QED BY <2>1, PrintFacts DEF Terminate, MustCut
<1>2. /\ length \in 0 .. stringSize(call.l) /\ num = FirstDigits(call.l, length)
      /\ length = stringSize(call.l) \/ length >= call.room - 1
      /\ Buffer(call.room) /\ start = 0 /\ end = 0
  BY <1>1 DEF PrintCall, AtPrint
<1>3. LengthKept'
  BY <1>1, <1>2, PrintFacts DEF LengthKept
<1>4. Buffer(call.room)' /\ s'[length] = Nul
  <2>1. length \in 0 .. call.room - 1
    BY <1>1, <1>2, PrintFacts
  <2>2. Nul \in Unset .. 255 /\ length \in Int /\ call.room \in Int
    BY <1>2, PrintFacts DEF Nul, Unset
  <2> QED BY <1>1, <1>2, <2>1, <2>2, CharacterWritten DEF Buffer, IsBuffer
<1>5. num \in Nat /\ (num = 0 => length = 0 \/ call.l = 0) /\ (IF length = 0 THEN num = 0 ELSE Sized(num, length))
  <2>1. CASE length = 0
    BY <1>2, <2>1 DEF FirstDigits
  <2>2. CASE length # 0
    <3>1. length \in 1 .. stringSize(call.l)
      BY <1>2, <2>2, PrintFacts
    <3>2. Sized(num, length) /\ (call.l # 0 => num # 0)
      BY <1>2, <3>1, PrintFacts, FirstDigitsAre
    <3> QED BY <2>2, <3>2 DEF Sized
  <2> QED BY <2>1, <2>2
<1>6. AreDigits(10, length, length)'
  BY <1>1, <1>2, PrintFacts DEF AreDigits
<1>7. Continued(num, s', 10, length - 1, length - 1) = num
  BY <1>2, <1>5, PrintFacts, ContinuedEmpty
<1>8. Printing'
  BY <1>1, <1>2, <1>3, <1>4, <1>5, <1>6, <1>7, PrintFacts DEF Printing
<1> QED BY <1>1, <1>2, <1>4, <1>8 DEF AtPrint

LEMMA PairKeeps == ASSUME PrintCall, WidePair \/ NarrowPair PROVE AtPrint'
<1> DEFINE q == num \div 100
           r0 == num - hundred(q)
<1>1. /\ pc \in {"wide", "narrow"} /\ pc' = pc /\ (pc = "wide" => num > Big) /\ (pc = "narrow" => num >= Small /\ num <= Big)
      /\ s' = [s EXCEPT ![pos - 1] = r0 % 10, ![pos - 2] = r0 \div 10]
      /\ pos' = pos - 2 /\ num' = q
      /\ UNCHANGED <<call, length, start, end>>
  BY DEF WidePair, NarrowPair, WritePair, PrintCall, AtPrint
<1>2. Printing /\ Buffer(call.room) /\ start = 0 /\ end = 0
  BY <1>1 DEF PrintCall, AtPrint
<1>3. num \in Nat /\ num >= 100 /\ Sized(num, pos)
  <2>1. pos = 0 => num = 0
    BY <1>2 DEF Printing
  <2>2. Big \in Nat /\ Small \in Nat /\ Small >= 100 /\ Small <= Big + 1
    BY WordAssumption
  <2>3. pos # 0 => Sized(num, pos) /\ num \in Nat
    BY <1>2 DEF Printing, Sized
  <2> QED BY <1>1, <2>1, <2>2, <2>3
<1>4. /\ pos - 2 \in 1 .. MaxDigits /\ Sized(q, pos - 2) /\ q > 0
  BY <1>3, SizedPair
<1>5. q \in Nat /\ r0 \in 0 .. 99 /\ r0 = num % 100 /\ num = 100 * q + r0
  <2>1. r0 \in 0 .. 99 /\ r0 = num % 100
    BY <1>3, PairIsRemainder
  <2>2. q \in Nat /\ num = 100 * q + (num % 100)
    BY <1>3
  <2> QED BY <2>1, <2>2
<1> HIDE DEF q, r0
<1> DEFINE hi == r0 \div 10
           lo == r0 % 10
<1>6. hi \in 0 .. 9 /\ lo \in 0 .. 9 /\ num = (q * 10 + hi) * 10 + lo
  BY <1>5
<1>7. s' = [[s EXCEPT ![pos - 1] = lo] EXCEPT ![pos - 2] = hi]
  BY <1>1
<1> HIDE DEF hi, lo
<1>8. /\ pos \in 0 .. length /\ length \in Nat /\ length < call.room /\ call.room \in Int /\ pos \in Int
      /\ pos - 2 \in 1 .. length /\ LengthKept /\ s[length] = Nul /\ AreDigits(10, pos, length)
  BY <1>2, <1>4, PrintFacts, TenPowers DEF Printing, LengthKept
<1>9. /\ DOMAIN s' = 0 .. call.room - 1
      /\ \A i \in 0 .. call.room - 1 : s'[i] = IF i = pos - 2 THEN hi ELSE IF i = pos - 1 THEN lo ELSE s[i]
  BY <1>2, <1>7, <1>8 DEF Buffer, IsBuffer
<1>10. Buffer(call.room)'
  <2>1. hi \in Unset .. 255 /\ lo \in Unset .. 255
    BY <1>6 DEF Unset
  <2> QED BY <1>1, <1>2, <1>9, <2>1 DEF Buffer, IsBuffer
<1>11. AreDigits(10, pos, length)'
  <2> SUFFICES ASSUME NEW i \in pos - 2 .. length - 1 PROVE s'[i] \in 0 .. 10 - 1
    BY <1>1 DEF AreDigits
  <2>1. i \in 0 .. call.room - 1
    BY <1>8
  <2>2. CASE i \in {pos - 2, pos - 1}
    BY <1>6, <1>9, <2>1, <2>2
  <2>3. CASE i \notin {pos - 2, pos - 1}
    <3>1. i \in pos .. length - 1
      BY <1>8, <2>3
    <3> QED BY <1>8, <1>9, <2>1, <2>3, <3>1 DEF AreDigits
  <2> QED BY <2>2, <2>3
<1>12. Continued(q, s', 10, pos - 3, length - 1) = Continued(num, s, 10, pos - 1, length - 1)
  <2> DEFINE n == length - 1
             a == q * 10 + hi
  <2>1. n \in Int /\ a \in Int /\ a = q * 10 + hi /\ num = a * 10 + lo /\ pos <= n + 1 /\ pos - 1 <= n
        /\ pos - 1 \in Int /\ pos - 1 <= n + 1 /\ (pos - 1) - 1 <= n /\ 10 \in Int /\ num \in Int /\ lo \in Int /\ hi \in Int /\ q \in Int
    BY <1>3, <1>5, <1>6, <1>8
  <2>2. \A i \in pos - 2 .. n : i \in 0 .. call.room - 1
    BY <1>8
  <2>3. s'[pos - 1] = lo /\ s'[pos - 2] = hi /\ \A i \in pos .. n : s'[i] = s[i]
    BY <1>8, <1>9, <2>2
  <2>4. AreInts(s, pos - 1, n)
    <3>1. (pos - 1) + 1 = pos
      BY <1>8
    <3> QED BY <1>8, <3>1 DEF AreInts, AreDigits
  <2> HIDE DEF a, n
  <2> DEFINE g == s'
  <2>5. Continued(a, g, 10, pos - 2, n) = Continued(num, s, 10, pos - 1, n) /\ AreInts(g, pos - 2, n)
    <3>1. InFront(a, g, num, s, 10, pos, n)
      BY <1>8, <2>1, <2>3, <2>4 DEF InFront
    <3> HIDE DEF g
    <3> QED BY <3>1, DigitInFront, Zenon
  <2>6. Continued(q, g, 10, (pos - 1) - 2, n) = Continued(a, g, 10, (pos - 1) - 1, n)
    <3>1. (pos - 1) - 1 = pos - 2 /\ \A i \in pos - 1 .. n : g[i] = g[i]
      BY <1>8
    <3>2. g[(pos - 1) - 1] = hi /\ AreInts(g, (pos - 1) - 1, n)
      BY <2>3, <2>5, <3>1
    <3> HIDE DEF g
    <3> DEFINE p == pos - 1
    <3>3. p \in Int /\ p <= n + 1 /\ p - 1 <= n /\ g[p - 1] = hi /\ AreInts(g, p - 1, n)
      BY <2>1, <3>2
    <3> HIDE DEF p
    <3>5. InFront(q, g, a, g, 10, p, n)
      BY <2>1, <3>3 DEF InFront
    <3>4. Continued(q, g, 10, p - 2, n) = Continued(a, g, 10, p - 1, n) /\ AreInts(g, p - 2, n)
      BY <3>5, DigitInFront, Zenon
    <3> QED BY <3>4 DEF p
  <2>7. (pos - 1) - 2 = pos - 3 /\ (pos - 1) - 1 = pos - 2
    BY <1>8
  <2> QED BY <2>5, <2>6, <2>7 DEF n
<1>13. s'[length] = Nul
  <2>1. length \in 0 .. call.room - 1 /\ length # pos - 1 /\ length # pos - 2
    BY <1>8
  <2> QED BY <1>8, <1>9, <2>1
<1>14. LengthKept' /\ pos' \in 0 .. length' /\ pos' # 0 /\ pos' - 1 = pos - 3
  BY <1>1, <1>8 DEF LengthKept
<1>15. Continued(num, s, 10, pos - 1, length - 1)' = FirstDigits(call.l, length)'
  BY <1>1, <1>2, <1>12, <1>14 DEF Printing
<1>16. Printing'
  BY <1>1, <1>4, <1>11, <1>13, <1>14, <1>15 DEF Printing
<1>17. pc = "narrow" => num' <= Big
  BY <1>1, <1>3, <1>5, WordAssumption
<1> QED BY <1>1, <1>2, <1>10, <1>16, <1>17 DEF AtPrint

LEMMA NarrowKeeps == ASSUME PrintCall, Narrow \/ Single PROVE AtPrint'
<1>1. /\ pc \in {"wide", "narrow"} /\ UNCHANGED <<call, s, pos, length, start, end>>
      /\ (pc = "wide" => pc' = "narrow" /\ num <= Big /\ num' = num % Word)
      /\ (pc = "narrow" => pc' = "single" /\ num < Small /\ num' = num)
  BY DEF Narrow, Single
<1>2. Printing /\ Buffer(call.room) /\ start = 0 /\ end = 0 /\ (pc = "narrow" => num <= Big)
  BY <1>1 DEF PrintCall, AtPrint
<1>3. num \in Nat
  BY <1>2 DEF Printing, Sized
<1>4. num' = num
  BY <1>1, <1>3, WordAssumption
<1>5. Printing' /\ Buffer(call.room)'
  BY <1>1, <1>2, <1>4 DEF Printing, LengthKept, AreDigits, Buffer, IsBuffer
<1> QED BY <1>1, <1>2, <1>4, <1>5 DEF AtPrint

LEMMA WriteDigitKeeps == ASSUME PrintCall, WriteDigit PROVE AtPrint'
<1> DEFINE q == tenth(num)
           d == num - ten(tenth(num))
<1>1. /\ pc = "single" /\ s' = [s EXCEPT ![pos - 1] = d] /\ pos' = pos - 1 /\ num' = q
      /\ pc' = (IF q = 0 THEN "return" ELSE "single")
      /\ UNCHANGED <<call, length, start, end>>
  BY DEF WriteDigit
<1>2. Printing /\ Buffer(call.room) /\ start = 0 /\ end = 0 /\ num < Small
  BY <1>1 DEF PrintCall, AtPrint
<1>3. num \in Nat
  BY <1>2 DEF Printing, Sized
<1>4. q = num \div 10 /\ q \in Nat /\ d \in 0 .. 9 /\ num = q * 10 + d /\ d = num % 10
  <2>1. q = num \div 10 /\ d = num % 10
    <3>1. num \in 0 .. Small - 1
      BY <1>2, <1>3, WordAssumption
    <3> QED BY <3>1, TenthIsATenth
  <2>2. num \div 10 \in Nat /\ num % 10 \in 0 .. 9 /\ num = 10 * (num \div 10) + (num % 10)
    BY <1>3
  <2> QED BY <2>1, <2>2
<1> HIDE DEF q, d
<1>5. /\ pos \in 0 .. length /\ length \in Nat /\ length < call.room /\ call.room \in Int /\ pos \in Int
      /\ LengthKept /\ s[length] = Nul /\ AreDigits(10, pos, length)
  BY <1>2, PrintFacts DEF Printing, LengthKept
<1>6. d \in Int /\ Unset <= d /\ d <= 255 /\ pos - 1 \in Int
  BY <1>4, <1>5 DEF Unset
<1>7. /\ Buffer(call.room)'
      /\ \A i \in 0 .. call.room - 1 : i # pos - 1 => s'[i] = s[i]
      /\ pos - 1 \in 0 .. call.room - 1 => s'[pos - 1] = d
  <2>1. /\ DOMAIN s' = 0 .. call.room - 1
        /\ \A i \in 0 .. call.room - 1 : s'[i] = IF i = pos - 1 THEN d ELSE s[i]
    BY <1>1, <1>2 DEF Buffer, IsBuffer
  <2>2. d \in Unset .. 255
    BY <1>6 DEF Unset
  <2>3. Buffer(call.room)'
    BY <1>1, <1>2, <2>1, <2>2 DEF Buffer, IsBuffer
  <2> QED BY <2>1, <2>3
<1>8. s'[length] = Nul
  <2>1. length \in 0 .. call.room - 1 /\ length # pos - 1
    BY <1>5
  <2> QED BY <1>5, <1>7, <2>1
<1>9. CASE pos = 0
  <2>1. length = 0 /\ num = 0 /\ call.room = 1
    <3>1. length = 0 /\ num = 0
      BY <1>2, <1>9 DEF Printing
    <3>2. stringSize(call.l) # 0 /\ (length = stringSize(call.l) \/ length = call.room - 1)
      BY <1>5, PrintFacts DEF LengthKept
    <3> QED BY <1>5, <3>1, <3>2
  <2>2. q = 0
    BY <1>4, <2>1
  <2>3. NumberAt(10, 0, 0)' = 0
    <3>1. 10 \in Int /\ 0 - 1 \in Int
      OBVIOUS
    <3>2. Numeral(s', 10, 0 - 1, 0 - 1) = 0
      BY <3>1, NumeralEmpty
    <3> QED BY <3>2 DEF NumberAt
  <2>4. FirstDigits(call.l, 0) = 0 /\ AreDigits(10, 0, 0)'
    BY DEF FirstDigits, AreDigits
  <2>5. s'[0] = Nul /\ Nul # 0
    BY <1>8, <2>1 DEF Nul
  <2>6. Printed10'
    BY <1>1, <1>5, <1>9, <2>1, <2>2, <2>3, <2>4, <2>5 DEF Printed10, LengthKept
  <2> QED BY <1>1, <1>2, <1>7, <2>2, <2>6 DEF AtPrint
<1>10. CASE pos # 0
  <2>1. /\ Sized(num, pos) /\ pos - 1 \in 0 .. length - 1 /\ pos - 1 \in 0 .. call.room - 1 /\ call.room # 1
        /\ (num = 0 => call.l = 0)
    BY <1>2, <1>5, <1>10 DEF Printing
  <2>2. s'[pos - 1] = d
    BY <1>7, <2>1
  <2>3. AreDigits(10, pos, length)'
    <3> SUFFICES ASSUME NEW i \in pos - 1 .. length - 1 PROVE s'[i] \in 0 .. 10 - 1
      BY <1>1 DEF AreDigits
    <3>1. CASE i = pos - 1
      BY <1>4, <2>2, <3>1
    <3>2. CASE i # pos - 1
      <4>1. i \in pos .. length - 1 /\ i \in 0 .. call.room - 1
        BY <1>5, <3>2
      <4> QED BY <1>5, <1>7, <3>2, <4>1 DEF AreDigits
    <3> QED BY <3>1, <3>2
  <2>4. Continued(q, s', 10, pos - 2, length - 1) = Continued(num, s, 10, pos - 1, length - 1)
    <3> DEFINE n == length - 1
               g == s'
    <3>1. n \in Int /\ pos <= n + 1 /\ pos - 1 <= n /\ 10 \in Int /\ d \in Int /\ q \in Int /\ num \in Int
      BY <1>3, <1>4, <1>5, <2>1
    <3>2. \A i \in pos .. n : i \in 0 .. call.room - 1 /\ i # pos - 1
      BY <1>5
    <3>3. g[pos - 1] = d /\ \A i \in pos .. n : g[i] = s[i]
      BY <1>7, <2>2, <3>2
    <3>4. AreInts(s, pos - 1, n)
      <4>1. (pos - 1) + 1 = pos
        BY <1>5
      <4> QED BY <1>5, <4>1 DEF AreInts, AreDigits
    <3> HIDE DEF n, g
    <3>6. InFront(q, g, num, s, 10, pos, n)
      BY <1>4, <1>5, <3>1, <3>3, <3>4 DEF InFront
    <3>5. Continued(q, g, 10, pos - 2, n) = Continued(num, s, 10, pos - 1, n) /\ AreInts(g, pos - 2, n)
      BY <3>6, DigitInFront, Zenon
    <3> QED BY <3>5 DEF n, g
  <2>5. LengthKept' /\ pos' \in 0 .. length' /\ pos' - 1 = pos - 2
    BY <1>1, <1>5, <2>1 DEF LengthKept
  <2>6. Continued(num, s, 10, pos - 1, length - 1)' = FirstDigits(call.l, length)'
    BY <1>1, <1>2, <2>4, <2>5 DEF Printing
  <2>7. CASE pos = 1
    <3>1. q = 0 /\ d = num
      <4>1. num \in 0 .. 9
        BY <2>1, <2>7, SizedOne
      <4> QED BY <1>4, <4>1
    <3>2. s'[0] = 0 => call.l = 0
      BY <2>1, <2>2, <2>7, <3>1
    <3>3. NumberAt(10, 0, length)' = FirstDigits(call.l, length)'
      BY <1>1, <2>6, <2>7, <3>1 DEF NumberAt, Numeral
    <3>4. Printed10'
      BY <1>1, <1>8, <2>1, <2>3, <2>5, <2>7, <3>1, <3>2, <3>3 DEF Printed10
    <3> QED BY <1>1, <1>2, <1>7, <3>1, <3>4 DEF AtPrint
  <2>8. CASE pos # 1
    <3>1. Sized(q, pos - 1) /\ q > 0
      <4>1. pos > 1
        BY <1>5, <1>10, <2>8
      <4> QED BY <1>4, <2>1, <4>1, SizedTenth
    <3>2. Printing'
      BY <1>1, <1>8, <2>3, <2>5, <2>6, <2>8, <3>1, <1>5 DEF Printing
    <3>3. q < Small
      BY <1>2, <1>3, <1>4, WordAssumption
    <3> QED BY <1>1, <1>2, <1>7, <3>1, <3>2, <3>3 DEF AtPrint
  <2> QED BY <2>7, <2>8
<1> QED BY <1>9, <1>10

-----------------------------------------------------------------------------
(* itoa, ltoa *)

\* Digits of other bases than 10 are written with the sign of the number.
sign  == IF call.l < 0 /\ ~isNegative THEN -1 ELSE 1
value == IF isNegative THEN -call.l ELSE call.l

Magnitude(n) == IF n < 0 THEN -n ELSE n

\* No more than 32 binary digits, p of which are written.
Fits(n, p) ==
    IF p <= 16 THEN Magnitude(n) * 2^p < 2^15 * 2^16 ELSE Magnitude(n) * 2^(p - 16) < 2^15

\* The first n characters of t from the last to the first.
Turned(t, n) == [i \in 1 .. n |-> t[n - i]]

\* t has, from its last digit to its first, the digits of v to the base b that
\* follow n.
Tells(g, b, v, n, t, p) ==
    /\ \A i \in 0 .. p - 1 : t[i] \in Int /\ g * t[i] \in 0 .. b - 1
    /\ Continued(n, Turned(t, p), b, 0, p) = v

AtDigits ==
    /\ pos \in 0 .. 32 /\ length = 0 /\ start = 0 /\ end = 0
    /\ num \in Int /\ sign * num >= 0
    /\ Fits(num, pos)
    /\ Tells(sign, call.radix, value, num, s, pos)

\* The characters before reverse began.
Original == [i \in 0 .. length - 1 |-> IF i \in start .. end THEN s[i] ELSE s[length - 1 - i]]

AtReverse ==
    /\ pos \in 0 .. 32 /\ length = (IF isNegative THEN pos + 1 ELSE pos) /\ num = 0
    /\ start \in Nat /\ end = length - 1 - start /\ start <= end + 1
    /\ s[length] = Nul
    /\ isNegative => Original[pos] = Minus
    /\ Tells(sign, call.radix, value, 0, Original, pos)

AfterItoa ==
    /\ pos \in 0 .. 32 /\ length \in Nat /\ num = 0 /\ start \in Nat /\ end \in Int
    /\ LET first == IF isNegative THEN 1 ELSE 0
       IN  /\ s[length] = Nul
           /\ isNegative => s[0] = Minus
           /\ \A n \in first .. length - 1 : s[n] \in Int /\ sign * s[n] \in 0 .. call.radix - 1
           /\ NumberAt(call.radix, first, length) = value

AtItoa ==
    /\ pc \in {"call", "itoa", "digits", "reverse", "return"}
    /\ pc = "call" => TextIdle
    /\ pc # "call" => Buffer(call.room)
    /\ pc = "itoa" => num = call.l /\ pos = 0 /\ length = 0 /\ start = 0 /\ end = 0
    /\ pc = "digits" => AtDigits
    /\ pc = "reverse" => AtReverse
    /\ pc = "return" => AfterItoa

ItoaCall == call.f = "itoa" /\ call' = call /\ WhereInv /\ AtItoa

LEMMA ItoaFacts ==
    ASSUME ItoaCall
    PROVE  /\ call.f = "itoa" /\ call' = call
           /\ call.l \in Int /\ IsInt(call.l) /\ call.radix \in 2 .. 36 /\ call.room = 34
           /\ isNegative \in BOOLEAN /\ sign \in {-1, 1} /\ value \in Int
           /\ sign' = sign /\ value' = value /\ isNegative' = isNegative
           /\ (isNegative => sign = 1) /\ sign * value >= 0
<1>1. call.f \in TextFunctions
  BY DEF ItoaCall, TextFunctions
<1>2. call.l \in Int /\ IsInt(call.l) /\ call.radix \in 2 .. 36 /\ call.room = 34 /\ call' = call
  <2>1. IsInt(call.l) /\ call.radix \in 2 .. 36 /\ call.room = 34 /\ call' = call
    BY <1>1, TextFacts DEF ItoaCall
  <2>2. IsInt(call.l) => call.l \in Int
    BY DEF IsInt
  <2> QED BY <2>1, <2>2
<1>3. sign' = sign /\ value' = value /\ isNegative' = isNegative
  BY <1>2 DEF sign, value, isNegative
<1>4. isNegative \in BOOLEAN /\ sign \in {-1, 1} /\ value \in Int /\ (isNegative => sign = 1) /\ sign * value >= 0
  BY <1>2 DEF sign, value, isNegative
<1> QED BY <1>2, <1>3, <1>4 DEF ItoaCall

LEMMA TellsFirst ==
    ASSUME NEW g, NEW b \in Int, NEW v \in Int, NEW t
    PROVE  Tells(g, b, v, v, t, 0)
<1>1. 0 \in Int
  OBVIOUS
<1> QED BY <1>1, ContinuedEmpty DEF Tells

LEMMA TellsSame ==
    ASSUME NEW g, NEW b, NEW v, NEW n, NEW t, NEW u0, NEW p \in Nat, Tells(g, b, v, n, t, p),
           \A i \in 0 .. p - 1 : u0[i] = t[i]
    PROVE  Tells(g, b, v, n, u0, p)
<1>1. Turned(u0, p) = Turned(t, p)
  <2>1. \A i \in 1 .. p : p - i \in 0 .. p - 1
    OBVIOUS
  <2> QED BY <2>1 DEF Turned
<1> QED BY <1>1 DEF Tells

\* One more digit is split off.
LEMMA TellsNext ==
    ASSUME NEW g, NEW b \in Int, NEW v, NEW n \in Int, NEW q \in Int, NEW t, NEW u0, NEW p \in Nat,
           Tells(g, b, v, n, t, p), \A i \in 0 .. p - 1 : u0[i] = t[i],
           u0[p] \in Int, g * u0[p] \in 0 .. b - 1, n = q * b + u0[p]
    PROVE  Tells(g, b, v, q, u0, p + 1)
<1> DEFINE f == Turned(t, p)
           h == Turned(u0, p + 1)
<1>1. \A i \in 0 .. (p + 1) - 1 : u0[i] \in Int /\ g * u0[i] \in 0 .. b - 1
  <2> SUFFICES ASSUME NEW i \in 0 .. (p + 1) - 1 PROVE u0[i] \in Int /\ g * u0[i] \in 0 .. b - 1
    OBVIOUS
  <2>1. i = p \/ i \in 0 .. p - 1
    OBVIOUS
  <2> QED BY <2>1 DEF Tells
<1>2. h[1] = u0[p] /\ \A i \in 1 .. p : h[i + 1] = f[i] /\ f[i] \in Int
  <2>1. 1 \in 1 .. p + 1 /\ (p + 1) - 1 = p
    OBVIOUS
  <2>2. \A i \in 1 .. p : i + 1 \in 1 .. p + 1 /\ (p + 1) - (i + 1) = p - i /\ p - i \in 0 .. p - 1
    OBVIOUS
  <2> QED BY <2>1, <2>2 DEF Turned, Tells
<1>3. AreInts(f, 0, p)
  BY <1>2 DEF AreInts
<1>4. AreInts(h, 0, p + 1)
  <2> SUFFICES ASSUME NEW i \in 0 + 1 .. p + 1 PROVE h[i] \in Int
    BY DEF AreInts
  <2>1. CASE i = 1
    BY <1>2, <2>1
  <2>2. CASE i # 1
    <3>1. i - 1 \in 1 .. p /\ (i - 1) + 1 = i
      BY <2>2
    <3> HIDE DEF h, f
    <3> QED BY <1>2, <3>1
  <2> QED BY <2>1, <2>2
<1>5. Continued(n, f, b, 0, p) = v
  BY DEF Tells
<1> HIDE DEF f, h
<1>6. Continued(q, h, b, 0, p + 1) = Continued(q * b + h[0 + 1], h, b, 0 + 1, p + 1)
  <2>1. 0 \in Int /\ p + 1 \in Int /\ 0 < p + 1
    OBVIOUS
  <2> QED BY <1>4, <2>1, ContinuedFirst
<1>7. q * b + h[0 + 1] = n
  BY <1>2
<1>8. Continued(n, h, b, 0 + 1, p + 1) = Continued(n, f, b, 0, p)
  <2>1. Shifted(h, f, 1, 0, p)
    BY <1>2 DEF Shifted
  <2>2. 0 \in Int /\ p \in Int /\ 1 \in Int /\ 0 <= p
    OBVIOUS
  <2> QED BY <1>3, <2>1, <2>2, ContinuedShift
<1>9. Continued(q, h, b, 0, p + 1) = v
  BY <1>5, <1>6, <1>7, <1>8
<1> QED BY <1>1, <1>9 DEF Tells, h

\* The digits turned round, from e on.
LEMMA TellsRead ==
    ASSUME NEW g, NEW b \in Int, NEW v, NEW t, NEW u0, NEW p \in Nat, NEW e \in Nat, Tells(g, b, v, 0, t, p),
           \A i \in 0 .. p - 1 : u0[e + p - 1 - i] = t[i]
    PROVE  /\ Numeral(u0, b, e - 1, e + p - 1) = v
           /\ \A i \in e .. e + p - 1 : u0[i] \in Int /\ g * u0[i] \in 0 .. b - 1
<1> DEFINE f == Turned(t, p)
<1>1. \A i \in 1 .. p : u0[i + (e - 1)] = f[i] /\ f[i] \in Int
  <2> SUFFICES ASSUME NEW i \in 1 .. p PROVE u0[i + (e - 1)] = f[i] /\ f[i] \in Int
    OBVIOUS
  <2>1. p - i \in 0 .. p - 1 /\ i + (e - 1) = e + p - 1 - (p - i) /\ f[i] = t[p - i]
    BY DEF Turned
  <2>2. u0[e + p - 1 - (p - i)] = t[p - i] /\ t[p - i] \in Int
    BY <2>1 DEF Tells
  <2> QED BY <2>1, <2>2
<1>2. Numeral(f, b, 0, p) = v
  BY DEF Tells, Numeral
<1>3. AreInts(f, 0, p)
  BY <1>1 DEF AreInts
<1> HIDE DEF f
<1>4. Numeral(u0, b, 0 + (e - 1), p + (e - 1)) = v
  <2> DEFINE k == e - 1
             z == 0
  <2>1. z \in Int /\ p \in Int /\ k \in Int /\ z <= p /\ AreInts(f, z, p) /\ Numeral(f, b, z, p) = v
    BY <1>2, <1>3
  <2>2. \A i \in z + 1 .. p : u0[i + k] = f[i]
    BY <1>1
  <2> HIDE DEF k, z
  <2>4. Shifted(u0, f, k, z, p) /\ 0 \in Int
    BY <2>2 DEF Shifted
  <2>5. Continued(0, u0, b, z + k, p + k) = Continued(0, f, b, z, p)
    BY <2>1, <2>4, ContinuedShift
  <2>3. Numeral(u0, b, z + k, p + k) = v
    BY <2>1, <2>5 DEF Numeral
  <2> QED BY <2>3 DEF k, z
<1>5. 0 + (e - 1) = e - 1 /\ p + (e - 1) = e + p - 1
  OBVIOUS
<1>6. ASSUME NEW i \in e .. e + p - 1 PROVE u0[i] \in Int /\ g * u0[i] \in 0 .. b - 1
  <2> DEFINE k == e + p - 1 - i
  <2>1. k \in 0 .. p - 1 /\ e + p - 1 - k = i
    OBVIOUS
  <2> HIDE DEF k
  <2>2. u0[e + p - 1 - k] = t[k]
    BY <2>1
  <2> QED BY <2>1, <2>2 DEF Tells
<1> QED BY <1>4, <1>5, <1>6

\* C divides towards zero: quotient and remainder have the sign of the number.
LEMMA TowardsZero ==
    ASSUME NEW n \in Int, NEW b \in 2 .. 36, NEW g \in {-1, 1}, g * n >= 0
    PROVE  /\ Quotient(n, b) \in Int /\ Remainder(n, b) \in Int
           /\ n = Quotient(n, b) * b + Remainder(n, b)
           /\ g * Quotient(n, b) >= 0 /\ g * Remainder(n, b) \in 0 .. b - 1
           /\ Magnitude(Quotient(n, b)) * 2 <= Magnitude(n)
<1> DEFINE q == Quotient(n, b)
<1>1. n >= 0 => n \div b \in Nat /\ n % b \in 0 .. b - 1 /\ n = (n \div b) * b + (n % b)
  <2>1. n >= 0 => n \in Nat /\ b \in Nat /\ b > 0
    OBVIOUS
  <2> QED BY <2>1, DivisionLeaves
<1>2. n < 0 => (-n) \div b \in Nat /\ (-n) % b \in 0 .. b - 1 /\ -n = ((-n) \div b) * b + ((-n) % b)
  <2> DEFINE m == -n
  <2>1. n < 0 => m \in Nat /\ b \in Nat /\ b > 0
    OBVIOUS
  <2> HIDE DEF m
  <2>2. n < 0 => m \div b \in Nat /\ m % b \in 0 .. b - 1 /\ m = (m \div b) * b + (m % b)
    BY <2>1, DivisionLeaves
  <2> QED BY <2>2 DEF m
<1>3. ASSUME NEW a \in Nat, NEW c \in Nat, NEW r0 \in 0 .. b - 1, a = c * b + r0
      PROVE  c * 2 <= a
  <2>1. c * (b - 2) >= 0 /\ c * (b - 2) = c * b - c * 2 /\ c * b \in Nat /\ c * 2 \in Nat
    OBVIOUS
  <2> QED BY <1>3, <2>1
<1>4. CASE n >= 0
  <2> DEFINE c == n \div b
             r0 == n % b
  <2>1. c \in Nat /\ r0 \in 0 .. b - 1 /\ n = c * b + r0 /\ n \in Nat
    BY <1>1, <1>4
  <2>2. q = c /\ Remainder(n, b) = n - c * b
    BY <1>4 DEF Quotient, Remainder
  <2> HIDE DEF c, r0, q
  <2>3. c * 2 <= n
    BY <1>3, <2>1
  <2>4. Remainder(n, b) = r0
    <3>1. c * b \in Int
      BY <2>1
    <3> QED BY <2>1, <2>2, <3>1
  <2>5. g * q >= 0 /\ g * r0 \in 0 .. b - 1
    <3>1. CASE g = 1
      BY <2>1, <2>2, <3>1
    <3>2. CASE g = -1
      <4>1. n = 0
        BY <1>4, <3>2
      <4>2. c = 0 /\ r0 = 0
        <5>1. c * b >= 0
          BY <2>1
        <5> QED BY <2>1, <2>3, <4>1, <5>1
      <4> QED BY <2>2, <3>2, <4>2
    <3> QED BY <3>1, <3>2
  <2>6. Magnitude(q) * 2 <= Magnitude(n)
    BY <2>1, <2>2, <2>3 DEF Magnitude
  <2> QED BY <2>1, <2>2, <2>4, <2>5, <2>6 DEF q
<1>5. CASE n < 0
  <2> DEFINE c == (-n) \div b
             r0 == (-n) % b
  <2>1. c \in Nat /\ r0 \in 0 .. b - 1 /\ -n = c * b + r0 /\ -n \in Nat /\ g = -1
    BY <1>2, <1>5
  <2>2. q = -c /\ Remainder(n, b) = n - (-c) * b
    BY <1>5 DEF Quotient, Remainder
  <2> HIDE DEF c, r0, q
  <2>3. c * 2 <= -n
    BY <1>3, <2>1
  <2>4. (-c) * b = -(c * b) /\ c * b \in Int
    BY <2>1
  <2>5. Remainder(n, b) = -r0
    BY <2>1, <2>2, <2>4
  <2>6. Magnitude(q) * 2 <= Magnitude(n)
    BY <1>5, <2>1, <2>2, <2>3 DEF Magnitude
  <2>7. n = q * b + (-r0)
    BY <2>1, <2>2, <2>4
  <2>8. g * q >= 0 /\ g * (-r0) \in 0 .. b - 1
    BY <2>1, <2>2
  <2> QED BY <2>1, <2>2, <2>5, <2>6, <2>7, <2>8 DEF q
<1> QED BY <1>4, <1>5

LEMMA TwoPowers ==
    /\ \A p \in 0 .. 16 : 2^p \in Nat /\ 2^p > 0
    /\ \A p \in 0 .. 15 : 2^(p + 1) = 2 * 2^p
    /\ 2^0 = 1 /\ 2^1 = 2 /\ 2^16 = 2 * 2^15
<1>0. PowersTo(2, 16)
  BY RadicesAssumption
<1>1. \A p \in 0 .. 16 : 2^p \in Nat /\ 2^p > 0
  <2>1. 2 \in Nat /\ 2 > 0 /\ 16 \in Nat
    OBVIOUS
  <2> QED BY <1>0, <2>1, PowersPositive
<1>2. 2^0 = 1 /\ \A p \in 0 .. 15 : 2^(p + 1) = 2 * 2^p
  BY <1>0 DEF PowersTo
<1>3. 2^(0 + 1) = 2 * 2^0 /\ 2^(15 + 1) = 2 * 2^15
  BY <1>2
<1> QED BY <1>1, <1>2, <1>3

LEMMA FitsFirst ==
    ASSUME NEW n, IsInt(n)
    PROVE  Fits(n, 0) /\ Fits(-n, 0)
<1> DEFINE h == 2^15
           w == 2^16
<1>1. n \in Int /\ n \div w < h /\ (-n) \div w < h
  BY DEF IsInt
<1>2. w \in Nat /\ w > 0 /\ h \in Nat /\ 2^0 = 1
  <2>1. 15 \in 0 .. 16 /\ 16 \in 0 .. 16
    OBVIOUS
  <2> QED BY <2>1, TwoPowers
<1> HIDE DEF h, w
<1>3. ASSUME NEW v \in Nat, v \div w < h PROVE v < h * w
  <2> DEFINE q == v \div w
             r0 == v % w
  <2>1. q \in Nat /\ r0 \in 0 .. w - 1 /\ v = q * w + r0
    BY <1>2, DivisionLeaves
  <2>2. q + 1 <= h
    BY <1>2, <1>3, <2>1
  <2> HIDE DEF q, r0
  <2>3. (h - (q + 1)) * w >= 0
    BY <1>2, <2>1, <2>2
  <2>4. (h - (q + 1)) * w = h * w - (q * w + w) /\ h * w \in Int /\ q * w \in Int
    BY <1>2, <2>1
  <2> QED BY <1>2, <2>1, <2>3, <2>4
<1>4. Magnitude(n) < h * w
  <2>1. CASE n >= 0
    BY <1>1, <1>3, <2>1 DEF Magnitude
  <2>2. CASE n < 0
    <3> DEFINE v == -n
    <3>1. v \in Nat /\ v \div w < h
      BY <1>1, <2>2
    <3> HIDE DEF v
    <3>2. v < h * w
      BY <1>3, <3>1
    <3> QED BY <2>2, <3>2 DEF Magnitude, v
  <2> QED BY <1>1, <2>1, <2>2
<1>5. Magnitude(-n) = Magnitude(n) /\ Magnitude(n) \in Nat
  BY <1>1 DEF Magnitude
<1>6. 0 <= 16 /\ Magnitude(n) * 2^0 = Magnitude(n)
  BY <1>2, <1>5
<1> QED BY <1>4, <1>5, <1>6 DEF Fits, h, w

\* Each digit is at least one binary digit, and there are 31 of them.
LEMMA FitsNext ==
    ASSUME NEW n \in Int, NEW q \in Int, NEW p \in 0 .. 32, Fits(n, p), n # 0,
           Magnitude(q) * 2 <= Magnitude(n)
    PROVE  p < 31 /\ Fits(q, p + 1)
<1> DEFINE m == Magnitude(n)
           k == Magnitude(q)
           h == 2^15
           w == 2^16
<1>1. m \in Nat /\ m > 0 /\ k \in Nat /\ k * 2 <= m
  BY DEF Magnitude
<1>2. h \in Nat /\ w = 2 * h
  <2>1. 15 \in 0 .. 16
    OBVIOUS
  <2> QED BY <2>1, TwoPowers
<1>3. ASSUME NEW e \in Nat, e > 0 PROVE k * (2 * e) <= m * e /\ e <= m * e /\ m * e \in Nat /\ k * (2 * e) \in Nat
  <2> HIDE DEF m, k
  <2>1. (m - k * 2) * e >= 0 /\ (m - k * 2) * e = m * e - k * (2 * e)
    BY <1>1
  <2>2. (m - 1) * e >= 0 /\ (m - 1) * e = m * e - e
    BY <1>1
  <2>3. m * e \in Nat /\ k * (2 * e) \in Nat
    BY <1>1
  <2> QED BY <2>1, <2>2, <2>3
<1>4. CASE p <= 15
  <2> DEFINE e == 2^p
  <2>1. p \in 0 .. 15 /\ p \in 0 .. 16 /\ p + 1 <= 16 /\ p <= 16
    BY <1>4
  <2>2. e \in Nat /\ e > 0 /\ 2^(p + 1) = 2 * e
    BY <2>1, TwoPowers
  <2>3. m * e < h * w
    BY <2>1 DEF Fits
  <2>4. h * w \in Int
    BY <1>2
  <2>5. k * 2^(p + 1) < h * w
    <3>1. k * (2 * e) <= m * e /\ m * e \in Nat /\ k * (2 * e) \in Nat
      BY <1>3, <2>2
    <3> HIDE DEF e, m, k, h, w
    <3>2. k * (2 * e) < h * w
      BY <2>3, <2>4, <3>1
    <3> QED BY <2>2, <3>2
  <2> HIDE DEF k
  <2> QED BY <1>4, <2>1, <2>5 DEF Fits, k
<1>5. CASE p = 16
  <2>1. m * w < h * w
    BY <1>5 DEF Fits
  <2> DEFINE one == 2^1
  <2>2. one = 2 /\ (p + 1) - 16 = 1 /\ ~(p + 1 <= 16) /\ p < 31
    BY <1>5, TwoPowers
  <2> HIDE DEF k, m, h, w
  <2>3. m < h
    <3>1. CASE m >= h
      <4>1. (m - h) * w >= 0 /\ (m - h) * w = m * w - h * w
        BY <1>1, <1>2, <3>1
      <4>2. m * w \in Int /\ h * w \in Int
        BY <1>1, <1>2
      <4> QED BY <2>1, <4>1, <4>2
    <3> QED BY <1>1, <1>2, <3>1
  <2>4. k * 2 < h
    BY <1>1, <1>2, <2>3
  <2> HIDE DEF one
  <2>5. k * one < h
    BY <2>2, <2>4
  <2>6. Magnitude(q) * 2^1 < 2^15
    BY <2>5 DEF k, one, h
  <2> QED BY <2>2, <2>6 DEF Fits
<1>6. CASE p > 16
  <2> DEFINE r0 == p - 16
             e == 2^r0
  <2>1. r0 \in 1 .. 16 /\ ~(p <= 16) /\ r0 \in 0 .. 16
    BY <1>6
  <2>2. m * e < h
    BY <2>1 DEF Fits
  <2>3. e \in Nat /\ e > 0
    BY <2>1, TwoPowers
  <2>4. e < h
    <3>1. e <= m * e /\ m * e \in Nat
      BY <1>3, <2>3
    <3> HIDE DEF e, m, h
    <3> QED BY <1>2, <2>2, <2>3, <3>1
  <2>5. r0 # 15 /\ r0 # 16
    <3>1. ~(h < h) /\ ~(w < h)
      <4> HIDE DEF h, w
      <4> QED BY <1>2
    <3>2. r0 = 15 => e = h
      OBVIOUS
    <3>3. r0 = 16 => e = w
      OBVIOUS
    <3> HIDE DEF e, h, w, r0
    <3> QED BY <2>4, <3>1, <3>2, <3>3
  <2>6. r0 < 15
    <3> HIDE DEF r0
    <3> QED BY <2>1, <2>5
  <2>7. 2^(r0 + 1) = 2 * e
    <3>1. r0 \in 0 .. 15
      BY <2>1, <2>6
    <3> HIDE DEF r0
    <3> QED BY <3>1, TwoPowers DEF e
  <2>8. (p + 1) - 16 = r0 + 1 /\ ~(p + 1 <= 16) /\ p < 31
    BY <1>6, <2>6
  <2>9. k * 2^(r0 + 1) < h
    <3>1. k * (2 * e) <= m * e /\ m * e \in Nat /\ k * (2 * e) \in Nat
      BY <1>3, <2>3
    <3> HIDE DEF e, m, k, h, r0
    <3>2. k * (2 * e) < h
      BY <1>2, <2>2, <3>1
    <3> QED BY <2>7, <3>2
  <2>10. Magnitude(q) * 2^((p + 1) - 16) < 2^15
    <3> HIDE DEF r0
    <3> QED BY <2>8, <2>9 DEF k, h
  <2> QED BY <2>8, <2>10 DEF Fits
<1> QED BY <1>4, <1>5, <1>6

LEMMA EnterItoaKeeps == ASSUME ItoaCall, EnterText PROVE AtItoa'
<1>1. /\ pc = "call" /\ pc' = "itoa" /\ num' = call.l /\ s' = [i \in 0 .. call.room - 1 |-> Unset]
      /\ length' = 0 /\ UNCHANGED <<call, pos, start, end>>
  <2>1. call.f \in TextFunctions /\ call.f = "itoa"
    BY DEF ItoaCall, TextFunctions
  <2>2. "l" \in DOMAIN call
    BY <2>1, TextFacts DEF ItoaCall
  <2> QED BY <2>1, <2>2 DEF EnterText, Called
<1>2. pos = 0 /\ start = 0 /\ end = 0
  BY <1>1 DEF ItoaCall, AtItoa, TextIdle
<1>3. Buffer(call.room)'
  BY <1>1 DEF Buffer, IsBuffer, Unset
<1> QED BY <1>1, <1>2, <1>3 DEF AtItoa

LEMMA ZeroKeeps == ASSUME ItoaCall, Zero PROVE AtItoa'
<1>1. /\ pc = "itoa" /\ num = 0 /\ s' = [s EXCEPT ![0] = 0, ![1] = Nul] /\ length' = 1 /\ pc' = "return"
      /\ UNCHANGED <<call, num, pos, start, end>>
  BY DEF Zero, Return
<1>2. Buffer(34) /\ call.l = 0 /\ pos = 0 /\ start = 0 /\ end = 0 /\ call.room = 34
  BY <1>1, ItoaFacts DEF ItoaCall, AtItoa
<1>3. ~isNegative /\ value = 0 /\ sign = 1 /\ ~isNegative' /\ value' = 0 /\ sign' = 1
  BY <1>2, ItoaFacts DEF isNegative, value, sign
<1>4. Buffer(34)' /\ s'[0] = 0 /\ s'[1] = Nul
  <2>1. DOMAIN s' = 0 .. 34 - 1 /\ \A i \in 0 .. 34 - 1 : s'[i] = IF i = 1 THEN Nul ELSE IF i = 0 THEN 0 ELSE s[i]
    BY <1>1, <1>2 DEF Buffer, IsBuffer
  <2>2. Nul \in Unset .. 255 /\ 0 \in Unset .. 255
    BY DEF Nul, Unset
  <2>3. \A i \in 0 .. 34 - 1 : s'[i] \in Unset .. 255
    BY <1>2, <2>1, <2>2 DEF Buffer, IsBuffer
  <2>4. 0 \in 0 .. 34 - 1 /\ 1 \in 0 .. 34 - 1 /\ 0 # 1
    OBVIOUS
  <2> QED BY <2>1, <2>3, <2>4 DEF Buffer, IsBuffer
<1>5. Numeral(s', call.radix, 0 - 1, 1 - 1) = 0
  <2> DEFINE m == -1
             n == 0
             b == call.radix
             f == s'
  <2>1. AreInts(f, m, n) /\ f[n] = 0
    BY <1>4 DEF AreInts
  <2>2. m \in Int /\ n \in Int /\ m < n /\ b \in Int /\ n - 1 = m
    BY ItoaFacts
  <2> HIDE DEF m, n, b, f
  <2>3. Numeral(f, b, m, n) = Numeral(f, b, m, n - 1) * b + f[n]
    BY <2>1, <2>2, NumeralStep
  <2>4. Numeral(f, b, m, m) = 0
    BY <2>2, NumeralEmpty
  <2>5. Numeral(f, b, m, n) = 0
    BY <2>1, <2>2, <2>3, <2>4
  <2>6. m = 0 - 1 /\ n = 1 - 1
    BY DEF m, n
  <2> QED BY <2>5, <2>6 DEF b, f
<1>6. AfterItoa'
  <2>1. NumberAt(call.radix, 0, length)' = 0
    BY <1>1, <1>5 DEF NumberAt
  <2>2. \A n \in 0 .. length' - 1 : s'[n] \in Int /\ 1 * s'[n] \in 0 .. call.radix - 1
    BY <1>1, <1>4, ItoaFacts
  <2>3. call'.radix = call.radix /\ pos' \in 0 .. 32 /\ length' = 1 /\ num' = 0 /\ start' = 0 /\ end' = 0
    BY <1>1, <1>2
  <2> QED BY <1>3, <1>4, <2>1, <2>2, <2>3 DEF AfterItoa
<1> QED BY <1>1, <1>2, <1>4, <1>6 DEF AtItoa

LEMMA BeginKeeps == ASSUME ItoaCall, Begin PROVE AtItoa'
<1>1. /\ pc = "itoa" /\ num' = (IF isNegative THEN -num ELSE num) /\ pc' = "digits"
      /\ UNCHANGED <<call, s, pos, length, start, end>>
  BY DEF Begin
<1>2. Buffer(call.room) /\ num = call.l /\ pos = 0 /\ length = 0 /\ start = 0 /\ end = 0
  BY <1>1 DEF ItoaCall, AtItoa
<1>3. num' = value /\ num' \in {call.l, -call.l}
  BY <1>1, <1>2 DEF value
<1>4. Fits(num', 0)
  BY <1>3, ItoaFacts, FitsFirst
<1>5. Tells(sign, call.radix, value, value, s', 0)
  BY ItoaFacts, TellsFirst
<1>6. AtDigits'
  BY <1>1, <1>2, <1>3, <1>4, <1>5, ItoaFacts DEF AtDigits
<1>7. Buffer(call.room)'
  BY <1>1, <1>2 DEF Buffer, IsBuffer
<1> QED BY <1>1, <1>6, <1>7 DEF AtItoa

LEMMA DigitKeeps == ASSUME ItoaCall, Digit PROVE AtItoa'
<1> DEFINE b == call.radix
           q == Quotient(num, b)
           r0 == Remainder(num, b)
<1>1. /\ pc = "digits" /\ num # 0 /\ s' = [s EXCEPT ![pos] = r0] /\ pos' = pos + 1 /\ num' = q
      /\ UNCHANGED <<call, pc, length, start, end>>
  BY DEF Digit
<1>2. Buffer(34) /\ AtDigits /\ call.room = 34
  BY <1>1, ItoaFacts DEF ItoaCall, AtItoa
<1>3. pos \in 0 .. 32 /\ num \in Int /\ sign * num >= 0 /\ Fits(num, pos) /\ Tells(sign, b, value, num, s, pos)
      /\ length = 0 /\ start = 0 /\ end = 0
  BY <1>2 DEF AtDigits
<1>4. b \in 2 .. 36 /\ sign \in {-1, 1} /\ sign' = sign /\ value' = value
  BY ItoaFacts
<1>5. /\ q \in Int /\ r0 \in Int /\ num = q * b + r0
      /\ sign * q >= 0 /\ sign * r0 \in 0 .. b - 1 /\ Magnitude(q) * 2 <= Magnitude(num)
  BY <1>3, <1>4, TowardsZero
<1> HIDE DEF b, q, r0
<1>6. pos < 31 /\ Fits(q, pos + 1)
  BY <1>1, <1>3, <1>5, FitsNext
<1>7. r0 \in Unset .. 255
  <2>1. CASE sign = 1
    BY <1>4, <1>5, <2>1 DEF Unset
  <2>2. CASE sign = -1
    BY <1>4, <1>5, <2>2 DEF Unset
  <2> QED BY <1>4, <2>1, <2>2
<1>8. Buffer(34)' /\ (\A i \in 0 .. 34 - 1 : i # pos => s'[i] = s[i]) /\ s'[pos] = r0
  <2> DEFINE t == s
             k == pos
  <2>1. IsBuffer(t, 34) /\ k \in Int /\ k \in 0 .. 34 - 1
    BY <1>2, <1>3, <1>6 DEF Buffer
  <2>3. 34 \in Int
    OBVIOUS
  <2> HIDE DEF t, k
  <2>2. LET u0 == [t EXCEPT ![k] = r0]
        IN  IsBuffer(u0, 34) /\ (\A i \in 0 .. 34 - 1 : i # k => u0[i] = t[i]) /\ u0[k] = r0
    BY <1>7, <2>1, <2>3, CharacterWritten
  <2> QED BY <1>1, <2>2 DEF t, k, Buffer
<1>9. Tells(sign, b, value, q, s', pos + 1)
  <2>1. \A i \in 0 .. pos - 1 : s'[i] = s[i]
    BY <1>3, <1>6, <1>8
  <2>2. s'[pos] \in Int /\ sign * s'[pos] \in 0 .. b - 1 /\ num = q * b + s'[pos]
    BY <1>5, <1>8
  <2>3. pos \in Nat /\ b \in Int
    BY <1>3, <1>4
  <2> QED BY <1>3, <1>5, <2>1, <2>2, <2>3, TellsNext, Zenon
<1>10. AtDigits'
  <2>1. pos' \in 0 .. 32 /\ length' = 0 /\ start' = 0 /\ end' = 0 /\ num' \in Int /\ sign' * num' >= 0
    BY <1>1, <1>3, <1>4, <1>5, <1>6
  <2>2. Fits(num, pos)' /\ call'.radix = b
    BY <1>1, <1>6 DEF b
  <2>3. Tells(sign, call.radix, value, num, s, pos)'
    BY <1>1, <1>4, <1>9, <2>2
  <2> QED BY <2>1, <2>2, <2>3 DEF AtDigits
<1> QED BY <1>1, <1>2, <1>8, <1>10 DEF AtItoa

LEMMA SignKeeps == ASSUME ItoaCall, Sign PROVE AtItoa'
<1>1. /\ pc = "digits" /\ num = 0 /\ length' = (IF isNegative THEN pos + 1 ELSE pos)
      /\ s' = (IF isNegative THEN [s EXCEPT ![pos] = Minus, ![pos + 1] = Nul] ELSE [s EXCEPT ![pos] = Nul])
      /\ end' = length' - 1 /\ pc' = "reverse" /\ UNCHANGED <<call, num, pos, start>>
  BY DEF Sign
<1>2. Buffer(34) /\ AtDigits /\ call.room = 34
  BY <1>1, ItoaFacts DEF ItoaCall, AtItoa
<1>3. pos \in 0 .. 32 /\ start = 0 /\ Tells(sign, call.radix, value, 0, s, pos)
  BY <1>1, <1>2 DEF AtDigits
<1>4. Buffer(34)' /\ s'[length'] = Nul /\ (isNegative => s'[pos] = Minus) /\ \A i \in 0 .. pos - 1 : s'[i] = s[i]
  <2>1. /\ DOMAIN s' = 0 .. 34 - 1
        /\ \A i \in 0 .. 34 - 1 :
              s'[i] = IF isNegative THEN IF i = pos + 1 THEN Nul ELSE IF i = pos THEN Minus ELSE s[i]
                      ELSE IF i = pos THEN Nul ELSE s[i]
    <3>1. DOMAIN s = 0 .. 34 - 1
      BY <1>2 DEF Buffer, IsBuffer
    <3>2. CASE isNegative
      BY <1>1, <3>1, <3>2
    <3>3. CASE ~isNegative
      BY <1>1, <3>1, <3>3
    <3> QED BY <3>2, <3>3
  <2>2. Nul \in Unset .. 255 /\ Minus \in Unset .. 255
    BY DEF Nul, Minus, Unset
  <2>3. \A i \in 0 .. 34 - 1 : s'[i] \in Unset .. 255
    BY <1>2, <2>1, <2>2 DEF Buffer, IsBuffer
  <2>4. pos \in 0 .. 34 - 1 /\ pos + 1 \in 0 .. 34 - 1 /\ pos # pos + 1
    BY <1>3
  <2>5. \A i \in 0 .. pos - 1 : i \in 0 .. 34 - 1 /\ i # pos /\ i # pos + 1
    BY <1>3
  <2>6. Buffer(34)'
    BY <2>1, <2>3 DEF Buffer, IsBuffer
  <2> QED BY <1>1, <2>1, <2>4, <2>5, <2>6
<1>5. \A i \in 0 .. length' - 1 : Original'[i] = s'[i]
  BY <1>1, <1>3 DEF Original
<1>6. Tells(sign, call.radix, value, 0, Original', pos)
  <2> DEFINE u0 == Original'
  <2>1. \A i \in 0 .. pos - 1 : u0[i] = s[i]
    <3>1. \A i \in 0 .. pos - 1 : i \in 0 .. length' - 1
      BY <1>1, <1>3
    <3> QED BY <1>4, <1>5, <3>1
  <2>2. pos \in Nat
    BY <1>3
  <2> HIDE DEF u0
  <2>3. Tells(sign, call.radix, value, 0, u0, pos)
    BY <1>3, <2>1, <2>2, TellsSame, Zenon
  <2> QED BY <2>3 DEF u0
<1>7. isNegative => Original'[pos] = Minus
  <2>1. isNegative => pos \in 0 .. length' - 1
    BY <1>1, <1>3
  <2> QED BY <1>4, <1>5, <2>1
<1>8. AtReverse'
  <2>1. Tells(sign, call.radix, value, 0, Original, pos)'
    BY <1>1, <1>6, ItoaFacts
  <2>2. /\ pos' \in 0 .. 32 /\ length' = (IF isNegative' THEN pos' + 1 ELSE pos') /\ num' = 0
        /\ start' \in Nat /\ end' = length' - 1 - start' /\ start' <= end' + 1
    BY <1>1, <1>3, ItoaFacts
  <2> QED BY <1>1, <1>4, <1>7, <2>1, <2>2, ItoaFacts DEF AtReverse
<1> QED BY <1>1, <1>2, <1>4, <1>8 DEF AtItoa

LEMMA SwapKeeps == ASSUME ItoaCall, Swap PROVE AtItoa'
<1>1. /\ pc = "reverse" /\ start < end /\ s' = [s EXCEPT ![start] = s[end], ![end] = s[start]]
      /\ start' = start + 1 /\ end' = end - 1 /\ UNCHANGED <<call, pc, num, pos, length>>
  BY DEF Swap, HasSwap
<1>2. Buffer(34) /\ AtReverse /\ call.room = 34
  BY <1>1, ItoaFacts DEF ItoaCall, AtItoa
<1>3. /\ pos \in 0 .. 32 /\ length = (IF isNegative THEN pos + 1 ELSE pos) /\ num = 0
      /\ start \in Nat /\ end = length - 1 - start /\ start <= end + 1 /\ s[length] = Nul
  BY <1>2 DEF AtReverse
<1>4. length \in 0 .. 33 /\ end \in 0 .. 32 /\ start \in 0 .. 32 /\ start # end /\ end # length /\ start # length
      /\ end \in 0 .. length - 1 /\ start \in 0 .. length - 1
  BY <1>1, <1>3, ItoaFacts
<1>5. /\ Buffer(34)'
      /\ \A i \in 0 .. 33 : s'[i] = IF i = start THEN s[end] ELSE IF i = end THEN s[start] ELSE s[i]
  BY <1>1, <1>2, <1>4 DEF Buffer, IsBuffer
<1>6. \A i \in 0 .. length - 1 : Original'[i] = Original[i]
  <2> SUFFICES ASSUME NEW i \in 0 .. length - 1 PROVE Original'[i] = Original[i]
    OBVIOUS
  <2>1. /\ Original[i] = (IF i \in start .. end THEN s[i] ELSE s[length - 1 - i])
        /\ Original'[i] = (IF i \in start' .. end' THEN s'[i] ELSE s'[length - 1 - i])
    BY <1>1 DEF Original
  <2>2. i \in 0 .. 33 /\ length - 1 - i \in 0 .. 33
    BY <1>4
  <2> DEFINE j0 == length - 1 - i
  <2>3. start' = start + 1 /\ end' = end - 1 /\ end = length - 1 - start
    BY <1>1, <1>3
  <2>4. /\ s'[i] = (IF i = start THEN s[end] ELSE IF i = end THEN s[start] ELSE s[i])
        /\ s'[j0] = (IF j0 = start THEN s[end] ELSE IF j0 = end THEN s[start] ELSE s[j0])
    BY <1>5, <2>2
  <2>5. /\ j0 \in Int /\ i \in Int /\ (i = start <=> j0 = end) /\ (i = end <=> j0 = start)
        /\ i \in start' .. end' <=> i \in start .. end /\ i # start /\ i # end
        /\ start \in start .. end /\ end \in start .. end
    BY <1>1, <1>3, <1>4, <2>3
  <2> HIDE DEF j0
  <2>6. /\ Original[i] = (IF i \in start .. end THEN s[i] ELSE s[j0])
        /\ Original'[i] = (IF i \in start' .. end' THEN s'[i] ELSE s'[j0])
    BY <2>1 DEF j0
  <2>7. CASE i = start
    BY <1>4, <2>4, <2>5, <2>6, <2>7
  <2>8. CASE i = end
    BY <1>4, <2>4, <2>5, <2>6, <2>8
  <2>9. CASE i # start /\ i # end
    BY <2>4, <2>5, <2>6, <2>9
  <2> QED BY <2>7, <2>8, <2>9
<1>7. Tells(sign, call.radix, value, 0, Original', pos)
  <2> DEFINE u0 == Original'
             t == Original
  <2>1. \A i \in 0 .. pos - 1 : u0[i] = t[i]
    BY <1>3, <1>6, ItoaFacts
  <2>2. pos \in Nat /\ Tells(sign, call.radix, value, 0, t, pos)
    BY <1>2, <1>3 DEF AtReverse
  <2> HIDE DEF u0, t
  <2>3. Tells(sign, call.radix, value, 0, u0, pos)
    BY <2>1, <2>2, TellsSame, Zenon
  <2> QED BY <2>3 DEF u0
<1>8. isNegative => Original'[pos] = Minus
  <2>1. isNegative => pos \in 0 .. length - 1 /\ Original[pos] = Minus
    BY <1>2, <1>3 DEF AtReverse
  <2> QED BY <1>6, <2>1
<1>9. AtReverse'
  <2>1. Tells(sign, call.radix, value, 0, Original, pos)'
    BY <1>1, <1>7, ItoaFacts
  <2>2. /\ pos' \in 0 .. 32 /\ length' = (IF isNegative' THEN pos' + 1 ELSE pos') /\ num' = 0
        /\ start' \in Nat /\ end' = length' - 1 - start' /\ start' <= end' + 1
    BY <1>1, <1>3, <1>4, ItoaFacts
  <2>3. s'[length'] = Nul
    BY <1>1, <1>3, <1>4, <1>5
  <2> QED BY <1>1, <1>8, <2>1, <2>2, <2>3, ItoaFacts DEF AtReverse
<1> QED BY <1>1, <1>2, <1>5, <1>9 DEF AtItoa

LEMMA ReversedKeeps == ASSUME ItoaCall, Reversed PROVE AtItoa'
<1> DEFINE first == IF isNegative THEN 1 ELSE 0
<1>1. /\ pc = "reverse" /\ ~(start < end) /\ pc' = "return" /\ UNCHANGED <<call, num, s, pos, length, start, end>>
  BY DEF Reversed, HasSwap, Return
<1>2. Buffer(call.room) /\ AtReverse
  BY <1>1, ItoaFacts DEF ItoaCall, AtItoa
<1>3. /\ pos \in 0 .. 32 /\ length = pos + first /\ num = 0 /\ first \in 0 .. 1
      /\ start \in Nat /\ end = length - 1 - start /\ start <= end + 1 /\ s[length] = Nul
  BY <1>2 DEF AtReverse
<1> HIDE DEF first
<1>4. \A i \in 0 .. length - 1 : Original[i] = s[length - 1 - i]
  <2> SUFFICES ASSUME NEW i \in 0 .. length - 1 PROVE Original[i] = s[length - 1 - i]
    OBVIOUS
  <2>1. Original[i] = IF i \in start .. end THEN s[i] ELSE s[length - 1 - i]
    BY DEF Original
  <2>2. i \in start .. end => i = length - 1 - i
    BY <1>1, <1>3
  <2> QED BY <2>1, <2>2
<1>5. /\ Numeral(s, call.radix, first - 1, first + pos - 1) = value
      /\ \A i \in first .. first + pos - 1 : s[i] \in Int /\ sign * s[i] \in 0 .. call.radix - 1
  <2> DEFINE t == Original
  <2>1. \A i \in 0 .. pos - 1 : s[first + pos - 1 - i] = t[i]
    BY <1>3, <1>4
  <2>2. Tells(sign, call.radix, value, 0, t, pos)
    BY <1>2 DEF AtReverse
  <2> HIDE DEF t
  <2>3. call.radix \in Int /\ pos \in Nat /\ first \in Nat
    BY <1>3, ItoaFacts
  <2> QED BY <2>1, <2>2, <2>3, TellsRead
<1>6. isNegative => s[0] = Minus
  <2>1. isNegative => pos \in 0 .. length - 1 /\ length - 1 - pos = 0 /\ Original[pos] = Minus
    BY <1>2, <1>3 DEF AtReverse, first
  <2> QED BY <1>4, <2>1
<1>7. first + pos - 1 = length - 1 /\ length \in Nat /\ end \in Int
  BY <1>3
<1>8. AfterItoa
  <2>1. NumberAt(call.radix, first, length) = value
    BY <1>5, <1>7 DEF NumberAt
  <2> QED BY <1>3, <1>5, <1>6, <1>7, <2>1 DEF AfterItoa, first
<1>9. AfterItoa'
  BY <1>1, <1>8, ItoaFacts DEF AfterItoa, NumberAt
<1>10. Buffer(call.room)'
  BY <1>1, <1>2 DEF Buffer, IsBuffer
<1> QED BY <1>1, <1>9, <1>10 DEF AtItoa

-----------------------------------------------------------------------------
(* parseHex *)

AtHex ==
    /\ pc \in {"call", "parseHex", "return"}
    /\ pc = "call" => TextIdle
    /\ pc # "call" =>
          /\ Buffer(call.room)
          /\ pos = 0 /\ start = 0 /\ end = 0
          /\ num \in 0 .. call.room
          /\ \A i \in 0 .. num - 1 :
                s[i] = HexDigit(call.str[2 * i + 1]) * 16 + HexDigit(call.str[2 * i + 2])
    /\ pc = "parseHex" => length = 0
    /\ pc = "return" => length = num /\ num = call.room

HexCall == call.f = "parseHex" /\ call' = call /\ WhereInv /\ AtHex

LEMMA HexFacts ==
    ASSUME HexCall
    PROVE  /\ call.f = "parseHex" /\ call' = call /\ "l" \notin DOMAIN call
           /\ call.str \in Seq(0 .. 16) /\ call.room = Len(call.str) \div 2
           /\ call.room \in Nat /\ 2 * call.room <= Len(call.str) /\ Len(call.str) \in Nat
<1>1. call.f \in TextFunctions
  BY DEF HexCall, TextFunctions
<1>2. call.str \in Seq(0 .. 16) /\ call.room = Len(call.str) \div 2 /\ "l" \notin DOMAIN call
  BY <1>1, TextFacts DEF HexCall
<1>3. Len(call.str) \in Nat
  BY <1>2
<1>4. call.room \in Nat /\ 2 * call.room <= Len(call.str)
  <2> DEFINE l == Len(call.str)
  <2>1. l \in Nat
    BY <1>3
  <2> HIDE DEF l
  <2>2. l \div 2 \in Nat /\ 2 * (l \div 2) <= l
    BY <2>1
  <2>3. call.room = l \div 2
    BY <1>2 DEF l
  <2>4. call.room \in Nat /\ 2 * call.room <= l
    BY <2>2, <2>3
  <2> QED BY <2>4 DEF l
<1> QED BY <1>2, <1>3, <1>4 DEF HexCall

LEMMA HexDigitIs == \A c \in 0 .. 16 : HexDigit(c) = c % 16 /\ HexDigit(c) \in 0 .. 15
BY DEF HexDigit

LEMMA EnterHexKeeps == ASSUME HexCall, EnterText PROVE AtHex'
<1>1. /\ pc = "call" /\ pc' = "parseHex" /\ num' = 0 /\ s' = [i \in 0 .. call.room - 1 |-> Unset]
      /\ length' = 0 /\ UNCHANGED <<call, pos, start, end>>
  BY HexFacts DEF EnterText, Called
<1>2. pos = 0 /\ start = 0 /\ end = 0
  BY <1>1 DEF HexCall, AtHex, TextIdle
<1>3. Buffer(call.room)'
  BY <1>1 DEF Buffer, IsBuffer, Unset
<1> QED BY <1>1, <1>2, <1>3, HexFacts DEF AtHex

LEMMA HexByteKeeps == ASSUME HexCall, HexByte PROVE AtHex'
<1> DEFINE v == HexDigit(call.str[2 * num + 1]) * 16 + HexDigit(call.str[2 * num + 2])
           k == num
           n == call.room
           t == s
<1>1. /\ pc = "parseHex" /\ num < call.room /\ s' = [t EXCEPT ![k] = v] /\ num' = num + 1
      /\ UNCHANGED <<call, pc, pos, length, start, end>>
  BY DEF HexByte
<1>2. /\ IsBuffer(t, n) /\ pos = 0 /\ start = 0 /\ end = 0 /\ num \in 0 .. call.room /\ length = 0
      /\ \A i \in 0 .. num - 1 :
            s[i] = HexDigit(call.str[2 * i + 1]) * 16 + HexDigit(call.str[2 * i + 2])
  BY <1>1 DEF HexCall, AtHex, Buffer
<1>3. k \in 0 .. n - 1 /\ k \in Int /\ n \in Int /\ n \in Nat
  BY <1>1, <1>2, HexFacts
<1>4. v \in Unset .. 255
  <2>1. 2 * num + 1 \in 1 .. Len(call.str) /\ 2 * num + 2 \in 1 .. Len(call.str)
    BY <1>3, HexFacts
  <2>2. call.str[2 * num + 1] \in 0 .. 16 /\ call.str[2 * num + 2] \in 0 .. 16
    BY <2>1, HexFacts, SMTT(30)
  <2>3. HexDigit(call.str[2 * num + 1]) \in 0 .. 15 /\ HexDigit(call.str[2 * num + 2]) \in 0 .. 15
    BY <2>2, HexDigitIs
  <2> QED BY <2>3 DEF Unset
<1> HIDE DEF v, k, n, t
<1>5. LET u0 == [t EXCEPT ![k] = v]
      IN  IsBuffer(u0, n) /\ (\A i \in 0 .. n - 1 : i # k => u0[i] = t[i]) /\ u0[k] = v
  <2>1. IsBuffer(t, n)
    BY <1>2
  <2> QED BY <1>3, <1>4, <2>1, CharacterWritten
<1>6. IsBuffer(s', n) /\ (\A i \in 0 .. n - 1 : i # k => s'[i] = t[i]) /\ s'[k] = v
  BY <1>1, <1>5
<1>7. \A i \in 0 .. num' - 1 :
            s'[i] = HexDigit(call.str[2 * i + 1]) * 16 + HexDigit(call.str[2 * i + 2])
  <2> SUFFICES ASSUME NEW i \in 0 .. num' - 1
               PROVE  s'[i] = HexDigit(call.str[2 * i + 1]) * 16 + HexDigit(call.str[2 * i + 2])
    OBVIOUS
  <2>1. CASE i = num
    <3>1. HexDigit(call.str[2 * i + 1]) * 16 + HexDigit(call.str[2 * i + 2]) = v /\ i = k
      BY <2>1 DEF v, k
    <3> QED BY <1>6, <3>1
  <2>2. CASE i # num
    <3>1. i \in 0 .. num - 1 /\ i \in 0 .. n - 1 /\ i # k
      BY <1>1, <1>2, <1>3, <2>2 DEF k, n
    <3>2. s'[i] = s[i]
      BY <1>6, <3>1 DEF t
    <3> QED BY <1>2, <3>1, <3>2
  <2> QED BY <2>1, <2>2
<1>8. Buffer(call.room)' /\ num' \in 0 .. call.room
  <2>1. Buffer(call.room)'
    BY <1>1, <1>6 DEF Buffer, n
  <2>2. num' \in 0 .. call.room
    BY <1>1, <1>2, HexFacts
  <2> QED BY <2>1, <2>2
<1> QED BY <1>1, <1>2, <1>7, <1>8 DEF AtHex

LEMMA EndHexKeeps == ASSUME HexCall, EndHex PROVE AtHex'
<1>1. /\ pc = "parseHex" /\ num = call.room /\ length' = num /\ pc' = "return"
      /\ UNCHANGED <<call, num, s, pos, start, end>>
  BY DEF EndHex, Return
<1>2. /\ Buffer(call.room) /\ pos = 0 /\ start = 0 /\ end = 0 /\ num \in 0 .. call.room
      /\ \A i \in 0 .. num - 1 :
            s[i] = HexDigit(call.str[2 * i + 1]) * 16 + HexDigit(call.str[2 * i + 2])
  BY <1>1 DEF HexCall, AtHex
<1>3. Buffer(call.room)'
  BY <1>1, <1>2 DEF Buffer, IsBuffer
<1> QED BY <1>1, <1>2, <1>3 DEF AtHex

\* Two digits to the base 16 are one to the base 256.
HexPairs(f, g, n) ==
    /\ \A i \in 1 .. 2 * n : g[i] \in 0 .. 15
    /\ \A i \in 0 .. n - 1 : f[i] = g[2 * i + 1] * 16 + g[2 * i + 2]

LEMMA HexAgrees ==
    ASSUME NEW f, NEW g, NEW n \in Nat,
           HexPairs(f, g, n)
    PROVE  Numeral(f, 256, 0 - 1, n - 1) = Numeral(g, 16, 0, 2 * n)
<1> DEFINE T == {k \in 0 .. n : Numeral(f, 256, 0 - 1, k - 1) = Numeral(g, 16, 0, 2 * k)}
<1>1. 0 \in T
  <2> DEFINE m == 0 - 1
             z == 2 * 0
  <2>1. m \in Int /\ z = 0 /\ 256 \in Int /\ 16 \in Int /\ 0 \in Int /\ 0 \in 0 .. n
    OBVIOUS
  <2>2. Numeral(f, 256, m, m) = 0 /\ Numeral(g, 16, 0, 0) = 0
    BY <2>1, NumeralEmpty
  <2> QED BY <2>1, <2>2
<1>2. ASSUME NEW k \in 0 .. n - 1, k \in T PROVE k + 1 \in T
  <2> DEFINE m == 0 - 1
             a == 2 * k
  <2>1. m \in Int /\ a \in Nat /\ k \in 0 .. n /\ k + 1 \in 0 .. n /\ (k + 1) - 1 = k /\ 2 * (k + 1) = a + 2
        /\ m < k /\ k - 1 >= m /\ a + 2 <= 2 * n
    OBVIOUS
  <2>2. AreInts(f, m, k) /\ AreInts(g, 0, a + 2) /\ AreInts(g, 0, a + 1)
    <3>1. \A i \in 1 .. 2 * n : g[i] \in Int
      BY DEF HexPairs
    <3>2. \A i \in 0 .. n - 1 : f[i] \in Int
      <4> SUFFICES ASSUME NEW i \in 0 .. n - 1 PROVE f[i] \in Int
        OBVIOUS
      <4>1. 2 * i + 1 \in 1 .. 2 * n /\ 2 * i + 2 \in 1 .. 2 * n
        OBVIOUS
      <4> QED BY <3>1, <4>1 DEF HexPairs
    <3>3. \A i \in m + 1 .. k : i \in 0 .. n - 1
      OBVIOUS
    <3>4. (\A i \in 0 + 1 .. a + 2 : i \in 1 .. 2 * n) /\ (\A i \in 0 + 1 .. a + 1 : i \in 1 .. 2 * n)
      BY <2>1
    <3> QED BY <3>1, <3>2, <3>3, <3>4 DEF AreInts
  <2>3. Numeral(f, 256, m, k - 1) = Numeral(g, 16, 0, a)
    BY <1>2
  <2>4. f[k] = g[a + 1] * 16 + g[a + 2] /\ g[a + 1] \in Int /\ g[a + 2] \in Int
    <3>1. a + 1 \in 1 .. 2 * n /\ a + 2 \in 1 .. 2 * n
      BY <2>1
    <3> QED BY <3>1 DEF HexPairs
  <2> HIDE DEF m, a
  <2>5. Numeral(f, 256, m, k) = Numeral(f, 256, m, k - 1) * 256 + f[k]
    BY <2>1, <2>2, NumeralStep
  <2>6. Numeral(g, 16, 0, a + 2) = Numeral(g, 16, 0, a + 1) * 16 + g[a + 2]
    <3>1. 0 \in Int /\ a + 2 \in Int /\ 0 < a + 2 /\ 16 \in Int /\ (a + 2) - 1 = a + 1
      BY <2>1
    <3> QED BY <2>2, <3>1, NumeralStep
  <2>7. Numeral(g, 16, 0, a + 1) = Numeral(g, 16, 0, a) * 16 + g[a + 1]
    <3>1. 0 \in Int /\ a + 1 \in Int /\ 0 < a + 1 /\ 16 \in Int /\ (a + 1) - 1 = a
      BY <2>1
    <3> QED BY <2>2, <3>1, NumeralStep
  <2>8. Numeral(g, 16, 0, a) \in Int
    <3>1. AreInts(g, 0, a) /\ 0 \in Int /\ a \in Int /\ 0 <= a /\ 16 \in Int
      BY <2>1, <2>2 DEF AreInts
    <3> QED BY <3>1, NumeralType
  <2>9. Numeral(f, 256, m, k) = Numeral(g, 16, 0, a + 2)
    BY <2>3, <2>4, <2>5, <2>6, <2>7, <2>8
  <2> QED BY <2>1, <2>9 DEF m
<1> HIDE DEF T
<1>3. 0 .. n \subseteq T
  <2>1. 0 \in Int /\ n \in Int
    OBVIOUS
  <2> QED BY <1>1, <1>2, <2>1, IntervalInduction
<1> QED BY <1>3 DEF T

LEMMA HexTold ==
    ASSUME HexCall, pc = "return"
    PROVE  /\ length = Len(call.str) \div 2
           /\ NumberAt(256, 0, length) = HexValue(SubSeq(call.str, 1, 2 * length))
<1> DEFINE n == length
           d == SubSeq(call.str, 1, 2 * n)
           g == [i \in 1 .. Len(d) |-> d[i] % 16]
<1>1. /\ n = call.room /\ n \in Nat /\ n = Len(call.str) \div 2 /\ 2 * n <= Len(call.str)
      /\ \A i \in 0 .. n - 1 :
            s[i] = HexDigit(call.str[2 * i + 1]) * 16 + HexDigit(call.str[2 * i + 2])
  BY HexFacts DEF HexCall, AtHex
<1>2. Len(d) = 2 * n /\ \A i \in 1 .. 2 * n : d[i] = call.str[i] /\ call.str[i] \in 0 .. 16
  <2> DEFINE t == call.str
             k == 2 * n
             S == 0 .. 16
  <2>1. t \in Seq(S) /\ k \in Nat /\ k <= Len(t) /\ 1 \in Int /\ Len(t) \in Nat
    <3>1. t \in Seq(S) /\ Len(t) \in Nat
      BY HexFacts
    <3>2. n \in Nat /\ 2 * n <= Len(t)
      BY <1>1
    <3> HIDE DEF n, t, S
    <3> QED BY <3>1, <3>2
  <2>2. \A i \in 1 .. k : t[i] \in S
    BY <2>1
  <2> HIDE DEF t, k, S, n
  <2>3. Len(SubSeq(t, 1, k)) = k /\ \A i \in 1 .. k : SubSeq(t, 1, k)[i] = t[i]
    BY <2>1, <2>2, SubSeqProperties
  <2> QED BY <2>2, <2>3 DEF t, k, S
<1>3. \A i \in 1 .. 2 * n : g[i] = HexDigit(call.str[i]) /\ g[i] \in 0 .. 15
  BY <1>2, HexDigitIs
<1>4. \A i \in 0 .. n - 1 : s[i] = g[2 * i + 1] * 16 + g[2 * i + 2]
  <2> SUFFICES ASSUME NEW i \in 0 .. n - 1 PROVE s[i] = g[2 * i + 1] * 16 + g[2 * i + 2]
    OBVIOUS
  <2>2. n \in Nat
    BY <1>1
  <2> HIDE DEF g, n
  <2>1. 2 * i + 1 \in 1 .. 2 * n /\ 2 * i + 2 \in 1 .. 2 * n
    BY <2>2
  <2>3. s[i] = HexDigit(call.str[2 * i + 1]) * 16 + HexDigit(call.str[2 * i + 2])
    BY <1>1
  <2>4. g[2 * i + 1] = HexDigit(call.str[2 * i + 1]) /\ g[2 * i + 2] = HexDigit(call.str[2 * i + 2])
    BY <1>3, <2>1
  <2> QED BY <2>3, <2>4
<1>5. HexValue(d) = Numeral(g, 16, 0, 2 * n)
  BY <1>2 DEF HexValue
<1> HIDE DEF g
<1>6. Numeral(s, 256, 0 - 1, n - 1) = Numeral(g, 16, 0, 2 * n)
  <2>1. n \in Nat
    BY <1>1
  <2> HIDE DEF n
  <2>2. HexPairs(s, g, n)
    BY <1>3, <1>4 DEF HexPairs
  <2> QED BY <2>1, <2>2, HexAgrees
<1> QED BY <1>1, <1>5, <1>6 DEF NumberAt

-----------------------------------------------------------------------------
(* One sequence after the other *)

\* v[i] is g[1] to g[i], one after the other.
IsChain(v, g, n) == v = [i \in 0 .. n |-> IF i = 0 THEN <<>> ELSE v[i - 1] \o g[i]]

LEMMA ChainIs ==
    ASSUME NEW n \in Nat, NEW g, NEW S, \A i \in 1 .. n : g[i] \in Seq(S)
    PROVE  \E v : IsChain(v, g, n)
<1> DEFINE V == Seq(S)
           F == [i \in 0 + 1 .. n |-> [x \in V |-> x \o g[i]]]
           a == <<>>
<1>1. F \in [0 + 1 .. n -> [V -> V]]
  <2>1. \A i \in 0 + 1 .. n : [x \in V |-> x \o g[i]] \in [V -> V]
    <3> SUFFICES ASSUME NEW i \in 0 + 1 .. n, NEW x \in V PROVE x \o g[i] \in V
      OBVIOUS
    <3>1. g[i] \in Seq(S)
      OBVIOUS
    <3> QED BY <3>1, ConcatProperties
  <2> HIDE DEF V
  <2> QED BY <2>1
<1>2. a \in V /\ 0 \in Int /\ n \in Int
  OBVIOUS
<1> HIDE DEF F, V, a
<1>3. PICK u0 : Recurs(u0, V, a, F, 0, n)
  BY <1>1, <1>2, RecursionDefines, Zenon
<1>4. u0 \in [0 .. n -> V] /\ u0 = [i \in 0 .. n |-> IF i = 0 THEN a ELSE F[i][u0[i - 1]]]
  BY <1>3 DEF Recurs
<1>5. ASSUME NEW i \in 0 .. n, i # 0 PROVE F[i][u0[i - 1]] = u0[i - 1] \o g[i]
  <2>1. i \in 0 + 1 .. n /\ i - 1 \in 0 .. n
    BY <1>5
  <2>2. u0[i - 1] \in V
    BY <1>4, <2>1
  <2> QED BY <2>1, <2>2 DEF F
<1>6. IsChain(u0, g, n)
  BY <1>4, <1>5 DEF IsChain, a
<1> QED BY <1>6

LEMMA ChainStep ==
    ASSUME NEW n \in Nat, NEW g, NEW v, IsChain(v, g, n)
    PROVE  v[0] = <<>> /\ \A i \in 1 .. n : v[i] = v[i - 1] \o g[i]
<1> DEFINE e(i) == IF i = 0 THEN <<>> ELSE v[i - 1] \o g[i]
<1>1. v = [i \in 0 .. n |-> e(i)]
  BY Zenon DEF IsChain
<1>5. \A i \in 1 .. n : i # 0
  OBVIOUS
<1>2. e(0) = <<>> /\ \A i \in 1 .. n : e(i) = v[i - 1] \o g[i]
  BY <1>5, Zenon
<1> HIDE DEF e
<1>3. \A i \in 0 .. n : v[i] = e(i)
  BY <1>1
<1>4. 0 \in 0 .. n /\ \A i \in 1 .. n : i \in 0 .. n
  OBVIOUS
<1> QED BY <1>2, <1>3, <1>4

LEMMA ChainOnly ==
    ASSUME NEW n \in Nat, NEW k \in 0 .. n, NEW g, NEW v, NEW w, IsChain(v, g, n), IsChain(w, g, k)
    PROVE  w[k] = v[k]
<1> DEFINE T == {i \in 0 .. k : w[i] = v[i]}
<1>1. 0 \in T
  <2>1. k \in Nat /\ 0 \in 0 .. k
    OBVIOUS
  <2>2. v[0] = <<>> /\ w[0] = <<>>
    BY <2>1, ChainStep
  <2> QED BY <2>1, <2>2
<1>2. ASSUME NEW i \in 0 .. k - 1, i \in T PROVE i + 1 \in T
  <2>1. i + 1 \in 1 .. n /\ i + 1 \in 1 .. k /\ (i + 1) - 1 = i /\ i + 1 \in 0 .. k /\ k \in Nat
    OBVIOUS
  <2>2. v[i + 1] = v[(i + 1) - 1] \o g[i + 1]
    BY <2>1, ChainStep
  <2>3. \A c \in 1 .. k : w[c] = w[c - 1] \o g[c]
    BY <2>1, ChainStep
  <2>4. w[i + 1] = w[(i + 1) - 1] \o g[i + 1]
    BY <2>1, <2>3
  <2> QED BY <1>2, <2>1, <2>2, <2>4
<1> HIDE DEF T
<1>3. 0 .. k \subseteq T
  <2>1. 0 \in Int /\ k \in Int
    OBVIOUS
  <2> QED BY <1>1, <1>2, <2>1, IntervalInduction
<1> QED BY <1>3 DEF T

LEMMA ChainType ==
    ASSUME NEW n \in Nat, NEW g, NEW v, NEW S, \A i \in 1 .. n : g[i] \in Seq(S), IsChain(v, g, n)
    PROVE  \A i \in 0 .. n : v[i] \in Seq(S)
<1> DEFINE T == {i \in 0 .. n : v[i] \in Seq(S)}
<1>1. 0 \in T
  <2>1. v[0] = <<>>
    BY ChainStep
  <2>2. <<>> \in Seq(S) /\ 0 \in 0 .. n
    OBVIOUS
  <2> QED BY <2>1, <2>2
<1>2. ASSUME NEW i \in 0 .. n - 1, i \in T PROVE i + 1 \in T
  <2>1. i + 1 \in 1 .. n /\ (i + 1) - 1 = i /\ i + 1 \in 0 .. n /\ v[i] \in Seq(S)
    BY <1>2
  <2>2. v[i + 1] = v[(i + 1) - 1] \o g[i + 1] /\ g[i + 1] \in Seq(S)
    BY <2>1, ChainStep
  <2>3. v[i] \o g[i + 1] \in Seq(S)
    BY <2>1, <2>2, ConcatProperties
  <2> QED BY <2>1, <2>2, <2>3
<1> HIDE DEF T
<1>3. 0 .. n \subseteq T
  <2>1. 0 \in Int /\ n \in Int
    OBVIOUS
  <2> QED BY <1>1, <1>2, <2>1, IntervalInduction
<1> QED BY <1>3 DEF T

LEMMA JoinedIs ==
    ASSUME NEW items, items \in Seq(Seq(0 .. 255))
    PROVE  /\ JoinedItems(items, 0) = <<>>
           /\ \A k \in 0 .. Len(items) : JoinedItems(items, k) \in Seq(0 .. 255)
           /\ \A k \in 0 .. Len(items) - 1 : JoinedItems(items, k + 1) = JoinedItems(items, k) \o items[k + 1]
<1> DEFINE S == 0 .. 255
           n == Len(items)
<1>1. n \in Nat /\ \A i \in 1 .. n : items[i] \in Seq(S)
  OBVIOUS
<1> HIDE DEF S, n
<1>2. PICK v : IsChain(v, items, n)
  BY <1>1, ChainIs
<1>3. ASSUME NEW k \in 0 .. n PROVE JoinedItems(items, k) = v[k]
  <2> DEFINE P(u0) == u0 = [i \in 0 .. k |-> IF i = 0 THEN <<>> ELSE u0[i - 1] \o items[i]]
             w == CHOOSE u0 : P(u0)
  <2>1. k \in Nat /\ \A i \in 1 .. k : items[i] \in Seq(S)
    BY <1>1
  <2>2. \E u0 : IsChain(u0, items, k)
    BY <2>1, ChainIs
  <2>4. JoinedItems(items, k) = w[k]
    BY Zenon DEF JoinedItems
  <2>5. \A u0 : P(u0) <=> IsChain(u0, items, k)
    BY Zenon DEF IsChain
  <2> HIDE DEF P
  <2>6. P(w)
    BY <2>2, <2>5, Zenon
  <2>3. IsChain(w, items, k)
    BY <2>5, <2>6
  <2> HIDE DEF w
  <2> QED BY <1>1, <1>2, <2>3, <2>4, ChainOnly
<1>4. \A k \in 0 .. n : v[k] \in Seq(S)
  BY <1>1, <1>2, ChainType
<1>5. v[0] = <<>> /\ \A i \in 1 .. n : v[i] = v[i - 1] \o items[i]
  BY <1>1, <1>2, ChainStep
<1>6. ASSUME NEW k \in 0 .. n - 1 PROVE JoinedItems(items, k + 1) = JoinedItems(items, k) \o items[k + 1]
  <2>1. k \in 0 .. n /\ k + 1 \in 0 .. n /\ k + 1 \in 1 .. n /\ (k + 1) - 1 = k
    BY <1>1
  <2>2. v[k + 1] = v[(k + 1) - 1] \o items[k + 1]
    BY <1>5, <2>1
  <2> QED BY <1>3, <2>1, <2>2
<1>7. 0 \in 0 .. n
  BY <1>1
<1>8. JoinedItems(items, 0) = <<>> /\ \A k \in 0 .. n : JoinedItems(items, k) \in Seq(S)
  BY <1>3, <1>4, <1>5, <1>7
<1> QED BY <1>6, <1>8 DEF S, n

-----------------------------------------------------------------------------
(* strjoin *)

\* The first k of its items.
Items(k) == JoinedItems(call.array, k)

AtJoin ==
    /\ pc \in {"call", "strjoin", "join", "return"}
    /\ pc = "call" => TextIdle
    /\ pc # "call" => num \in 0 .. Len(call.array) /\ start = 0 /\ end = 0
    /\ pc = "strjoin" => Buffer(0) /\ pos = 0 /\ length = Len(Items(num))
    /\ pc \in {"join", "return"} =>
          /\ Buffer(length + 1)
          /\ length = Len(Items(Len(call.array)))
          /\ pos = Len(Items(num))
          /\ \A i \in 0 .. pos - 1 : s[i] = Items(num)[i + 1]
          /\ \A i \in pos .. length : s[i] = Nul
    /\ pc = "return" => num = Len(call.array)

JoinCall == call.f = "strjoin" /\ call' = call /\ WhereInv /\ AtJoin

LEMMA JoinFacts ==
    ASSUME JoinCall
    PROVE  /\ call.f = "strjoin" /\ call' = call /\ "l" \notin DOMAIN call /\ call.room = 0
           /\ call.array \in Seq(Seq(0 .. 255)) /\ Len(call.array) \in Nat
           /\ Items(0) = <<>>
           /\ \A k \in 0 .. Len(call.array) : Items(k) \in Seq(0 .. 255) /\ Len(Items(k)) \in Nat
           /\ \A k \in 0 .. Len(call.array) - 1 :
                 /\ call.array[k + 1] \in Seq(0 .. 255) /\ Len(call.array[k + 1]) \in Nat
                 /\ Items(k + 1) = Items(k) \o call.array[k + 1]
                 /\ Len(Items(k + 1)) = Len(Items(k)) + Len(call.array[k + 1])
<1>1. call.f \in TextFunctions
  BY DEF JoinCall, TextFunctions
<1>2. call.array \in Seq(Seq(0 .. 255)) /\ call.room = 0 /\ "l" \notin DOMAIN call
  BY <1>1, TextFacts DEF JoinCall
<1> DEFINE S == 0 .. 255
           a == call.array
           n == Len(call.array)
<1>3. n \in Nat /\ \A k \in 0 .. n - 1 : a[k + 1] \in Seq(S)
  BY <1>2
<1>4. /\ Items(0) = <<>>
      /\ \A k \in 0 .. n : Items(k) \in Seq(S)
      /\ \A k \in 0 .. n - 1 : Items(k + 1) = Items(k) \o a[k + 1]
  BY <1>2, JoinedIs DEF Items
<1> HIDE DEF S, a, n
<1>5. ASSUME NEW k \in 0 .. n - 1
      PROVE  Len(a[k + 1]) \in Nat /\ Len(Items(k + 1)) = Len(Items(k)) + Len(a[k + 1])
  <2>1. k \in 0 .. n
    BY <1>3
  <2>2. Items(k) \in Seq(S) /\ a[k + 1] \in Seq(S) /\ Items(k + 1) = Items(k) \o a[k + 1]
    BY <1>3, <1>4, <2>1
  <2>3. Len(Items(k) \o a[k + 1]) = Len(Items(k)) + Len(a[k + 1])
    BY <2>2, ConcatProperties
  <2> QED BY <2>2, <2>3
<1>6. \A k \in 0 .. n : Len(Items(k)) \in Nat
  BY <1>4
<1> QED BY <1>1, <1>2, <1>3, <1>4, <1>5, <1>6 DEF JoinCall, S, a, n

LEMMA ItemsRise ==
    ASSUME JoinCall, NEW k \in 0 .. Len(call.array)
    PROVE  Len(Items(k)) <= Len(Items(Len(call.array)))
<1> DEFINE n == Len(call.array)
           l(i) == Len(Items(i))
           T == {i \in k .. n : l(k) <= l(i)}
<1>1. n \in Nat /\ \A i \in 0 .. n : l(i) \in Nat
  BY JoinFacts
<1>2. \A i \in 0 .. n - 1 : Len(call.array[i + 1]) \in Nat /\ l(i + 1) = l(i) + Len(call.array[i + 1])
  BY JoinFacts
<1> HIDE DEF n, l
<1>3. k \in 0 .. n /\ k \in Int /\ n \in Int
  BY <1>1 DEF n
<1>4. k \in T
  BY <1>1, <1>3
<1>5. ASSUME NEW i \in k .. n - 1, i \in T PROVE i + 1 \in T
  <2>1. i \in 0 .. n - 1 /\ i + 1 \in k .. n /\ i \in 0 .. n /\ i + 1 \in 0 .. n
    BY <1>1, <1>3
  <2>2. l(k) <= l(i) /\ l(k) \in Nat /\ l(i) \in Nat
    BY <1>1, <1>3, <1>5, <2>1
  <2>3. l(i + 1) = l(i) + Len(call.array[i + 1]) /\ Len(call.array[i + 1]) \in Nat
    BY <1>2, <2>1
  <2>4. l(k) <= l(i + 1)
    BY <2>2, <2>3
  <2> QED BY <2>1, <2>4
<1> HIDE DEF T
<1>6. k .. n \subseteq T
  BY <1>3, <1>4, <1>5, IntervalInduction
<1>7. n \in k .. n
  BY <1>1, <1>3
<1>8. n \in T
  BY <1>6, <1>7
<1>9. l(k) <= l(n)
  BY <1>8 DEF T
<1> QED BY <1>9 DEF l, n

LEMMA EnterJoinKeeps == ASSUME JoinCall, EnterText PROVE AtJoin'
<1>1. /\ pc = "call" /\ pc' = "strjoin" /\ num' = 0 /\ s' = [i \in 0 .. 0 - 1 |-> Unset]
      /\ length' = 0 /\ UNCHANGED <<call, pos, start, end>>
  BY JoinFacts DEF EnterText, Called
<1>2. pos = 0 /\ start = 0 /\ end = 0
  BY <1>1 DEF JoinCall, AtJoin, TextIdle
<1>3. Buffer(0)'
  BY <1>1 DEF Buffer, IsBuffer, Unset
<1>4. Len(Items(num))' = 0
  BY <1>1, JoinFacts DEF Items
<1> QED BY <1>1, <1>2, <1>3, <1>4, JoinFacts DEF AtJoin

LEMMA MeasureKeeps == ASSUME JoinCall, MeasureItem PROVE AtJoin'
<1>1. /\ pc = "strjoin" /\ num < Len(call.array) /\ length' = length + Len(call.array[num + 1])
      /\ num' = num + 1 /\ UNCHANGED <<call, pc, s, pos, start, end>>
  BY DEF MeasureItem
<1>2. num \in 0 .. Len(call.array) /\ start = 0 /\ end = 0 /\ Buffer(0) /\ pos = 0 /\ length = Len(Items(num))
  BY <1>1 DEF JoinCall, AtJoin
<1>3. num \in 0 .. Len(call.array) - 1 /\ num' \in 0 .. Len(call.array)
  BY <1>1, <1>2, JoinFacts
<1>4. length' = Len(Items(num + 1))
  BY <1>1, <1>2, <1>3, JoinFacts
<1>5. length' = Len(Items(num))'
  BY <1>1, <1>4 DEF Items
<1>6. Buffer(0)'
  BY <1>1, <1>2 DEF Buffer
<1> QED BY <1>1, <1>2, <1>3, <1>5, <1>6 DEF AtJoin

LEMMA AllocateKeeps == ASSUME JoinCall, AllocateJoin PROVE AtJoin'
<1>1. /\ pc = "strjoin" /\ num = Len(call.array)
      /\ length' = (IF num = 0 THEN 0 ELSE length + (num - 1) * Len(deli))
      /\ s' = [i \in 0 .. length' |-> Nul] /\ num' = 0 /\ pc' = "join"
      /\ UNCHANGED <<call, pos, start, end>>
  BY DEF AllocateJoin
<1>2. num \in 0 .. Len(call.array) /\ start = 0 /\ end = 0 /\ pos = 0 /\ length = Len(Items(num))
  BY <1>1 DEF JoinCall, AtJoin
<1>3. length' = length /\ length \in Nat
  <2>1. length \in Nat /\ (num = 0 => length = 0)
    BY <1>2, JoinFacts
  <2>2. Len(deli) = 0
    BY DEF deli
  <2>3. num - 1 \in Int
    BY <1>2
  <2>4. (num - 1) * Len(deli) = 0
    BY <2>2, <2>3
  <2> QED BY <1>1, <2>1, <2>4
<1>4. Buffer(length + 1)'
  <2>1. (length + 1)' = length + 1 /\ (length + 1) - 1 = length
    BY <1>3
  <2>2. Nul \in Unset .. 255
    BY DEF Nul, Unset
  <2>3. IsBuffer(s', length + 1)
    BY <1>1, <1>3, <2>1, <2>2 DEF IsBuffer
  <2> QED BY <2>1, <2>3 DEF Buffer
<1>6. pos' = Len(Items(num))' /\ length' = Len(Items(Len(call.array)))'
  <2>1. Items(num)' = <<>> /\ Items(Len(call.array))' = Items(num)
    BY <1>1, JoinFacts DEF Items
  <2> QED BY <1>1, <1>2, <1>3, <2>1
<1>7. num' \in 0 .. Len(call.array)
  BY <1>1, <1>2
<1>8. \A i \in 0 .. length : s'[i] = Nul
  BY <1>1, <1>3
<1>9. /\ \A i \in 0 .. pos' - 1 : s'[i] = Items(num)'[i + 1]
      /\ \A i \in pos' .. length' : s'[i] = Nul
  <2>1. pos' = 0 /\ length' = length
    BY <1>1, <1>2, <1>3
  <2> QED BY <1>8, <2>1
<1>10. pc' = "join" /\ start' = 0 /\ end' = 0 /\ call' = call
  BY <1>1, <1>2
<1> QED BY <1>4, <1>6, <1>7, <1>9, <1>10 DEF AtJoin

LEMMA JoinItemKeeps == ASSUME JoinCall, JoinItem PROVE AtJoin'
<1> DEFINE item == call.array[num + 1]
           n == Len(call.array)
           m == Len(item)
<1>1. /\ pc = "join" /\ num < n
      /\ s' = [i \in DOMAIN s |->
                  IF i \in pos .. pos + m - 1 THEN item[i - pos + 1] ELSE s[i]]
      /\ pos' = pos + m /\ num' = num + 1 /\ UNCHANGED <<call, pc, length, start, end>>
  <2> DEFINE z == (IF num = 0 THEN <<>> ELSE deli) \o item
  <2>1. pc = "join" /\ num < n
    BY DEF JoinItem
  <2>2. num \in 0 .. n - 1
    BY <2>1, JoinFacts DEF JoinCall, AtJoin
  <2>3. item \in Seq(0 .. 255)
    BY <2>2, JoinFacts
  <2>4. (IF num = 0 THEN <<>> ELSE deli) = <<>>
    BY DEF deli
  <2>5. z = item
    <3> HIDE DEF item
    <3> QED BY <2>3, <2>4
  <2>6. /\ s' = [i \in DOMAIN s |-> IF i \in pos .. pos + Len(z) - 1 THEN z[i - pos + 1] ELSE s[i]]
        /\ pos' = pos + Len(z) /\ num' = num + 1 /\ UNCHANGED <<call, pc, length, start, end>>
    BY Zenon DEF JoinItem
  <2> HIDE DEF z
  <2> QED BY <2>1, <2>5, <2>6
<1>2. /\ num \in 0 .. n /\ start = 0 /\ end = 0 /\ IsBuffer(s, length + 1)
      /\ length = Len(Items(n)) /\ pos = Len(Items(num))
      /\ \A i \in 0 .. pos - 1 : s[i] = Items(num)[i + 1]
      /\ \A i \in pos .. length : s[i] = Nul
  BY <1>1 DEF JoinCall, AtJoin, Buffer
<1>3. /\ num \in 0 .. n - 1 /\ num + 1 \in 0 .. n /\ n \in Nat
  BY <1>1, <1>2, JoinFacts, SMTT(30)
<1>4. /\ item \in Seq(0 .. 255) /\ m \in Nat /\ Items(num) \in Seq(0 .. 255) /\ pos \in Nat /\ length \in Nat
      /\ Items(num + 1) = Items(num) \o item /\ Len(Items(num + 1)) = pos + m
  <2>1. item \in Seq(0 .. 255) /\ m \in Nat
    BY <1>3, JoinFacts
  <2>2. Items(num) \in Seq(0 .. 255) /\ Len(Items(num)) \in Nat /\ Len(Items(n)) \in Nat
    <3>1. n \in 0 .. n
      BY <1>3
    <3> QED BY <1>2, <3>1, JoinFacts
  <2>3. Items(num + 1) = Items(num) \o item /\ Len(Items(num + 1)) = Len(Items(num)) + m
    BY <1>3, JoinFacts
  <2> QED BY <1>2, <2>1, <2>2, <2>3
<1>5. pos + m <= length
  <2>1. Len(Items(num + 1)) <= Len(Items(n))
    BY <1>3, ItemsRise
  <2> QED BY <1>2, <1>4, <2>1
<1> HIDE DEF item, n, m
<1>6. DOMAIN s = 0 .. length /\ \A i \in 0 .. length : s[i] \in Unset .. 255
  <2>1. (length + 1) - 1 = length
    BY <1>4
  <2> QED BY <1>2, <2>1 DEF IsBuffer
<1>7. \A i \in 0 .. length : s'[i] = IF i \in pos .. pos + m - 1 THEN item[i - pos + 1] ELSE s[i]
  BY <1>1, <1>6
<1>8. m = Len(item) /\ \A i \in 1 .. m : item[i] \in 0 .. 255
  <2>1. item \in Seq(0 .. 255)
    BY <1>4
  <2>2. m = Len(item)
    BY DEF m
  <2> QED BY <2>1, <2>2
<1>9. \A i \in pos .. pos + m - 1 : i \in 0 .. length /\ i - pos + 1 \in 1 .. m
  BY <1>4, <1>5
<1>10. IsBuffer(s', length + 1)
  <2>1. \A i \in 0 .. length : s'[i] \in Unset .. 255
    <3> SUFFICES ASSUME NEW i \in 0 .. length PROVE s'[i] \in Unset .. 255
      OBVIOUS
    <3>1. CASE i \in pos .. pos + m - 1
      <4>1. item[i - pos + 1] \in 0 .. 255
        BY <1>8, <1>9, <3>1
      <4> QED BY <1>7, <3>1, <4>1 DEF Unset
    <3>2. CASE i \notin pos .. pos + m - 1
      BY <1>6, <1>7, <3>2
    <3> QED BY <3>1, <3>2
  <2>2. (length + 1) - 1 = length /\ DOMAIN s' = 0 .. length
    BY <1>1, <1>4, <1>6
  <2> QED BY <2>1, <2>2 DEF IsBuffer
<1>11. \A i \in 0 .. (pos + m) - 1 : s'[i] = Items(num + 1)[i + 1]
  <2> SUFFICES ASSUME NEW i \in 0 .. (pos + m) - 1 PROVE s'[i] = Items(num + 1)[i + 1]
    OBVIOUS
  <2>1. i \in 0 .. length /\ i + 1 \in 1 .. pos + m
    BY <1>4, <1>5
  <2>2. Items(num + 1)[i + 1] = IF i + 1 <= pos THEN Items(num)[i + 1] ELSE item[(i + 1) - pos]
    <3> DEFINE a == Items(num)
    <3>1. a \in Seq(0 .. 255) /\ pos = Len(a) /\ i + 1 \in 1 .. Len(a) + Len(item)
      BY <1>2, <1>4, <1>8, <2>1
    <3> HIDE DEF a
    <3>2. (a \o item)[i + 1] = IF i + 1 <= Len(a) THEN a[i + 1] ELSE item[(i + 1) - Len(a)]
      BY <1>4, <3>1, ConcatProperties
    <3> QED BY <1>4, <3>1, <3>2 DEF a
  <2>3. CASE i < pos
    <3>1. i \in 0 .. pos - 1 /\ i + 1 <= pos /\ i \notin pos .. pos + m - 1
      BY <1>4, <2>3
    <3> QED BY <1>2, <1>7, <2>1, <2>2, <3>1
  <2>4. CASE i >= pos
    <3>1. i \in pos .. pos + m - 1 /\ ~(i + 1 <= pos) /\ (i + 1) - pos = i - pos + 1
      BY <1>4, <2>4
    <3> QED BY <1>7, <2>1, <2>2, <3>1
  <2> QED BY <1>4, <2>1, <2>3, <2>4
<1>12. \A i \in pos + m .. length : s'[i] = Nul
  <2> SUFFICES ASSUME NEW i \in pos + m .. length PROVE s'[i] = Nul
    OBVIOUS
  <2>1. i \in pos .. length /\ i \in 0 .. length /\ i \notin pos .. pos + m - 1
    BY <1>4
  <2> QED BY <1>2, <1>7, <2>1
<1>13. Items(num)' = Items(num + 1) /\ Items(Len(call.array))' = Items(n)
  BY <1>1 DEF Items, n
<1>14. Buffer(length + 1)'
  BY <1>1, <1>10 DEF Buffer
<1> QED BY <1>1, <1>2, <1>3, <1>4, <1>11, <1>12, <1>13, <1>14 DEF AtJoin, n

LEMMA EndJoinKeeps == ASSUME JoinCall, EndJoin PROVE AtJoin'
<1>1. /\ pc = "join" /\ num = Len(call.array) /\ pc' = "return"
      /\ call' = call /\ num' = num /\ s' = s /\ pos' = pos /\ length' = length /\ start' = start /\ end' = end
  BY DEF EndJoin, Return, textVars
<1> QED BY <1>1 DEF JoinCall, AtJoin, Buffer, Items

LEMMA JoinTold ==
    ASSUME JoinCall, pc = "return"
    PROVE  s[length] = Nul /\ [i \in 1 .. length |-> s[i - 1]] = JoinedItems(call.array, Len(call.array))
<1> DEFINE n == Len(call.array)
           t == Items(n)
<1>1. /\ num = n /\ length = Len(t) /\ pos = Len(Items(num))
      /\ \A i \in 0 .. pos - 1 : s[i] = Items(num)[i + 1]
      /\ \A i \in pos .. length : s[i] = Nul
  BY DEF JoinCall, AtJoin
<1>2. t \in Seq(0 .. 255) /\ Len(t) \in Nat
  BY JoinFacts
<1>3. pos = length /\ \A i \in 0 .. length - 1 : s[i] = t[i + 1]
  BY <1>1
<1> HIDE DEF n, t
<1>4. \A i \in 1 .. length : s[i - 1] = t[i]
  <2> SUFFICES ASSUME NEW i \in 1 .. length PROVE s[i - 1] = t[i]
    OBVIOUS
  <2>1. i - 1 \in 0 .. length - 1 /\ (i - 1) + 1 = i
    BY <1>1, <1>2
  <2> QED BY <1>3, <2>1
<1>5. [i \in 1 .. length |-> s[i - 1]] = t
  <2>1. t = [i \in 1 .. length |-> t[i]]
    BY <1>1, <1>2
  <2> QED BY <1>4, <2>1
<1>6. s[length] = Nul
  BY <1>1, <1>2, <1>3
<1> QED BY <1>5, <1>6 DEF t, n, Items

-----------------------------------------------------------------------------
(* base64encode *)

LEMMA ElementsOf == ASSUME NEW S, NEW q \in Seq(S) PROVE Len(q) \in Nat /\ \A i \in 1 .. Len(q) : q[i] \in S
OBVIOUS

\* A byte of the data, and zeros after them.
ByteAt(data, i) == IF i <= Len(data) THEN data[i] ELSE 0

Characters(data, g) == Quartet(ByteAt(data, 3 * g + 1), ByteAt(data, 3 * g + 2), ByteAt(data, 3 * g + 3))

\* The characters of a group, padding in place of those that encode nothing.
Character(data, g, i) ==
    IF i > Len(data) - 3 * g THEN Pad ELSE Characters(data, g)[i + 1]

AsQuartet(q, a, b, c) ==
    /\ q \in Seq(0 .. 63) /\ Len(q) = 4
    /\ q[1] = a \div 4
    /\ q[2] = ((a * 16) % 64) + (b \div 16)
    /\ q[3] = ((b * 4) % 64) + (c \div 64)
    /\ q[4] = c % 64

LEMMA QuartetIs ==
    ASSUME NEW a \in 0 .. 255, NEW b \in 0 .. 255, NEW c \in 0 .. 255
    PROVE  AsQuartet(Quartet(a, b, c), a, b, c)
<1>1. a \div 4 \in 0 .. 63 /\ c % 64 \in 0 .. 63
  OBVIOUS
<1>2. ((a * 16) % 64) + (b \div 16) \in 0 .. 63
  <2>1. (a * 16) % 64 \in 0 .. 48
    OBVIOUS
  <2>2. b \div 16 \in 0 .. 15
    OBVIOUS
  <2> QED BY <2>1, <2>2
<1>3. ((b * 4) % 64) + (c \div 64) \in 0 .. 63
  <2>1. (b * 4) % 64 \in 0 .. 60
    OBVIOUS
  <2>2. c \div 64 \in 0 .. 3
    OBVIOUS
  <2> QED BY <2>1, <2>2
<1> DEFINE p == a \div 4
           q == ((a * 16) % 64) + (b \div 16)
           r0 == ((b * 4) % 64) + (c \div 64)
           z == c % 64
<1>4. Quartet(a, b, c) = <<p, q, r0, z>>
  BY DEF Quartet
<1> HIDE DEF p, q, r0, z
<1>5. p \in 0 .. 63 /\ q \in 0 .. 63 /\ r0 \in 0 .. 63 /\ z \in 0 .. 63
  BY <1>1, <1>2, <1>3 DEF p, q, r0, z
<1>6. /\ Quartet(a, b, c) \in Seq(0 .. 63) /\ Len(Quartet(a, b, c)) = 4
      /\ Quartet(a, b, c)[1] = p /\ Quartet(a, b, c)[2] = q
      /\ Quartet(a, b, c)[3] = r0 /\ Quartet(a, b, c)[4] = z
  BY <1>4, <1>5
<1> QED BY <1>6 DEF p, q, r0, z, AsQuartet

\* Three bytes to four characters and back.
LEMMA TripleIs ==
    ASSUME NEW a \in 0 .. 255, NEW b \in 0 .. 255, NEW c \in 0 .. 255
    PROVE  Triple(Quartet(a, b, c)[1], Quartet(a, b, c)[2], Quartet(a, b, c)[3], Quartet(a, b, c)[4])
             = <<a, b, c>>
<1> DEFINE q1 == Quartet(a, b, c)[1]
           q2 == Quartet(a, b, c)[2]
           q3 == Quartet(a, b, c)[3]
           q4 == Quartet(a, b, c)[4]
           a1 == a \div 4
           a0 == a % 4
           b1 == b \div 16
           b0 == b % 16
           c1 == c \div 64
           c0 == c % 64
<1>1. /\ q1 = a1 /\ q2 = ((a * 16) % 64) + b1 /\ q3 = ((b * 4) % 64) + c1 /\ q4 = c0
  <2>1. AsQuartet(Quartet(a, b, c), a, b, c)
    BY QuartetIs
  <2> QED BY <2>1 DEF AsQuartet
<1>2. (a * 16) % 64 = a0 * 16
  OBVIOUS
<1>3. (b * 4) % 64 = b0 * 4
  OBVIOUS
<1>4. /\ a1 \in 0 .. 63 /\ a0 \in 0 .. 3 /\ a = a1 * 4 + a0
      /\ b1 \in 0 .. 15 /\ b0 \in 0 .. 15 /\ b = b1 * 16 + b0
      /\ c1 \in 0 .. 3 /\ c0 \in 0 .. 63 /\ c = c1 * 64 + c0
  OBVIOUS
<1>5. q2 = a0 * 16 + b1 /\ q3 = b0 * 4 + c1
  BY <1>1, <1>2, <1>3
<1> HIDE DEF q1, q2, q3, q4, a1, a0, b1, b0, c1, c0
<1>6. q2 \div 16 = a0 /\ q2 % 16 = b1
  BY <1>4, <1>5
<1>7. q3 \div 4 = b0 /\ q3 % 4 = c1
  BY <1>4, <1>5
<1>8. q1 * 4 + (q2 \div 16) = a /\ (q2 % 16) * 16 + (q3 \div 4) = b /\ (q3 % 4) * 64 + q4 = c
  BY <1>1, <1>4, <1>6, <1>7
<1>9. Triple(q1, q2, q3, q4) = <<q1 * 4 + (q2 \div 16), (q2 % 16) * 16 + (q3 \div 4), (q3 % 4) * 64 + q4>>
  BY DEF Triple
<1> QED BY <1>8, <1>9 DEF q1, q2, q3, q4

LEMMA CharactersAre ==
    ASSUME NEW data, data \in Seq(0 .. 255), NEW g \in Nat
    PROVE  /\ \A i \in Nat \ {0} : ByteAt(data, i) \in 0 .. 255
           /\ Characters(data, g) \in Seq(0 .. 63) /\ Len(Characters(data, g)) = 4
           /\ \A i \in 0 .. 3 : Characters(data, g)[i + 1] \in 0 .. 63 /\ Character(data, g, i) \in Unset .. 255
           /\ \A i \in 0 .. 3 : (Character(data, g, i) = Pad <=> i > Len(data) - 3 * g)
           /\ \A i \in 0 .. 3 :
                 3 * g < Len(data) /\ i > Len(data) - 3 * g => Characters(data, g)[i + 1] = 0
<1>1. \A i \in Nat \ {0} : ByteAt(data, i) \in 0 .. 255
  <2> SUFFICES ASSUME NEW i \in Nat \ {0} PROVE ByteAt(data, i) \in 0 .. 255
    OBVIOUS
  <2>1. Len(data) \in Nat /\ \A n \in 1 .. Len(data) : data[n] \in 0 .. 255
    BY ElementsOf
  <2>2. i <= Len(data) => i \in 1 .. Len(data)
    BY <2>1
  <2> QED BY <2>1, <2>2 DEF ByteAt
<1> DEFINE a == ByteAt(data, 3 * g + 1)
           b == ByteAt(data, 3 * g + 2)
           c == ByteAt(data, 3 * g + 3)
           q == Characters(data, g)
<1>2. a \in 0 .. 255 /\ b \in 0 .. 255 /\ c \in 0 .. 255
  <2>1. 3 * g + 1 \in Nat \ {0} /\ 3 * g + 2 \in Nat \ {0} /\ 3 * g + 3 \in Nat \ {0}
    OBVIOUS
  <2> QED BY <1>1, <2>1
<1>3. q = Quartet(a, b, c)
  BY DEF Characters
<1>4. 3 * g < Len(data) => /\ 2 > Len(data) - 3 * g => b = 0
                           /\ 3 > Len(data) - 3 * g => c = 0
  <2>1. Len(data) \in Nat
    OBVIOUS
  <2> DEFINE n == Len(data)
  <2> HIDE DEF n
  <2>2. 2 > n - 3 * g => ~(3 * g + 2 <= n)
    BY <2>1 DEF n
  <2>3. 3 > n - 3 * g => ~(3 * g + 3 <= n)
    BY <2>1 DEF n
  <2> QED BY <2>2, <2>3 DEF n, ByteAt
<1> HIDE DEF a, b, c, q
<1>5. /\ q \in Seq(0 .. 63) /\ Len(q) = 4
      /\ q[3] = ((b * 4) % 64) + (c \div 64) /\ q[4] = c % 64
  <2>1. AsQuartet(q, a, b, c)
    BY <1>2, <1>3, QuartetIs
  <2> QED BY <2>1 DEF AsQuartet
<1>6. \A i \in 0 .. 3 : q[i + 1] \in 0 .. 63
  <2> SUFFICES ASSUME NEW i \in 0 .. 3 PROVE q[i + 1] \in 0 .. 63
    OBVIOUS
  <2>1. i + 1 \in 1 .. Len(q) /\ q \in Seq(0 .. 63)
    BY <1>5
  <2> QED BY <2>1, ElementsOf
<1>7. ASSUME NEW i \in 0 .. 3, 3 * g < Len(data), i > Len(data) - 3 * g PROVE q[i + 1] = 0
  <2>1. Len(data) \in Nat
    OBVIOUS
  <2>2. i \in {2, 3}
    BY <1>7, <2>1
  <2>3. CASE i = 2
    <3>1. b = 0 /\ c = 0
      BY <1>4, <1>7, <2>1, <2>3
    <3>2. q[3] = 0
      BY <1>5, <3>1
    <3> QED BY <2>3, <3>2
  <2>4. CASE i = 3
    <3>1. c = 0
      BY <1>4, <1>7, <2>1, <2>4
    <3>2. q[4] = 0
      BY <1>5, <3>1
    <3> QED BY <2>4, <3>2
  <2> QED BY <2>2, <2>3, <2>4
<1>8. \A i \in 0 .. 3 : Character(data, g, i) = IF i > Len(data) - 3 * g THEN Pad ELSE q[i + 1]
  BY DEF Character, q
<1>9. ASSUME NEW i \in 0 .. 3
      PROVE  Character(data, g, i) \in Unset .. 255 /\ (Character(data, g, i) = Pad <=> i > Len(data) - 3 * g)
  <2>1. q[i + 1] \in 0 .. 63
    BY <1>6
  <2> DEFINE v == q[i + 1]
  <2> HIDE DEF v
  <2>3. v \in 0 .. 63
    BY <2>1 DEF v
  <2>4. v # Pad /\ v \in Unset .. 255 /\ Pad \in Unset .. 255
    BY <2>3 DEF Pad, Unset
  <2>2. q[i + 1] # Pad /\ q[i + 1] \in Unset .. 255 /\ Pad \in Unset .. 255
    BY <2>4 DEF v
  <2> QED BY <1>8, <2>2
<1> QED BY <1>1, <1>5, <1>6, <1>7, <1>9 DEF q

\* What the code writes for the bytes of a group.
LEMMA GroupIs ==
    ASSUME NEW data, data \in Seq(0 .. 255), NEW g \in Nat, 3 * g < Len(data)
    PROVE  \A i \in 0 .. 3 : Group(data, 3 * g, Len(data) - 3 * g)[i + 1] = Character(data, g, i)
<1> DEFINE n == Len(data)
           k == 3 * g
           a == data[k + 1]
           j0 == n - k
<1>1. n \in Nat /\ k \in Nat /\ j0 \in Nat /\ j0 > 0 /\ a \in 0 .. 255 /\ 0 \in 0 .. 255
  <2>1. n \in Nat /\ k \in Nat /\ \A i \in 1 .. n : data[i] \in 0 .. 255
    BY ElementsOf
  <2>2. k < n
    OBVIOUS
  <2> HIDE DEF n, k
  <2>3. k + 1 \in 1 .. n /\ j0 \in Nat /\ j0 > 0
    BY <2>1, <2>2
  <2> QED BY <2>1, <2>3
<1>2. ASSUME NEW b \in 0 .. 255, NEW c \in 0 .. 255, NEW l \in 2 .. 3, NEW p, Len(p) = 4 - l, p \in Seq({Pad})
      PROVE  \A i \in 0 .. 3 : (SubSeq(Quartet(a, b, c), 1, l) \o p)[i + 1]
                                 = IF i < l THEN Quartet(a, b, c)[i + 1] ELSE Pad
  <2> DEFINE q == Quartet(a, b, c)
             h == SubSeq(q, 1, l)
             S == (0 .. 63) \cup {Pad}
  <2>1. q \in Seq(0 .. 63) /\ Len(q) = 4
    <3> HIDE DEF a
    <3>1. AsQuartet(q, a, b, c)
      BY <1>1, QuartetIs
    <3> QED BY <3>1 DEF AsQuartet
  <2> HIDE DEF q
  <2>2. \A i \in 1 .. l : q[i] \in S
    <3> SUFFICES ASSUME NEW i \in 1 .. l PROVE q[i] \in S
      OBVIOUS
    <3>1. i \in 1 .. Len(q) /\ q \in Seq(0 .. 63)
      BY <2>1
    <3>2. q[i] \in 0 .. 63
      BY <3>1, ElementsOf
    <3> QED BY <3>2
  <2>3. p \in Seq(S) /\ \A i \in 1 .. 4 - l : p[i] = Pad
    BY <1>2
  <2> HIDE DEF S
  <2>4. h \in Seq(S) /\ Len(h) = l /\ \A i \in 1 .. l : h[i] = q[i]
    <3>1. /\ h \in Seq(S) /\ Len(h) = (IF 1 <= l THEN l - 1 + 1 ELSE 0)
          /\ \A i \in 1 .. l - 1 + 1 : h[i] = q[1 + i - 1]
      BY <2>2, SubSeqProperties
    <3> HIDE DEF h
    <3> QED BY <3>1
  <2> HIDE DEF h
  <2>5. \A i \in 1 .. Len(h) + Len(p) : (h \o p)[i] = IF i <= Len(h) THEN h[i] ELSE p[i - Len(h)]
    BY <2>3, <2>4, ConcatProperties
  <2> SUFFICES ASSUME NEW i \in 0 .. 3 PROVE (h \o p)[i + 1] = IF i < l THEN q[i + 1] ELSE Pad
    BY DEF h, q
  <2>6. (h \o p)[i + 1] = IF i + 1 <= l THEN h[i + 1] ELSE p[i + 1 - l]
    <3>1. i + 1 \in 1 .. Len(h) + Len(p)
      BY <1>2, <2>4
    <3> QED BY <2>4, <2>5, <3>1
  <2>7. i < l => i + 1 \in 1 .. l
    OBVIOUS
  <2>8. ~(i < l) => i + 1 - l \in 1 .. 4 - l
    OBVIOUS
  <2> QED BY <2>3, <2>4, <2>6, <2>7, <2>8
<1>3. ByteAt(data, k + 1) = a /\ 3 * g + 1 = k + 1
  BY <1>1 DEF ByteAt
<1> DEFINE G == Group(data, k, j0)
           C(i) == Character(data, g, i)
<1>4. \A i \in 0 .. 3 : C(i) = IF i > j0 THEN Pad ELSE Characters(data, g)[i + 1]
  BY DEF Character
<1>5. CASE j0 = 1
  <2>1. G = SubSeq(Quartet(a, 0, 0), 1, 2) \o <<Pad, Pad>>
    BY <1>5 DEF Group
  <2>2. ByteAt(data, k + 2) = 0 /\ ByteAt(data, k + 3) = 0
    BY <1>1, <1>5 DEF ByteAt
  <2>3. Characters(data, g) = Quartet(a, 0, 0)
    BY <1>3, <2>2 DEF Characters
  <2> DEFINE p == <<Pad, Pad>>
  <2>4. p \in Seq({Pad}) /\ Len(p) = 4 - 2 /\ 2 \in 2 .. 3
    OBVIOUS
  <2> HIDE DEF C, G, a, p
  <2>8. 0 \in 0 .. 255
    OBVIOUS
  <2>9. \A i \in 0 .. 3 : (SubSeq(Quartet(a, 0, 0), 1, 2) \o p)[i + 1]
                             = IF i < 2 THEN Quartet(a, 0, 0)[i + 1] ELSE Pad
    BY <1>2, <2>4, <2>8, ZenonT(40)
  <2>10. G = SubSeq(Quartet(a, 0, 0), 1, 2) \o p
    BY <2>1 DEF p
  <2>5. \A i \in 0 .. 3 : G[i + 1] = IF i < 2 THEN Quartet(a, 0, 0)[i + 1] ELSE Pad
    BY <2>9, <2>10
  <2>6. \A i \in 0 .. 3 : i < 2 <=> ~(i > j0)
    BY <1>5
  <2> HIDE DEF j0, k
  <2>7. \A i \in 0 .. 3 : G[i + 1] = C(i)
    BY <1>4, <2>3, <2>5, <2>6
  <2> QED BY <2>7 DEF G, C, j0, k
<1>6. CASE j0 = 2
  <2> DEFINE y == data[k + 2]
  <2>1. G = SubSeq(Quartet(a, y, 0), 1, 3) \o <<Pad>>
    BY <1>6 DEF Group
  <2>2. ByteAt(data, k + 2) = y /\ ByteAt(data, k + 3) = 0 /\ y \in 0 .. 255
    BY <1>1, <1>6 DEF ByteAt
  <2>3. Characters(data, g) = Quartet(a, y, 0)
    BY <1>3, <2>2 DEF Characters
  <2> DEFINE p == <<Pad>>
  <2>4. p \in Seq({Pad}) /\ Len(p) = 4 - 3 /\ 3 \in 2 .. 3
    OBVIOUS
  <2> HIDE DEF C, G, a, y, p
  <2>8. 0 \in 0 .. 255 /\ y \in 0 .. 255
    BY <2>2
  <2>9. \A i \in 0 .. 3 : (SubSeq(Quartet(a, y, 0), 1, 3) \o p)[i + 1]
                             = IF i < 3 THEN Quartet(a, y, 0)[i + 1] ELSE Pad
    <3> DEFINE l == 3
               o == 0
    <3>1. l \in 2 .. 3 /\ Len(p) = 4 - l /\ p \in Seq({Pad}) /\ y \in 0 .. 255 /\ o \in 0 .. 255
      BY <2>4, <2>8
    <3> HIDE DEF l, o
    <3>2. \A i \in 0 .. 3 : (SubSeq(Quartet(a, y, o), 1, l) \o p)[i + 1]
                               = IF i < l THEN Quartet(a, y, o)[i + 1] ELSE Pad
      BY <1>2, <3>1, ZenonT(40)
    <3> QED BY <3>2 DEF l, o
  <2>10. G = SubSeq(Quartet(a, y, 0), 1, 3) \o p
    BY <2>1 DEF p
  <2>5. \A i \in 0 .. 3 : G[i + 1] = IF i < 3 THEN Quartet(a, y, 0)[i + 1] ELSE Pad
    BY <2>9, <2>10
  <2>6. \A i \in 0 .. 3 : i < 3 <=> ~(i > j0)
    BY <1>6
  <2> HIDE DEF j0, k
  <2>7. \A i \in 0 .. 3 : G[i + 1] = C(i)
    BY <1>4, <2>3, <2>5, <2>6
  <2> QED BY <2>7 DEF G, C, j0, k
<1>7. CASE j0 # 1 /\ j0 # 2
  <2> DEFINE b == data[k + 2]
             c == data[k + 3]
  <2>1. G = Quartet(a, b, c)
    BY <1>7 DEF Group
  <2>2. ByteAt(data, k + 2) = b /\ ByteAt(data, k + 3) = c
    BY <1>1, <1>7 DEF ByteAt
  <2>3. Characters(data, g) = Quartet(a, b, c)
    BY <1>3, <2>2 DEF Characters
  <2>6. \A i \in 0 .. 3 : ~(i > j0)
    BY <1>1, <1>7
  <2> HIDE DEF C, G, a, b, c, j0, k
  <2>7. \A i \in 0 .. 3 : G[i + 1] = C(i)
    BY <1>4, <2>1, <2>3, <2>6
  <2> QED BY <2>7 DEF G, C, j0, k
<1> QED BY <1>5, <1>6, <1>7

\* The groups that are written.
Groups == num \div 3

AreEncoded(t, data, n) == \A g \in 0 .. n - 1, i \in 0 .. 3 : t[4 * g + i] = Character(data, g, i)

AtEncode ==
    /\ pc \in {"call", "base64encode", "return"}
    /\ pc = "call" => TextIdle
    /\ pc # "call" =>
          /\ Buffer(call.room)
          /\ start = 0 /\ end = 0
          /\ num \in Nat /\ num = 3 * Groups /\ pos = 4 * Groups
          /\ num = 0 \/ num - 3 < Len(call.data)
          /\ AreEncoded(s, call.data, Groups)
    /\ pc = "base64encode" => length = 0
    /\ pc = "return" => length = pos /\ s[length] = Nul /\ num >= Len(call.data)

EncodeCall == call.f = "base64encode" /\ call' = call /\ WhereInv /\ AtEncode

LEMMA EncodeFacts ==
    ASSUME EncodeCall
    PROVE  /\ call.f = "base64encode" /\ call' = call /\ "l" \notin DOMAIN call
           /\ call.data \in Seq(0 .. 255) /\ Len(call.data) \in Nat
           /\ call.room \in Nat /\ 3 * call.room > Len(call.data) * 4 + 9
<1>1. call.f \in TextFunctions
  BY DEF EncodeCall, TextFunctions
<1>2. call.data \in Seq(0 .. 255) /\ call.room = base64length(Len(call.data)) /\ "l" \notin DOMAIN call
  BY <1>1, TextFacts DEF EncodeCall
<1>3. Len(call.data) \in Nat
  BY <1>2
<1>4. call.room \in Nat /\ 3 * call.room > Len(call.data) * 4 + 9
  <2> DEFINE n == Len(call.data)
  <2>1. call.room = (n * 4) \div 3 + 3 + 1
    BY <1>2 DEF base64length
  <2>2. n \in Nat
    BY <1>3
  <2> HIDE DEF n
  <2> DEFINE r0 == (n * 4) \div 3
  <2>3. r0 \in Nat /\ 3 * r0 > n * 4 - 3
    BY <2>2
  <2> HIDE DEF r0
  <2>4. call.room = r0 + 4
    BY <2>1, <2>3 DEF r0
  <2>5. call.room \in Nat /\ 3 * call.room > n * 4 + 9
    BY <2>2, <2>3, <2>4
  <2> QED BY <2>5 DEF n
<1> QED BY <1>1, <1>2, <1>3, <1>4 DEF EncodeCall

\* The groups of which each begins in the data fit the buffer.
LEMMA GroupsFit ==
    ASSUME EncodeCall, NEW g \in Nat, g = 0 \/ 3 * g - 3 < Len(call.data)
    PROVE  4 * g < call.room
BY EncodeFacts

LEMMA EnterEncodeKeeps == ASSUME EncodeCall, EnterText PROVE AtEncode'
<1>1. /\ pc = "call" /\ pc' = "base64encode" /\ num' = 0 /\ s' = [i \in 0 .. call.room - 1 |-> Unset]
      /\ length' = 0 /\ UNCHANGED <<call, pos, start, end>>
  BY EncodeFacts DEF EnterText, Called
<1>2. pos = 0 /\ start = 0 /\ end = 0
  BY <1>1 DEF EncodeCall, AtEncode, TextIdle
<1>3. Buffer(call.room)'
  BY <1>1 DEF Buffer, IsBuffer, Unset
<1>4. Groups' = 0
  BY <1>1 DEF Groups
<1>5. AreEncoded(s, call.data, Groups)'
  BY <1>4 DEF AreEncoded
<1> QED BY <1>1, <1>2, <1>3, <1>4, <1>5 DEF AtEncode

LEMMA GroupKeeps == ASSUME EncodeCall, EncodeGroup PROVE AtEncode'
<1> DEFINE d == call.data
           n == Len(call.data)
           g == Groups
           group == Group(call.data, num, n - num)
           room == call.room
<1>1. /\ pc = "base64encode" /\ num < n
      /\ s' = [i \in DOMAIN s |-> IF i \in pos .. pos + 3 THEN group[i - pos + 1] ELSE s[i]]
      /\ pos' = pos + 4 /\ num' = num + 3 /\ UNCHANGED <<call, pc, length, start, end>>
  BY DEF EncodeGroup
<1>2. /\ IsBuffer(s, room) /\ start = 0 /\ end = 0 /\ num \in Nat /\ num = 3 * g /\ pos = 4 * g
      /\ AreEncoded(s, d, g) /\ length = 0
  BY <1>1 DEF EncodeCall, AtEncode, Buffer
<1>3. g \in Nat /\ n \in Nat /\ d \in Seq(0 .. 255) /\ room \in Nat
  BY <1>2, EncodeFacts DEF Groups
<1>4. group = Group(d, 3 * g, Len(d) - 3 * g)
  BY <1>2, Zenon
<1>5. 3 * g < Len(d)
  BY <1>1, <1>2
<1> HIDE DEF d, g, group, room
<1>6. \A i \in 0 .. 3 : group[i + 1] = Character(d, g, i) /\ Character(d, g, i) \in Unset .. 255
  BY <1>3, <1>4, <1>5, GroupIs, CharactersAre
<1>7. 4 * (g + 1) < room
  <2>1. g + 1 \in Nat /\ 3 * (g + 1) - 3 < Len(call.data)
    BY <1>3, <1>5 DEF d
  <2> QED BY <2>1, GroupsFit DEF room
<1>8. pos + 3 \in 0 .. room - 1 /\ pos \in Nat
  BY <1>2, <1>3, <1>7
<1>9. DOMAIN s' = 0 .. room - 1
      /\ \A i \in 0 .. room - 1 : s'[i] = IF i \in pos .. pos + 3 THEN Character(d, g, i - pos) ELSE s[i]
  <2>1. DOMAIN s = 0 .. room - 1
    BY <1>2 DEF IsBuffer
  <2>2. \A i \in 0 .. room - 1 : s'[i] = IF i \in pos .. pos + 3 THEN group[i - pos + 1] ELSE s[i]
    BY <1>1, <2>1
  <2>3. \A i \in pos .. pos + 3 : group[i - pos + 1] = Character(d, g, i - pos)
    <3>1. \A i \in pos .. pos + 3 : i - pos \in 0 .. 3
      BY <1>8
    <3> QED BY <1>6, <3>1
  <2> QED BY <1>1, <2>1, <2>2, <2>3
<1>10. IsBuffer(s', room)
  <2> SUFFICES ASSUME NEW i \in 0 .. room - 1 PROVE s'[i] \in Unset .. 255
    BY <1>9 DEF IsBuffer
  <2>1. CASE i \in pos .. pos + 3
    <3>1. i - pos \in 0 .. 3
      BY <1>8, <2>1
    <3> QED BY <1>6, <1>9, <2>1, <3>1
  <2>2. CASE i \notin pos .. pos + 3
    BY <1>2, <1>9, <2>2 DEF IsBuffer
  <2> QED BY <2>1, <2>2
<1>11. AreEncoded(s', d, g + 1)
  <2> SUFFICES ASSUME NEW h \in 0 .. (g + 1) - 1, NEW i \in 0 .. 3 PROVE s'[4 * h + i] = Character(d, h, i)
    BY DEF AreEncoded
  <2>1. CASE h = g
    <3>1. 4 * h + i \in pos .. pos + 3 /\ 4 * h + i \in 0 .. room - 1 /\ (4 * h + i) - pos = i
      BY <1>2, <1>3, <1>8, <2>1
    <3> QED BY <1>9, <2>1, <3>1
  <2>2. CASE h # g
    <3>1. h \in 0 .. g - 1 /\ 4 * h + i \in 0 .. room - 1 /\ 4 * h + i \notin pos .. pos + 3
      BY <1>2, <1>3, <1>7, <2>2
    <3>2. s[4 * h + i] = Character(d, h, i)
      BY <1>2, <3>1 DEF AreEncoded
    <3> QED BY <1>9, <3>1, <3>2
  <2> QED BY <2>1, <2>2
<1>12. Groups' = g + 1 /\ num' = 3 * (g + 1) /\ pos' = 4 * (g + 1) /\ num' \in Nat
  BY <1>1, <1>2, <1>3 DEF Groups
<1>13. Buffer(call.room)' /\ AreEncoded(s, call.data, Groups)'
  BY <1>1, <1>10, <1>11, <1>12 DEF Buffer, room, d
<1>14. num' - 3 < Len(call.data)
  BY <1>1, <1>2
<1> QED BY <1>1, <1>2, <1>12, <1>13, <1>14 DEF AtEncode

LEMMA EndTextKeeps == ASSUME EncodeCall, EndText PROVE AtEncode'
<1> DEFINE room == call.room
           g == Groups
           k == pos
           t == s
<1>1. /\ pc = "base64encode" /\ num >= Len(call.data) /\ s' = [t EXCEPT ![k] = Nul] /\ length' = pos
      /\ pc' = "return" /\ UNCHANGED <<call, num, pos, start, end>>
  BY DEF EndText, Return
<1>2. /\ IsBuffer(t, room) /\ start = 0 /\ end = 0 /\ num \in Nat /\ num = 3 * g /\ pos = 4 * g
      /\ AreEncoded(s, call.data, g) /\ (num = 0 \/ num - 3 < Len(call.data))
  BY <1>1 DEF EncodeCall, AtEncode, Buffer
<1>3. g \in Nat /\ room \in Nat /\ room \in Int /\ k \in Int
  BY <1>2, EncodeFacts DEF Groups
<1> HIDE DEF g
<1>4. 4 * g < room
  <2>1. g = 0 \/ 3 * g - 3 < Len(call.data)
    BY <1>2, <1>3
  <2> QED BY <1>3, <2>1, GroupsFit
<1>5. k \in 0 .. room - 1
  BY <1>2, <1>3, <1>4
<1>6. Nul \in Unset .. 255
  BY DEF Nul, Unset
<1>7. IsBuffer(s', room) /\ (\A i \in 0 .. room - 1 : i # k => s'[i] = s[i]) /\ s'[k] = Nul
  <2> HIDE DEF t, k, room
  <2>1. IsBuffer(t, room)
    BY <1>2
  <2>2. LET u0 == [t EXCEPT ![k] = Nul]
        IN  IsBuffer(u0, room) /\ (\A i \in 0 .. room - 1 : i # k => u0[i] = t[i]) /\ u0[k] = Nul
    BY <1>3, <1>5, <1>6, <2>1, CharacterWritten
  <2> QED BY <1>1, <2>2 DEF t
<1>8. AreEncoded(s', call.data, g)
  <2> SUFFICES ASSUME NEW h \in 0 .. g - 1, NEW i \in 0 .. 3 PROVE s'[4 * h + i] = Character(call.data, h, i)
    BY DEF AreEncoded
  <2>1. 4 * h + i \in 0 .. room - 1 /\ 4 * h + i # k
    BY <1>2, <1>3, <1>4
  <2>2. s[4 * h + i] = Character(call.data, h, i)
    BY <1>2 DEF AreEncoded
  <2> QED BY <1>7, <2>1, <2>2
<1>9. Groups' = g
  BY <1>1 DEF Groups, g
<1>10. Buffer(call.room)' /\ AreEncoded(s, call.data, Groups)'
  BY <1>1, <1>7, <1>8, <1>9 DEF Buffer
<1>11. num' = 3 * g /\ pos' = 4 * g /\ s'[length'] = Nul
  BY <1>1, <1>2, <1>7
<1> QED BY <1>1, <1>2, <1>9, <1>10, <1>11 DEF AtEncode

\* The groups of a text, each read as three bytes.
LEMMA GroupRead ==
    ASSUME NEW data, data \in Seq(0 .. 255), NEW g \in Nat, 3 * g < Len(data), NEW c,
           \A i \in 0 .. 3 : c[i] = IF Character(data, g, i) = Pad THEN 0 ELSE Character(data, g, i)
    PROVE  Triple(c[0], c[1], c[2], c[3])
             = <<ByteAt(data, 3 * g + 1), ByteAt(data, 3 * g + 2), ByteAt(data, 3 * g + 3)>>
<1> DEFINE q == Characters(data, g)
           a == ByteAt(data, 3 * g + 1)
           b == ByteAt(data, 3 * g + 2)
           d == ByteAt(data, 3 * g + 3)
<1>1. ASSUME NEW i \in 0 .. 3 PROVE c[i] = q[i + 1]
  <2>1. Character(data, g, i) = IF i > Len(data) - 3 * g THEN Pad ELSE q[i + 1]
    BY DEF Character
  <2>2. /\ Character(data, g, i) = Pad <=> i > Len(data) - 3 * g
        /\ i > Len(data) - 3 * g => q[i + 1] = 0
    BY CharactersAre
  <2> HIDE DEF q
  <2> QED BY <2>1, <2>2
<1>2. c[0] = q[1] /\ c[1] = q[2] /\ c[2] = q[3] /\ c[3] = q[4]
  <2>1. /\ 0 \in 0 .. 3 /\ 1 \in 0 .. 3 /\ 2 \in 0 .. 3 /\ 3 \in 0 .. 3
        /\ 0 + 1 = 1 /\ 1 + 1 = 2 /\ 2 + 1 = 3 /\ 3 + 1 = 4
    OBVIOUS
  <2>2. c[0] = q[0 + 1] /\ c[1] = q[1 + 1] /\ c[2] = q[2 + 1] /\ c[3] = q[3 + 1]
    BY <1>1, <2>1
  <2> QED BY <2>1, <2>2
<1>3. a \in 0 .. 255 /\ b \in 0 .. 255 /\ d \in 0 .. 255
  <2>1. 3 * g + 1 \in Nat \ {0} /\ 3 * g + 2 \in Nat \ {0} /\ 3 * g + 3 \in Nat \ {0}
    OBVIOUS
  <2> QED BY <2>1, CharactersAre
<1>4. q = Quartet(a, b, d)
  BY DEF Characters
<1> HIDE DEF q, a, b, d
<1>5. Triple(q[1], q[2], q[3], q[4]) = <<a, b, d>>
  BY <1>3, <1>4, TripleIs
<1> QED BY <1>2, <1>5 DEF a, b, d

LEMMA ThreeMore ==
    ASSUME NEW a \in Int, NEW j0 \in Int, j0 <= a + 3
    PROVE  j0 <= a \/ j0 = a + 1 \/ j0 = a + 2 \/ j0 = a + 3
OBVIOUS

\* A chain of groups of three bytes.
LEMMA ChainOfThree ==
    ASSUME NEW data, data \in Seq(0 .. 255), NEW n \in Nat, NEW g, NEW v, IsChain(v, g, n),
           \A i \in 1 .. n : g[i] = <<ByteAt(data, 3 * i - 2), ByteAt(data, 3 * i - 1), ByteAt(data, 3 * i)>>
    PROVE  /\ v[n] \in Seq(0 .. 255) /\ Len(v[n]) = 3 * n
           /\ \A j0 \in 1 .. 3 * n : v[n][j0] = ByteAt(data, j0)
<1> DEFINE S == 0 .. 255
           B1(j0) == ByteAt(data, j0)
           Good(i) == v[i] \in Seq(S) /\ Len(v[i]) = 3 * i /\ \A j0 \in 1 .. 3 * i : v[i][j0] = B1(j0)
           T == {i \in 0 .. n : Good(i)}
<1>1. v[0] = <<>> /\ \A i \in 1 .. n : v[i] = v[i - 1] \o g[i]
  BY ChainStep
<1>2. \A j0 \in Nat \ {0} : B1(j0) \in S
  BY CharactersAre, 0 \in Nat
<1> HIDE DEF S, B1
<1>3. 0 \in T
  <2>1. 3 * 0 = 0 /\ 0 \in 0 .. n
    OBVIOUS
  <2>2. <<>> \in Seq(S) /\ Len(<<>>) = 0
    OBVIOUS
  <2>3. \A j0 \in 1 .. 3 * 0 : v[0][j0] = B1(j0)
    OBVIOUS
  <2> QED BY <1>1, <2>1, <2>2, <2>3
<1>4. ASSUME NEW i \in 0 .. n - 1, i \in T PROVE i + 1 \in T
  <2> DEFINE u0 == v[i]
             w == v[i + 1]
             h == g[i + 1]
             x == B1(3 * i + 1)
             y == B1(3 * i + 2)
             z == B1(3 * i + 3)
  <2>1. i + 1 \in 1 .. n /\ (i + 1) - 1 = i /\ i + 1 \in 0 .. n
        /\ 3 * (i + 1) - 2 = 3 * i + 1 /\ 3 * (i + 1) - 1 = 3 * i + 2 /\ 3 * (i + 1) = 3 * i + 3 /\ i \in Nat
    OBVIOUS
  <2>2. u0 \in Seq(S) /\ Len(u0) = 3 * i /\ \A j0 \in 1 .. 3 * i : u0[j0] = B1(j0)
    BY <1>4
  <2>3. h = <<x, y, z>>
    BY <2>1 DEF B1
  <2>4. x \in S /\ y \in S /\ z \in S
    BY <1>2, <2>1
  <2>5. w = u0 \o h
    BY <1>1, <2>1
  <2>6. h \in Seq(S) /\ Len(h) = 3 /\ h[1] = x /\ h[2] = y /\ h[3] = z
    <3> HIDE DEF h, x, y, z
    <3> QED BY <2>3, <2>4
  <2> HIDE DEF u0, w, h
  <2>7. /\ w \in Seq(S) /\ Len(w) = 3 * i + 3
        /\ \A j0 \in 1 .. 3 * i + 3 : w[j0] = IF j0 <= 3 * i THEN u0[j0] ELSE h[j0 - 3 * i]
    <3>1. /\ u0 \o h \in Seq(S) /\ Len(u0 \o h) = Len(u0) + Len(h)
          /\ \A j0 \in 1 .. Len(u0) + Len(h) : (u0 \o h)[j0] = IF j0 <= Len(u0) THEN u0[j0] ELSE h[j0 - Len(u0)]
      BY <2>2, <2>6, ConcatProperties
    <3> QED BY <2>2, <2>5, <2>6, <3>1
  <2>8. \A j0 \in 1 .. 3 * i + 3 : w[j0] = B1(j0)
    <3> SUFFICES ASSUME NEW j0 \in 1 .. 3 * i + 3 PROVE w[j0] = B1(j0)
      OBVIOUS
    <3>1. CASE j0 <= 3 * i
      <4>1. j0 \in 1 .. 3 * i
        BY <2>1, <3>1
      <4> QED BY <2>2, <2>7, <3>1, <4>1
    <3>2. CASE j0 = 3 * i + 1
      <4>1. ~(j0 <= 3 * i) /\ j0 - 3 * i = 1
        BY <2>1, <3>2
      <4> QED BY <2>6, <2>7, <3>2, <4>1
    <3>3. CASE j0 = 3 * i + 2
      <4>1. ~(j0 <= 3 * i) /\ j0 - 3 * i = 2
        BY <2>1, <3>3
      <4> QED BY <2>6, <2>7, <3>3, <4>1
    <3>4. CASE j0 = 3 * i + 3
      <4>1. ~(j0 <= 3 * i) /\ j0 - 3 * i = 3
        BY <2>1, <3>4
      <4> QED BY <2>6, <2>7, <3>4, <4>1
    <3>5. j0 <= 3 * i \/ j0 = 3 * i + 1 \/ j0 = 3 * i + 2 \/ j0 = 3 * i + 3
      <4> DEFINE a == 3 * i
      <4>1. a \in Int /\ j0 \in Int /\ j0 <= a + 3
        BY <2>1
      <4> HIDE DEF a
      <4>2. j0 <= a \/ j0 = a + 1 \/ j0 = a + 2 \/ j0 = a + 3
        BY <4>1, ThreeMore
      <4> QED BY <4>2 DEF a
    <3> QED BY <3>1, <3>2, <3>3, <3>4, <3>5
  <2>9. Good(i + 1)
    BY <2>1, <2>7, <2>8 DEF w
  <2> HIDE DEF Good
  <2> QED BY <2>1, <2>9
<1> HIDE DEF T
<1>5. 0 .. n \subseteq T
  <2>1. 0 \in Int /\ n \in Int
    OBVIOUS
  <2> QED BY <1>3, <1>4, <2>1, IntervalInduction
<1>6. n \in T
  BY <1>5
<1>7. Good(n)
  BY <1>6 DEF T
<1> QED BY <1>7 DEF S, B1

\* The text that is written reads back to the data.
LEMMA EncodeTold ==
    ASSUME EncodeCall, pc = "return"
    PROVE  s[length] = Nul /\ length % 4 = 0 /\ Decoded(length) = call.data
<1> DEFINE data == call.data
           n == Len(call.data)
           m == Groups
           shown(i) == IF s[i] = Pad THEN 0 ELSE s[i]
           k == length
           P(b) == b = [i \in 0 .. k \div 4 |->
                          IF i = 0 THEN <<>>
                          ELSE b[i - 1] \o Triple(shown(4 * i - 4), shown(4 * i - 3), shown(4 * i - 2), shown(4 * i - 1))]
           w == CHOOSE b : P(b)
           whole == w[k \div 4]
           padding == {i \in 0 .. k - 1 : s[i] = Pad}
           pads == IF padding = {} THEN 0 ELSE IF padding = {k - 1} THEN 1 ELSE 2
           G == [i \in 1 .. m |-> <<ByteAt(data, 3 * i - 2), ByteAt(data, 3 * i - 1), ByteAt(data, 3 * i)>>]
<1>1. /\ num \in Nat /\ num = 3 * m /\ length = 4 * m /\ (num = 0 \/ num - 3 < n)
      /\ AreEncoded(s, data, m) /\ s[length] = Nul /\ num >= n
  BY DEF EncodeCall, AtEncode
<1>2. m \in Nat /\ n \in Nat /\ data \in Seq(0 .. 255)
  BY <1>1, EncodeFacts DEF Groups
<1> HIDE DEF m
<1>3. k \div 4 = m /\ k % 4 = 0 /\ k = 4 * m
  <2>1. k = 4 * m
    BY <1>1
  <2> HIDE DEF k
  <2> QED BY <1>2, <2>1
<1>4. Decoded(k) = SubSeq(whole, 1, Len(whole) - pads)
  BY Zenon DEF Decoded
<1>5. \A g \in 0 .. m - 1 : 3 * g < n
  BY <1>1, <1>2
<1>6. ASSUME NEW i \in 1 .. m
      PROVE  Triple(shown(4 * i - 4), shown(4 * i - 3), shown(4 * i - 2), shown(4 * i - 1)) = G[i]
  <2> DEFINE g == i - 1
             c == [j0 \in 0 .. 3 |-> shown(4 * g + j0)]
  <2>1. g \in 0 .. m - 1 /\ g \in Nat /\ 3 * g < Len(data)
    BY <1>2, <1>5
  <2>2. \A j0 \in 0 .. 3 : s[4 * g + j0] = Character(data, g, j0)
    BY <1>1, <2>1 DEF AreEncoded
  <2>3. \A j0 \in 0 .. 3 : c[j0] = IF Character(data, g, j0) = Pad THEN 0 ELSE Character(data, g, j0)
    BY <2>2
  <2>4. 4 * i - 4 = 4 * g + 0 /\ 4 * i - 3 = 4 * g + 1 /\ 4 * i - 2 = 4 * g + 2 /\ 4 * i - 1 = 4 * g + 3
        /\ 3 * i - 2 = 3 * g + 1 /\ 3 * i - 1 = 3 * g + 2 /\ 3 * i = 3 * g + 3
    BY <1>2
  <2>5. shown(4 * i - 4) = c[0] /\ shown(4 * i - 3) = c[1] /\ shown(4 * i - 2) = c[2] /\ shown(4 * i - 1) = c[3]
    <3> HIDE DEF shown, g
    <3> QED BY <2>4
  <2> HIDE DEF c, shown, g, data
  <2>6. Triple(c[0], c[1], c[2], c[3])
          = <<ByteAt(data, 3 * g + 1), ByteAt(data, 3 * g + 2), ByteAt(data, 3 * g + 3)>>
    BY <1>2, <2>1, <2>3, GroupRead
  <2> QED BY <2>4, <2>5, <2>6
<1>7. \A b : P(b) <=> IsChain(b, G, m)
  <2> SUFFICES ASSUME NEW b PROVE P(b) <=> IsChain(b, G, m)
    OBVIOUS
  <2> DEFINE e(i) == b[i - 1] \o Triple(shown(4 * i - 4), shown(4 * i - 3), shown(4 * i - 2), shown(4 * i - 1))
             f(i) == b[i - 1] \o G[i]
  <2>1. \A i \in 1 .. m : e(i) = f(i)
    <3> HIDE DEF shown, G
    <3> QED BY <1>6
  <2>2. P(b) <=> b = [i \in 0 .. m |-> IF i = 0 THEN <<>> ELSE e(i)]
    <3> HIDE DEF shown, k
    <3> QED BY <1>3
  <2>3. IsChain(b, G, m) <=> b = [i \in 0 .. m |-> IF i = 0 THEN <<>> ELSE f(i)]
    BY Zenon DEF IsChain
  <2> HIDE DEF e, f, P
  <2>4. \A i \in 0 .. m : (IF i = 0 THEN <<>> ELSE e(i)) = (IF i = 0 THEN <<>> ELSE f(i))
    <3>1. \A i \in 0 .. m : i # 0 => i \in 1 .. m
      BY <1>2
    <3> QED BY <2>1, <3>1, Zenon
  <2>5. [i \in 0 .. m |-> IF i = 0 THEN <<>> ELSE e(i)] = [i \in 0 .. m |-> IF i = 0 THEN <<>> ELSE f(i)]
    BY <2>4, Zenon
  <2> QED BY <2>2, <2>3, <2>5, Zenon
<1>8. \A i \in 1 .. m : G[i] = <<ByteAt(data, 3 * i - 2), ByteAt(data, 3 * i - 1), ByteAt(data, 3 * i)>>
  OBVIOUS
<1>9. \A i \in 1 .. m : G[i] \in Seq(0 .. 255)
  <2> SUFFICES ASSUME NEW i \in 1 .. m PROVE G[i] \in Seq(0 .. 255)
    OBVIOUS
  <2> DEFINE S == 0 .. 255
             x == ByteAt(data, 3 * i - 2)
             y == ByteAt(data, 3 * i - 1)
             z == ByteAt(data, 3 * i)
  <2>1. 3 * i - 2 \in Nat \ {0} /\ 3 * i - 1 \in Nat \ {0} /\ 3 * i \in Nat \ {0} /\ 0 \in Nat
    BY <1>2
  <2>2. x \in S /\ y \in S /\ z \in S
    BY <1>2, <2>1, CharactersAre
  <2>3. G[i] = <<x, y, z>>
    BY <1>8
  <2> HIDE DEF x, y, z, S, G
  <2>4. G[i] \in Seq(S)
    BY <2>2, <2>3
  <2> QED BY <2>4 DEF S
<1> HIDE DEF P, G, shown
<1>10. IsChain(w, G, m)
  <2>1. \E b : IsChain(b, G, m)
    BY <1>2, <1>9, ChainIs
  <2>2. \E b : P(b)
    BY <1>7, <2>1, Zenon
  <2>3. P(w)
    BY <2>2, Zenon
  <2> QED BY <1>7, <2>3, Zenon
<1> HIDE DEF w
<1>11. /\ whole \in Seq(0 .. 255) /\ Len(whole) = 3 * m
       /\ \A j0 \in 1 .. 3 * m : whole[j0] = ByteAt(data, j0)
  <2>1. whole = w[m]
    BY <1>3
  <2> HIDE DEF whole, data
  <2>2. /\ w[m] \in Seq(0 .. 255) /\ Len(w[m]) = 3 * m
        /\ \A j0 \in 1 .. 3 * m : w[m][j0] = ByteAt(data, j0)
    BY <1>2, <1>8, <1>10, ChainOfThree, SMTT(30)
  <2> QED BY <2>1, <2>2
<1> HIDE DEF whole
<1>12. ASSUME NEW g \in 0 .. m - 1, NEW j0 \in 0 .. 3 PROVE s[4 * g + j0] = Pad <=> j0 > n - 3 * g
  <2>1. s[4 * g + j0] = Character(data, g, j0)
    BY <1>1 DEF AreEncoded
  <2>2. g \in Nat
    BY <1>2
  <2>3. Character(data, g, j0) = Pad <=> j0 > Len(data) - 3 * g
    <3> HIDE DEF data
    <3> QED BY <1>2, <2>2, CharactersAre
  <2> QED BY <2>1, <2>3
<1> HIDE DEF k
<1>13. ASSUME NEW i \in 0 .. k - 1
       PROVE  i \div 4 \in 0 .. m - 1 /\ i % 4 \in 0 .. 3 /\ i = 4 * (i \div 4) + (i % 4)
  BY <1>2, <1>3
<1>14. pads = 3 * m - n
  <2>1. ASSUME NEW i \in 0 .. k - 1
        PROVE  s[i] = Pad <=> (i >= 4 * m - 4 /\ i - (4 * m - 4) > n - 3 * (m - 1))
    <3> DEFINE g == i \div 4
               j0 == i % 4
    <3>1. g \in 0 .. m - 1 /\ j0 \in 0 .. 3 /\ i = 4 * g + j0
      BY <1>13
    <3> HIDE DEF g, j0
    <3>2. s[i] = Pad <=> j0 > n - 3 * g
      BY <1>12, <3>1
    <3>3. CASE g = m - 1
      <4>1. i >= 4 * m - 4 /\ i - (4 * m - 4) = j0
        BY <1>2, <3>1, <3>3
      <4> QED BY <3>2, <3>3, <4>1
    <3>4. CASE g # m - 1
      <4>1. g <= m - 2 /\ ~(i >= 4 * m - 4)
        BY <1>2, <3>1, <3>4
      <4>2. ~(j0 > n - 3 * g)
        <5>1. 3 * (m - 1) < n
          BY <1>2, <1>5, <3>1
        <5> HIDE DEF n
        <5> QED BY <1>2, <3>1, <4>1, <5>1
      <4> QED BY <3>2, <4>1, <4>2
    <3> QED BY <3>3, <3>4
  <2>2. 3 * m - n \in 0 .. 2
    <3> HIDE DEF n
    <3>1. n \in Nat /\ m \in Nat /\ 3 * m >= n /\ (3 * m = 0 \/ 3 * m - 3 < n)
      BY <1>1, <1>2
    <3> QED BY <3>1
  <2>3. padding = {i \in 0 .. k - 1 : i >= 4 * m - 4 /\ i - (4 * m - 4) > n - 3 * (m - 1)}
    BY <2>1
  <2> HIDE DEF n
  <2>4. CASE n = 3 * m
    <3>1. padding = {}
      BY <1>2, <1>3, <2>3, <2>4
    <3> QED BY <1>2, <2>4, <3>1
  <2>5. CASE n = 3 * m - 1
    <3>0. m > 0
      BY <1>2, <2>5
    <3>1. \A i \in 0 .. k - 1 : (i >= 4 * m - 4 /\ i - (4 * m - 4) > n - 3 * (m - 1)) <=> i = k - 1
      BY <1>2, <1>3, <2>5
    <3>2. k - 1 \in 0 .. k - 1
      BY <1>2, <1>3, <3>0
    <3>3. padding = {k - 1}
      BY <2>3, <3>1, <3>2
    <3>4. padding # {}
      BY <3>3
    <3> QED BY <1>2, <2>5, <3>3, <3>4
  <2>6. CASE n = 3 * m - 2
    <3>0. m > 0
      BY <1>2, <2>6
    <3>1. k - 2 \in 0 .. k - 1 /\ k - 2 >= 4 * m - 4 /\ (k - 2) - (4 * m - 4) > n - 3 * (m - 1) /\ k - 2 # k - 1
      BY <1>2, <1>3, <2>6, <3>0
    <3>2. k - 2 \in padding
      BY <2>3, <3>1
    <3>3. padding # {} /\ padding # {k - 1}
      BY <3>1, <3>2
    <3> HIDE DEF padding
    <3> QED BY <1>2, <2>6, <3>3
  <2>7. n = 3 * m \/ n = 3 * m - 1 \/ n = 3 * m - 2
    BY <1>2, <2>2
  <2> QED BY <2>4, <2>5, <2>6, <2>7
<1>15. SubSeq(whole, 1, Len(whole) - pads) = data
  <2> DEFINE S == 0 .. 255
             r0 == SubSeq(whole, 1, n)
  <2>1. Len(whole) - pads = n /\ n <= 3 * m
    <3> HIDE DEF pads
    <3> QED BY <1>1, <1>2, <1>11, <1>14
  <2>2. \A i \in 1 .. n : whole[i] = data[i] /\ data[i] \in S
    <3>1. \A i \in 1 .. n : i \in 1 .. 3 * m /\ ByteAt(data, i) = data[i]
      BY <1>2, <2>1 DEF ByteAt
    <3>2. \A i \in 1 .. n : data[i] \in S
      BY <1>2, ElementsOf
    <3> QED BY <1>11, <3>1, <3>2
  <2> HIDE DEF S
  <2>3. r0 \in Seq(S) /\ Len(r0) = n /\ \A i \in 1 .. n : r0[i] = data[i]
    <3>1. \A i \in 1 .. n : whole[i] \in S
      BY <2>2
    <3> DEFINE z == n
    <3>4. z \in Nat /\ z \in Int /\ 1 \in Int
      BY <1>2
    <3>5. \A i \in 1 .. z : whole[i] \in S
      BY <3>1
    <3> HIDE DEF z
    <3>2. /\ SubSeq(whole, 1, z) \in Seq(S) /\ Len(SubSeq(whole, 1, z)) = (IF 1 <= z THEN z - 1 + 1 ELSE 0)
          /\ \A i \in 1 .. z - 1 + 1 : SubSeq(whole, 1, z)[i] = whole[1 + i - 1]
      BY <3>4, <3>5, SubSeqProperties
    <3> DEFINE y == SubSeq(whole, 1, z)
    <3> HIDE DEF y
    <3>3. y \in Seq(S) /\ Len(y) = z /\ \A i \in 1 .. z : y[i] = whole[i]
      <4>1. /\ y \in Seq(S) /\ Len(y) = (IF 1 <= z THEN z - 1 + 1 ELSE 0)
            /\ \A i \in 1 .. z - 1 + 1 : y[i] = whole[1 + i - 1]
        BY <3>2 DEF y
      <4> QED BY <3>4, <4>1
    <3> QED BY <2>2, <3>3 DEF y, z
  <2>4. data \in Seq(S)
    BY <1>2 DEF S
  <2>5. r0 = data
    <3> HIDE DEF r0, data
    <3>1. Len(data) = n
      BY DEF data
    <3> QED BY <2>3, <2>4, <3>1, SeqEqual
  <2> QED BY <2>1, <2>5
<1>16. Decoded(length) = call.data
  <2> HIDE DEF pads, data
  <2>1. Decoded(k) = data
    BY <1>4, <1>15, Zenon
  <2> QED BY <2>1 DEF k, data
<1> QED BY <1>1, <1>3, <1>16 DEF k

-----------------------------------------------------------------------------
(* All five functions *)

TextInv ==
    /\ call.f = "snprintUInt64" => AtPrint
    /\ call.f = "itoa" => AtItoa
    /\ call.f = "parseHex" => AtHex
    /\ call.f = "strjoin" => AtJoin
    /\ call.f = "base64encode" => AtEncode
    /\ call.f \notin TextFunctions => TextIdle

LEMMA TextInit == ASSUME Init PROVE TextInv
BY DEF Init, Idle, TextInv, AtPrint, AtItoa, AtHex, AtJoin, AtEncode

\* Each function takes its own steps.
LEMMA PrintOnly ==
    ASSUME PrintCall, TextNext
    PROVE  EnterText \/ Cut \/ Terminate \/ WidePair \/ NarrowPair \/ Narrow \/ Single \/ WriteDigit
BY DEF PrintCall, AtPrint, TextNext, Zero, Begin, Digit, Sign, Swap, Reversed, EncodeGroup, EndText, HexByte,
       EndHex, MeasureItem, AllocateJoin, JoinItem, EndJoin

LEMMA ItoaOnly ==
    ASSUME ItoaCall, TextNext
    PROVE  EnterText \/ Zero \/ Begin \/ Digit \/ Sign \/ Swap \/ Reversed
BY DEF ItoaCall, AtItoa, TextNext, Cut, Terminate, WidePair, NarrowPair, Narrow, Single, WriteDigit, EncodeGroup,
       EndText, HexByte, EndHex, MeasureItem, AllocateJoin, JoinItem, EndJoin

LEMMA HexOnly == ASSUME HexCall, TextNext PROVE EnterText \/ HexByte \/ EndHex
BY DEF HexCall, AtHex, TextNext, Cut, Terminate, WidePair, NarrowPair, Narrow, Single, WriteDigit, Zero, Begin,
       Digit, Sign, Swap, Reversed, EncodeGroup, EndText, MeasureItem, AllocateJoin, JoinItem, EndJoin

LEMMA JoinOnly == ASSUME JoinCall, TextNext PROVE EnterText \/ MeasureItem \/ AllocateJoin \/ JoinItem \/ EndJoin
BY DEF JoinCall, AtJoin, TextNext, Cut, Terminate, WidePair, NarrowPair, Narrow, Single, WriteDigit, Zero, Begin,
       Digit, Sign, Swap, Reversed, EncodeGroup, EndText, HexByte, EndHex

LEMMA EncodeOnly == ASSUME EncodeCall, TextNext PROVE EnterText \/ EncodeGroup \/ EndText
BY DEF EncodeCall, AtEncode, TextNext, Cut, Terminate, WidePair, NarrowPair, Narrow, Single, WriteDigit, Zero,
       Begin, Digit, Sign, Swap, Reversed, HexByte, EndHex, MeasureItem, AllocateJoin, JoinItem, EndJoin

LEMMA TextStays ==
    ASSUME TextInv, UNCHANGED textVars, UNCHANGED <<call, pc>>
    PROVE  TextInv'
<1>1. UNCHANGED <<num, s, pos, length, start, end, call, pc>>
  BY DEF textVars
<1>2. TextIdle' = TextIdle /\ (\A n : Buffer(n)' = Buffer(n))
  BY <1>1 DEF TextIdle, Buffer
<1>3. AtPrint' = AtPrint
  <2>1. Printing' = Printing
    BY <1>1 DEF Printing, LengthKept, AreDigits
  <2>2. Printed10' = Printed10
    BY <1>1 DEF Printed10, LengthKept, AreDigits, NumberAt
  <2> QED BY <1>1, <1>2, <2>1, <2>2 DEF AtPrint
<1>4. AtItoa' = AtItoa
  <2>1. isNegative' = isNegative /\ sign' = sign /\ value' = value /\ Original' = Original
    BY <1>1 DEF isNegative, sign, value, Original
  <2>2. AtDigits' = AtDigits
    BY <1>1, <2>1 DEF AtDigits
  <2>3. AtReverse' = AtReverse
    BY <1>1, <2>1 DEF AtReverse
  <2>4. AfterItoa' = AfterItoa
    BY <1>1, <2>1 DEF AfterItoa, NumberAt
  <2> QED BY <1>1, <1>2, <2>2, <2>3, <2>4 DEF AtItoa
<1>5. AtHex' = AtHex
  BY <1>1, <1>2 DEF AtHex
<1>6. AtJoin' = AtJoin
  BY <1>1, <1>2 DEF AtJoin, Items
<1>7. AtEncode' = AtEncode
  BY <1>1, <1>2 DEF AtEncode, Groups
<1> QED BY <1>1, <1>2, <1>3, <1>4, <1>5, <1>6, <1>7 DEF TextInv

LEMMA TextStepKeeps ==
    ASSUME TextInv, WhereInv, call' = call, TextNext
    PROVE  TextInv'
<1>1. call.f \in TextFunctions
  BY TextCall
<1>2. CASE call.f = "snprintUInt64"
  <2>1. PrintCall
    BY <1>2 DEF PrintCall, TextInv
  <2>2. AtPrint'
    BY <2>1, PrintOnly, EnterPrintKeeps, CutKeeps, TerminateKeeps, PairKeeps, NarrowKeeps, WriteDigitKeeps
  <2> QED BY <1>1, <1>2, <2>2 DEF TextInv
<1>3. CASE call.f = "itoa"
  <2>1. ItoaCall
    BY <1>3 DEF ItoaCall, TextInv
  <2>2. AtItoa'
    BY <2>1, ItoaOnly, EnterItoaKeeps, ZeroKeeps, BeginKeeps, DigitKeeps, SignKeeps, SwapKeeps, ReversedKeeps
  <2> QED BY <1>1, <1>3, <2>2 DEF TextInv
<1>4. CASE call.f = "parseHex"
  <2>1. HexCall
    BY <1>4 DEF HexCall, TextInv
  <2>2. AtHex'
    BY <2>1, HexOnly, EnterHexKeeps, HexByteKeeps, EndHexKeeps
  <2> QED BY <1>1, <1>4, <2>2 DEF TextInv
<1>5. CASE call.f = "strjoin"
  <2>1. JoinCall
    BY <1>5 DEF JoinCall, TextInv
  <2>2. AtJoin'
    BY <2>1, JoinOnly, EnterJoinKeeps, MeasureKeeps, AllocateKeeps, JoinItemKeeps, EndJoinKeeps
  <2> QED BY <1>1, <1>5, <2>2 DEF TextInv
<1>6. CASE call.f = "base64encode"
  <2>1. EncodeCall
    BY <1>6 DEF EncodeCall, TextInv
  <2>2. AtEncode'
    BY <2>1, EncodeOnly, EnterEncodeKeeps, GroupKeeps, EndTextKeeps
  <2> QED BY <1>1, <1>6, <2>2 DEF TextInv
<1> QED BY <1>1, <1>2, <1>3, <1>4, <1>5, <1>6 DEF TextFunctions

LEMMA TextNextKeeps == ASSUME TextInv, WhereInv, TwisterInv, [Next]_vars PROVE TextInv'
<1>1. call' = call
  BY CallStays
<1>2. CASE TextNext
  BY <1>1, <1>2, TextStepKeeps
<1>3. CASE UNCHANGED textVars /\ (call.f \notin TextFunctions \/ UNCHANGED <<call, pc>>)
  <2>1. CASE call.f \notin TextFunctions
    BY <1>1, <1>3, <2>1 DEF TextInv, TextIdle, textVars, TextFunctions
  <2>2. CASE UNCHANGED <<call, pc>>
    BY <1>3, <2>2, TextStays
  <2> QED BY <1>3, <2>1, <2>2
<1> QED BY <1>2, <1>3, OnlyText

LEMMA BufferTyped ==
    ASSUME NEW n \in Int, Buffer(n)
    PROVE  \A i \in DOMAIN s : s[i] \in Unset .. 255
BY DEF Buffer, IsBuffer

LEMMA IdleTyped ==
    ASSUME TextIdle
    PROVE  num = 0 /\ (\A i \in DOMAIN s : s[i] \in Unset .. 255) /\ length = 0 /\ start = 0 /\ pos = 0 /\ end = 0
BY DEF TextIdle

LEMMA PrintTyped ==
    ASSUME PrintCall
    PROVE  /\ num \in Nat /\ (\A i \in DOMAIN s : s[i] \in Unset .. 255)
           /\ length \in Nat /\ start \in Nat /\ pos \in Int /\ end \in Int
           /\ pos \in (IF call.room = 1 /\ pc = "return" THEN {-1} ELSE 0 .. call.room - 1)
           /\ DigitsKept
<1>1. AtPrint /\ call.room \in Nat /\ call.room > 0 /\ call.l \in Nat /\ stringSize(call.l) \in Nat
  BY PrintFacts DEF PrintCall
<1>2. CASE pc = "call"
  BY <1>1, <1>2, IdleTyped DEF AtPrint, DigitsKept
<1>3. CASE pc = "snprintUInt64"
  <2>1. /\ pos = 0 /\ length \in 0 .. stringSize(call.l) /\ num = FirstDigits(call.l, length)
        /\ Buffer(call.room) /\ start = 0 /\ end = 0
    BY <1>1, <1>3 DEF AtPrint
  <2>2. num \in Nat
    <3>1. CASE length = 0
      BY <2>1, <3>1 DEF FirstDigits
    <3>2. CASE length # 0
      <4>1. length \in 1 .. stringSize(call.l)
        BY <1>1, <2>1, <3>2
      <4>2. Sized(FirstDigits(call.l, length), length)
        BY <4>1, FirstDigitsAre, PrintFacts
      <4> QED BY <2>1, <4>2 DEF Sized
    <3> QED BY <3>1, <3>2
  <2> QED BY <1>1, <1>3, <2>1, <2>2, BufferTyped DEF DigitsKept
<1>4. CASE pc \in {"wide", "narrow", "single"}
  <2>1. Printing /\ Buffer(call.room) /\ start = 0 /\ end = 0
    BY <1>1, <1>4 DEF AtPrint
  <2>2. num \in Nat /\ length \in Nat /\ length < call.room /\ pos \in 0 .. length
    BY <1>1, <2>1 DEF Printing, LengthKept, Sized
  <2>3. DigitsKept
    BY <2>1 DEF Printing, DigitsKept
  <2> QED BY <1>1, <1>4, <2>1, <2>2, <2>3, BufferTyped
<1>5. CASE pc = "return"
  <2>1. Printed10 /\ Buffer(call.room) /\ start = 0 /\ end = 0
    BY <1>1, <1>5 DEF AtPrint
  <2>2. num = 0 /\ length \in Nat /\ pos = (IF call.room = 1 THEN -1 ELSE 0)
    BY <1>1, <2>1 DEF Printed10, LengthKept
  <2> QED BY <1>1, <1>5, <2>1, <2>2, BufferTyped DEF DigitsKept
<1> QED BY <1>1, <1>2, <1>3, <1>4, <1>5 DEF AtPrint

LEMMA ItoaTyped ==
    ASSUME ItoaCall
    PROVE  /\ num \in Int /\ (\A i \in DOMAIN s : s[i] \in Unset .. 255)
           /\ length \in Nat /\ start \in Nat /\ pos \in Int /\ end \in Int
           /\ pos < call.room - 1
<1>1. AtItoa /\ call.room = 34 /\ call.l \in Int /\ isNegative \in BOOLEAN
  BY ItoaFacts DEF ItoaCall
<1>2. CASE pc = "call"
  BY <1>1, <1>2, IdleTyped DEF AtItoa
<1>3. CASE pc # "call"
  <2>1. \A i \in DOMAIN s : s[i] \in Unset .. 255
    BY <1>1, <1>3, BufferTyped DEF AtItoa
  <2>2. CASE pc = "itoa"
    BY <1>1, <2>1, <2>2 DEF AtItoa
  <2>3. CASE pc = "digits"
    BY <1>1, <2>1, <2>3 DEF AtItoa, AtDigits
  <2>4. CASE pc = "reverse"
    BY <1>1, <2>1, <2>4 DEF AtItoa, AtReverse
  <2>5. CASE pc = "return"
    BY <1>1, <2>1, <2>5 DEF AtItoa, AfterItoa
  <2> QED BY <1>1, <1>3, <2>2, <2>3, <2>4, <2>5 DEF AtItoa
<1> QED BY <1>2, <1>3

LEMMA HexTyped ==
    ASSUME HexCall
    PROVE  /\ num \in Nat /\ (\A i \in DOMAIN s : s[i] \in Unset .. 255)
           /\ length \in Nat /\ start \in Nat /\ pos \in Int /\ end \in Int
<1>1. AtHex /\ call.room \in Nat
  BY HexFacts DEF HexCall
<1>2. CASE pc = "call"
  BY <1>1, <1>2, IdleTyped DEF AtHex
<1>3. CASE pc # "call"
  BY <1>1, <1>3, BufferTyped DEF AtHex
<1> QED BY <1>2, <1>3

LEMMA JoinTyped ==
    ASSUME JoinCall
    PROVE  /\ num \in Nat /\ (\A i \in DOMAIN s : s[i] \in Unset .. 255)
           /\ length \in Nat /\ start \in Nat /\ pos \in Int /\ end \in Int
           /\ pc # "call" => pos <= length
<1> DEFINE n == Len(call.array)
           l(k) == Len(Items(k))
<1>1. AtJoin /\ n \in Nat /\ (\A k \in 0 .. n : l(k) \in Nat) /\ (\A k \in 0 .. n : l(k) <= l(n))
  BY JoinFacts, ItemsRise DEF JoinCall
<1>2. CASE pc = "call"
  BY <1>1, <1>2, IdleTyped DEF AtJoin
<1>3. CASE pc = "strjoin"
  <2>1. Buffer(0) /\ num \in 0 .. n /\ start = 0 /\ end = 0 /\ pos = 0 /\ length = l(num)
    BY <1>1, <1>3 DEF AtJoin
  <2> HIDE DEF l, n
  <2> QED BY <1>1, <2>1, BufferTyped
<1>4. CASE pc \in {"join", "return"}
  <2>1. /\ Buffer(length + 1) /\ num \in 0 .. n /\ start = 0 /\ end = 0
        /\ pos = l(num) /\ length = l(n)
    BY <1>1, <1>4 DEF AtJoin
  <2> HIDE DEF l, n
  <2>2. n \in 0 .. n
    BY <1>1
  <2>3. length \in Nat /\ pos \in Nat /\ pos <= length /\ num \in Nat /\ length + 1 \in Int
    BY <1>1, <2>1, <2>2
  <2> QED BY <2>1, <2>3, BufferTyped
<1> QED BY <1>1, <1>2, <1>3, <1>4 DEF AtJoin

LEMMA EncodeTyped ==
    ASSUME EncodeCall
    PROVE  /\ num \in Nat /\ (\A i \in DOMAIN s : s[i] \in Unset .. 255)
           /\ length \in Nat /\ start \in Nat /\ pos \in Int /\ end \in Int
           /\ pos < call.room
<1>1. AtEncode /\ call.room \in Nat /\ Len(call.data) \in Nat /\ 3 * call.room > Len(call.data) * 4 + 9
  BY EncodeFacts DEF EncodeCall
<1>2. CASE pc = "call"
  <2>1. call.room > 0
    <3> DEFINE d == Len(call.data)
               r0 == call.room
    <3>1. d \in Nat /\ r0 \in Nat /\ 3 * r0 > d * 4 + 9
      BY <1>1
    <3> HIDE DEF d, r0
    <3>2. r0 > 0
      BY <3>1
    <3> QED BY <3>2 DEF r0
  <2> QED BY <1>1, <1>2, <2>1, IdleTyped DEF AtEncode
<1>3. CASE pc # "call"
  <2>1. /\ Buffer(call.room) /\ start = 0 /\ end = 0 /\ num \in Nat /\ num = 3 * Groups /\ pos = 4 * Groups
        /\ (num = 0 \/ num - 3 < Len(call.data))
        /\ (length = 0 \/ length = pos)
    BY <1>1, <1>3 DEF AtEncode
  <2>2. Groups \in Nat
    BY <2>1 DEF Groups
  <2>3. Groups = 0 \/ 3 * Groups - 3 < Len(call.data)
    BY <2>1, <2>2
  <2>4. 4 * Groups < call.room
    BY <2>2, <2>3, GroupsFit
  <2> QED BY <1>1, <2>1, <2>2, <2>4, BufferTyped
<1> QED BY <1>2, <1>3

LEMMA TextTyped ==
    ASSUME TextInv, WhereInv, [Next]_vars
    PROVE  TextTypeOK /\ TextInBounds /\ DigitsKept
<1>0. call' = call
  BY CallStays
<1>1. CASE call.f \notin TextFunctions
  <2>1. TextIdle
    BY <1>1 DEF TextInv
  <2>2. pc \notin TextPlaces
    BY <1>1 DEF WhereInv, PlaceKnown
  <2> QED BY <1>1, <2>1, <2>2, IdleTyped DEF TextTypeOK, TextInBounds, DigitsKept, TextFunctions, TextPlaces
<1>2. CASE call.f \in TextFunctions
  <2>1. CASE call.f = "snprintUInt64"
    <3>1. PrintCall
      BY <1>0, <2>1 DEF TextInv, PrintCall
    <3> QED BY <2>1, <3>1, PrintTyped DEF TextTypeOK, TextInBounds
  <2>2. CASE call.f = "itoa"
    <3>1. ItoaCall
      BY <1>0, <2>2 DEF TextInv, ItoaCall
    <3>2. pc \notin {"wide", "narrow", "single"}
      BY <3>1 DEF ItoaCall, AtItoa
    <3> QED BY <2>2, <3>1, <3>2, ItoaTyped DEF TextTypeOK, TextInBounds, DigitsKept
  <2>3. CASE call.f = "parseHex"
    <3>1. HexCall
      BY <1>0, <2>3 DEF TextInv, HexCall
    <3>2. pc \notin {"wide", "narrow", "single"}
      BY <3>1 DEF HexCall, AtHex
    <3> QED BY <2>3, <3>1, <3>2, HexTyped DEF TextTypeOK, TextInBounds, DigitsKept
  <2>4. CASE call.f = "strjoin"
    <3>1. JoinCall
      BY <1>0, <2>4 DEF TextInv, JoinCall
    <3>2. pc \notin {"wide", "narrow", "single"}
      BY <3>1 DEF JoinCall, AtJoin
    <3> QED BY <2>4, <3>1, <3>2, JoinTyped DEF TextTypeOK, TextInBounds, DigitsKept
  <2>5. CASE call.f = "base64encode"
    <3>1. EncodeCall
      BY <1>0, <2>5 DEF TextInv, EncodeCall
    <3>2. pc \notin {"wide", "narrow", "single"}
      BY <3>1 DEF EncodeCall, AtEncode
    <3> QED BY <2>5, <3>1, <3>2, EncodeTyped DEF TextTypeOK, TextInBounds, DigitsKept
  <2> QED BY <1>2, <2>1, <2>2, <2>3, <2>4, <2>5 DEF TextFunctions
<1> QED BY <1>1, <1>2

LEMMA TextTold ==
    ASSUME TextInv, WhereInv, [Next]_vars
    PROVE  TextReadsBack
<1>0. call' = call
  BY CallStays
<1> SUFFICES ASSUME pc = "return", call.f \in TextFunctions PROVE TextReadsBack
  BY DEF TextReadsBack
<1>1. CASE call.f = "snprintUInt64"
  <2>1. PrintCall
    BY <1>0, <1>1 DEF TextInv, PrintCall
  <2>2. Printed10
    BY <2>1 DEF PrintCall, AtPrint
  <2> QED BY <1>1, <2>2 DEF TextReadsBack, Printed10, LengthKept
<1>2. CASE call.f = "itoa"
  <2>1. ItoaCall
    BY <1>0, <1>2 DEF TextInv, ItoaCall
  <2>2. AfterItoa
    BY <2>1 DEF ItoaCall, AtItoa
  <2>3. ASSUME isNegative \/ call.l >= 0
        PROVE  LET first == IF isNegative THEN 1 ELSE 0
               IN  /\ isNegative => s[0] = Minus
                   /\ AreDigits(call.radix, first, length)
                   /\ NumberAt(call.radix, first, length) = IF isNegative THEN -call.l ELSE call.l
    <3>1. sign = 1
      <4>1. call.l \in Int
        BY <2>1, ItoaFacts
      <4> QED BY <2>3, <4>1 DEF sign
    <3> DEFINE first == IF isNegative THEN 1 ELSE 0
    <3>2. \A n \in first .. length - 1 : s[n] \in Int /\ sign * s[n] \in 0 .. call.radix - 1
      BY <2>2 DEF AfterItoa
    <3>3. \A n \in first .. length - 1 : s[n] \in 0 .. call.radix - 1
      BY <3>1, <3>2
    <3> QED BY <2>2, <3>3 DEF AfterItoa, AreDigits, value
  <2>4. s[length] = Nul
    BY <2>2 DEF AfterItoa
  <2> QED BY <1>2, <2>3, <2>4 DEF TextReadsBack
<1>3. CASE call.f = "parseHex"
  <2>1. HexCall
    BY <1>0, <1>3 DEF TextInv, HexCall
  <2> QED BY <1>3, <2>1, HexTold DEF TextReadsBack
<1>4. CASE call.f = "strjoin"
  <2>1. JoinCall
    BY <1>0, <1>4 DEF TextInv, JoinCall
  <2> QED BY <1>4, <2>1, JoinTold DEF TextReadsBack
<1>5. CASE call.f = "base64encode"
  <2>1. EncodeCall
    BY <1>0, <1>5 DEF TextInv, EncodeCall
  <2> QED BY <1>5, <2>1, EncodeTold DEF TextReadsBack
<1> QED BY <1>1, <1>2, <1>3, <1>4, <1>5 DEF TextFunctions

LEMMA TextAlways == Spec => []TextInv
<1>1. Init => TextInv
  BY TextInit
<1>2. TextInv /\ WhereInv /\ TwisterInv /\ [Next]_vars => TextInv'
  BY TextNextKeeps
<1> QED BY <1>1, <1>2, TwisterCorrect, Where, PTL DEF Spec

\* Whatever the number and however small the buffer, the list or the data, what a
\* text function has written when it is done ends where it says and reads back to
\* what it was given.
THEOREM TextsCorrect == Spec => []TextReadsBack
<1>1. TextInv /\ WhereInv /\ [Next]_vars => TextReadsBack
  BY TextTold
<1> QED BY <1>1, TextAlways, Where, PTL DEF Spec

-----------------------------------------------------------------------------
(* The types of the variables of all the other functions *)

\* The bits that two words share are a number.
LEMMA AndIsNat ==
    ASSUME NEW n \in Nat, PowersTo(2, n), NEW a \in Nat, NEW b \in Nat
    PROVE  And(a, b, n) \in Nat
<1>0. \A k \in 0 .. n : 2^k \in Nat /\ 2^k > 0
  BY PowersPositive
<1>1. PICK v : /\ v[0] = 0
               /\ \A k \in 1 .. n : v[k] = v[k - 1] + (Bit(a, k - 1) * Bit(b, k - 1)) * 2^(k - 1)
               /\ v[n] = And(a, b, n)
  BY AndPrefix
<1> DEFINE T == {k \in 0 .. n : v[k] \in Nat}
<1>2. 0 \in T
  BY <1>1
<1>3. ASSUME NEW k \in 0 .. n - 1, k \in T PROVE k + 1 \in T
  <2> DEFINE p == 2^k
             x == Bit(a, k)
             y == Bit(b, k)
  <2>1. v[k + 1] = v[k] + (x * y) * p
    <3>1. k + 1 \in 1 .. n /\ (k + 1) - 1 = k
      OBVIOUS
    <3> QED BY <1>1, <3>1
  <2>2. p \in Nat /\ x \in Nat /\ y \in Nat /\ v[k] \in Nat
    <3>1. k \in Nat /\ 2^k \in Nat /\ 2^k > 0
      BY <1>0
    <3> QED BY <1>3, <3>1, XorBits
  <2> HIDE DEF p, x, y
  <2>3. x * y \in Nat /\ (x * y) * p \in Nat
    BY <2>2
  <2>4. v[k + 1] \in Nat
    BY <2>1, <2>2, <2>3
  <2> QED BY <2>4
<1>4. n \in T
  <2>1. 0 \in Int /\ n \in Int /\ 0 \in T /\ (\A k \in 0 .. n - 1 : k \in T => k + 1 \in T) /\ n \in 0 .. n
    BY <1>2, <1>3
  <2> HIDE DEF T
  <2>2. 0 .. n \subseteq T
    BY <2>1, IntervalInduction
  <2> QED BY <2>1, <2>2
<1> QED BY <1>1, <1>4

\* What is given is a word.
LEMMA TemperedWord == \A w \in WordOf(WordBits) : Temper(w) \in WordOf(WordBits)
<1> SUFFICES ASSUME NEW w \in WordOf(WordBits) PROVE Temper(w) \in WordOf(WordBits)
  OBVIOUS
<1> DEFINE W == WordOf(WordBits)
           step(n, x) ==
             LET sm == ShiftsMasks[n]
                 y == IF n \in 2 .. 3 THEN ShiftLeft(x, sm[1], WordBits) ELSE ShiftRight(x, sm[1])
             IN  Xor(x, And(y, sm[2], WordBits), WordBits)
           F == [n \in 0 + 1 .. 4 |-> [x \in W |-> step(n, x)]]
           IsTemper(f) == f = [n \in 0 .. 4 |-> IF n = 0 THEN w ELSE step(n, f[n - 1])]
           z == CHOOSE f : IsTemper(f)
<1>1. ASSUME NEW n \in 0 + 1 .. 4, NEW x \in W PROVE step(n, x) \in W
  <2> DEFINE k == ShiftsMasks[n][1]
             m == ShiftsMasks[n][2]
             y == IF n \in 2 .. 3 THEN ShiftLeft(x, k, WordBits) ELSE ShiftRight(x, k)
             c == And(y, m, WordBits)
  <2>1. k \in 0 .. WordBits /\ m \in Nat /\ x \in Nat
    BY TemperAssumption, WordPowers
  <2> HIDE DEF k, m
  <2>2. ShiftRight(x, k) \in Nat
    BY <2>1, ShiftsNat
  <2>3. ShiftLeft(x, k, WordBits) \in Nat
    <3>1. 2^k \in Nat
      BY <2>1, WordPowers
    <3>2. x * 2^k \in Int
      BY <2>1, <3>1
    <3> QED BY <3>2, CutNat, WordPowers DEF ShiftLeft
  <2>4. y \in Nat
    BY <2>2, <2>3
  <2> HIDE DEF y
  <2>5. c \in Nat
    BY <2>1, <2>4, WordPowers, AndIsNat
  <2> HIDE DEF c
  <2>6. Xor(x, c, WordBits) \in W
    BY <2>1, <2>5, XorWord
  <2> QED BY <2>6 DEF c, y, k, m
<1>2. F \in [0 + 1 .. 4 -> [W -> W]]
  <2> HIDE DEF step, W
  <2> QED BY <1>1
<1>3. PICK f : Recurs(f, W, w, F, 0, 4)
  <2> HIDE DEF F, W
  <2>1. 0 \in Int /\ 4 \in Int
    OBVIOUS
  <2>2. w \in W
    BY DEF W
  <2> QED BY <1>2, <2>1, <2>2, RecursionDefines, Zenon
<1>4. IsTemper(f)
  <2> HIDE DEF F, step, W
  <2>1. f \in [0 .. 4 -> W] /\ f = [k \in 0 .. 4 |-> IF k = 0 THEN w ELSE F[k][f[k - 1]]]
    BY <1>3 DEF Recurs
  <2>2. ASSUME NEW k \in 0 .. 4, k # 0 PROVE F[k][f[k - 1]] = step(k, f[k - 1])
    <3>1. k \in 0 + 1 .. 4 /\ k - 1 \in 0 .. 4
      BY <2>2
    <3>2. f[k - 1] \in W
      BY <2>1, <3>1
    <3> QED BY <3>1, <3>2 DEF F
  <2> QED BY <2>1, <2>2
<1>5. IsTemper(z)
  <2> HIDE DEF IsTemper
  <2> QED BY <1>4
<1>6. Temper(w) = z[4]
  BY Zenon DEF Temper
<1> HIDE DEF z
<1> DEFINE T == {n \in 0 .. 4 : z[n] \in W}
<1>7. ASSUME NEW n \in 0 .. 3, n \in T PROVE n + 1 \in T
  <2>1. n + 1 \in 0 + 1 .. 4 /\ n + 1 \in 0 .. 4 /\ n + 1 # 0 /\ (n + 1) - 1 = n /\ z[n] \in W
    BY <1>7
  <2> HIDE DEF step, W
  <2>2. z[n + 1] = step(n + 1, z[n])
    BY <1>5, <2>1
  <2> QED BY <1>1, <2>1, <2>2
<1>8. 0 \in T
  <2> HIDE DEF step
  <2> QED BY <1>5
<1> HIDE DEF T
<1>9. 0 .. 4 \subseteq T
  BY <1>7, <1>8, IntervalInduction
<1> QED BY <1>6, <1>9 DEF T

\* The counters are numbers, and so are the zeros that are counted.
LEMMA ZeroTypeKeeps ==
    ASSUME ZeroTypeOK, WhereInv, TwisterInv, [Next]_vars
    PROVE  ZeroTypeOK'
<1>1. CASE UNCHANGED zeroVars
  BY <1>1 DEF ZeroTypeOK, zeroVars
<1>2. CASE ZeroNext /\ ~CountBits
  <2>1. lnlz \in Nat /\ nlz \in Nat /\ LongSize \in Nat
    BY HalvesAssumption DEF ZeroTypeOK
  <2>2. lnlz * LongSize \in Nat
    BY <2>1
  <2> QED BY <1>2, <2>1, <2>2 DEF ZeroNext, SkipLong, LongsSkipped, SkipByte, BytesSkipped, ZeroTypeOK, zeroVars
<1>3. CASE CountBits
  <2>1. call.f \in {"numberOfLeadingZeros", "numberOfTrailingZeros"}
    BY <1>3 DEF CountBits, Called
  <2>2. call.i \in WordOf(IntSize)
    <3>1. call \in ZeroCalls
      BY <2>1 DEF WhereInv, CallKnown, ZeroFunctions
    <3>2. call.i \in CountedWords
      BY <2>1, <3>1 DEF ZeroCalls
    <3> QED BY <3>2, CountedAssumption
  <2>3. FrontZeros(FromHighest(call.i)) \in Nat /\ FrontZeros(FromLowest(call.i)) \in Nat
    <3>1. Len(FromHighest(call.i)) \in Nat /\ Len(FromLowest(call.i)) \in Nat
      BY SizeFacts DEF FromHighest, FromLowest
    <3> QED BY <3>1, FrontTold
  <2>4. numberOfLeadingZeros(call.i) \in Nat /\ numberOfTrailingZeros(call.i) \in Nat
    BY <2>2, <2>3, LeadingTells, TrailingTells
  <2>5. lnlz' = lnlz /\ nlz' \in Nat
    BY <1>3, <2>4 DEF CountBits
  <2> QED BY <2>5 DEF ZeroTypeOK
<1> QED BY <1>1, <1>2, <1>3, OnlyZero

\* What is allocated are the blocks of as many copies as are counted.
LEMMA ArrayTypeKeeps ==
    ASSUME ArrayTypeOK, WhereInv, TwisterInv, [Next]_vars
    PROVE  ArrayTypeOK'
<1>1. CASE UNCHANGED arrayVars
  BY <1>1 DEF ArrayTypeOK, arrayVars, Copies
<1>2. CASE ArrayNext
  <2>1. /\ count \in Nat /\ slots \in Nat /\ capacity \in Nat
        /\ Initial \in Nat /\ Growth \in Nat
    BY TokenCountsAssumption DEF ArrayTypeOK
  <2>2. capacity + Growth \in Nat /\ count + 1 \in Nat /\ (count > 1 => count - 1 \in Nat)
    BY <2>1
  <2>3. slots' \in Nat /\ count' \in Nat /\ capacity' \in Nat
    BY <1>2, <2>1, <2>2
       DEF ArrayNext, BeginSplit, BeginFails, GrowFails, CopyToken, TrimArray, TrimToNothing, FreeAgain, Deliver, DeliverFails, MustGrow
  <2>4. count' = count \/ (count' = count + 1 /\ blocks' = blocks \cup {Copy(count)})
    BY <1>2
       DEF ArrayNext, BeginSplit, BeginFails, GrowFails, CopyToken, TrimArray, TrimToNothing, FreeAgain, Deliver, DeliverFails
  <2>5. badFree' \in BOOLEAN /\ badWrite' \in BOOLEAN
    BY <1>2
       DEF ArrayNext, BeginSplit, BeginFails, GrowFails, CopyToken, TrimArray, TrimToNothing, FreeAgain, Deliver, DeliverFails,
           FailWith, Free, ArrayTypeOK
  <2>6. failed' \in {"none", "work", "array", "growth", "copy", "trim", "nothing left", "data"}
    BY <1>2
       DEF ArrayNext, BeginSplit, BeginFails, GrowFails, CopyToken, TrimArray, TrimToNothing, FreeAgain, Deliver, DeliverFails,
           FailWith, ArrayTypeOK
  <2>7. blocks' \subseteq {Work, Array, Datum} \cup Copies(count')
    <3>1. CASE count' = count
      <4>2. blocks' \subseteq blocks \cup {Work, Array, Datum}
        <5>1. CASE CopyToken
          <6>1. FailWith("copy", Everything)
            BY <2>1, <3>1, <5>1 DEF CopyToken
          <6> QED BY <6>1 DEF FailWith, Free
        <5>2. CASE BeginSplit \/ BeginFails \/ GrowFails
          BY <5>2 DEF BeginSplit, BeginFails, GrowFails, FailWith, Free
        <5>3. CASE TrimArray
          BY <5>3 DEF TrimArray, FailWith, Free
        <5>4. CASE TrimToNothing \/ FreeAgain
          BY <5>4 DEF TrimToNothing, FreeAgain
        <5>5. CASE Deliver \/ DeliverFails
          BY <5>5 DEF Deliver, DeliverFails, Free
        <5> QED BY <1>2, <5>1, <5>2, <5>3, <5>4, <5>5 DEF ArrayNext
      <4> QED BY <3>1, <4>2 DEF ArrayTypeOK
    <3>2. CASE count' = count + 1 /\ blocks' = blocks \cup {Copy(count)}
      BY <2>1, <3>2, Blocks DEF ArrayTypeOK
    <3> QED BY <2>4, <3>1, <3>2
  <2> QED BY <2>3, <2>5, <2>6, <2>7 DEF ArrayTypeOK
<1> QED BY <1>1, <1>2, OnlySplit

\* Words as signed numbers, and what is made of two of them.
LEMMA ResultsAreInts ==
    ASSUME NEW h \in WordOf(IntBits), NEW l \in WordOf(IntBits)
    PROVE  /\ Signed(h, IntBits) \in Int /\ next(h, FloatBits) \in Int
           /\ Joined(h, l) \in Int
           /\ next(h, HighBits) * 2^LowBits + next(l, LowBits) \in Int
<1> DEFINE I == 2^IntBits
           W == 2^(2 * IntBits)
           V == 2^(2 * IntBits - 1)
<1>1. I \in Nat /\ I > 0 /\ W \in Nat /\ W > 0 /\ V \in Nat
  <2>1. IntBits \in 0 .. 2 * SeedBits /\ 2 * IntBits \in 0 .. 2 * SeedBits /\ 2 * IntBits - 1 \in 0 .. 2 * SeedBits
    BY BitsAssumption
  <2> QED BY <2>1, RandomPowers
<1>2. ASSUME NEW x \in WordOf(IntBits) PROVE Signed(x, IntBits) \in Int
  <2>1. x \in Int /\ 2^(IntBits - 1) \in Int /\ 2^IntBits \in Int
    BY RandomPowers, <1>1 DEF WordOf
  <2> QED BY <2>1 DEF Signed
<1>3. ASSUME NEW x \in WordOf(IntBits), NEW k \in 0 .. IntBits PROVE next(x, k) \in Int
  <2>1. next(x, k) \in WordOf(k)
    BY NextWordOf
  <2>2. k \in 0 .. 2 * SeedBits
    BY BitsAssumption
  <2> QED BY <2>1, <2>2, RandomPowers DEF WordOf
<1>4. Joined(h, l) \in Int
  <2> DEFINE y == Signed(h, IntBits)
             z == Signed(l, IntBits)
             t == y * I + z
             c == t % W
  <2>1. Joined(h, l) = IF c < V THEN c ELSE c - W
    BY DEF Joined, Signed
  <2>2. y \in Int /\ z \in Int
    BY <1>2
  <2> HIDE DEF y, z, I, V, W
  <2>3. t \in Int
    BY <1>1, <2>2
  <2> HIDE DEF t
  <2>4. c \in Int
    BY <1>1, <2>3
  <2> HIDE DEF c
  <2> QED BY <1>1, <2>1, <2>4
<1>5. next(h, HighBits) * 2^LowBits + next(l, LowBits) \in Int
  <2> DEFINE y == next(h, HighBits)
             z == next(l, LowBits)
             p == 2^LowBits
  <2>1. y \in Int /\ z \in Int
    BY <1>3, BitsAssumption
  <2>2. p \in Int
    BY RandomPowers, BitsAssumption
  <2> HIDE DEF y, z, p
  <2>3. y * p + z \in Int
    BY <2>1, <2>2
  <2> QED BY <2>3 DEF y, z, p
<1> QED BY <1>2, <1>3, <1>4, <1>5, BitsAssumption

\* A draw is only looked at again for a bound that is not refused.
RandomTyped == RandomTypeOK /\ (pc = "reject" => boundAsked > 0)

LEMMA RandomTypeKeeps ==
    ASSUME RandomTyped, DrawsInv, DrawsInv', WhereInv, TwisterInv, [Next]_vars
    PROVE  RandomTyped'
<1>0. RandomTypeOK /\ (pc = "reject" => boundAsked > 0)
  BY DEF RandomTyped
<1>1. CASE UNCHANGED randomVars /\ (call.f \notin RandomFunctions \/ UNCHANGED <<call, pc>>)
  <2>1. RandomTypeOK'
    BY <1>0, <1>1 DEF RandomTypeOK, randomVars
  <2>2. CASE call.f \notin RandomFunctions
    <3>1. pc' # "reject"
      BY <2>2, WhereKeeps, CallStays DEF WhereInv, PlaceKnown, RandomPlaces
    <3> QED BY <2>1, <3>1 DEF RandomTyped
  <2>3. CASE UNCHANGED <<call, pc>>
    BY <1>0, <2>1, <2>3 DEF RandomTyped, boundAsked
  <2> QED BY <1>1, <2>2, <2>3
<1>2. CASE RandomNext
  <2>0. call' = call
    BY CallStays
  <2>1. call.f \in RandomFunctions /\ pc' # "call"
    BY <1>2, RandomCall DEF RandomPlaces
  <2>2. StateWord(seed') /\ (Draws0' \/ Draws1' \/ Draws2')
    BY <2>0, <2>1 DEF DrawsInv
  <2>3. draws' \in Seq(WordOf(IntBits)) /\ Len(draws') <= 2
    <3> DEFINE W == WordOf(IntBits)
    <3>1. Draw(seed') \in W
      BY <2>2, DrawWordOf
    <3>2. CASE draws' = <<>>
      BY <3>2
    <3>3. CASE draws' = <<Draw(seed')>>
      <4> DEFINE x == Draw(seed')
      <4>1. x \in W
        BY <3>1
      <4> HIDE DEF W, x
      <4>2. <<x>> \in Seq(W) /\ Len(<<x>>) = 1
        BY <4>1
      <4> QED BY <3>3, <4>2 DEF x, W
    <3>4. CASE draws' = <<Draw(lcgInverse(seed')), Draw(seed')>> /\ StateWord(lcgInverse(seed'))
      <4>1. Draw(lcgInverse(seed')) \in W
        BY <3>4, DrawWordOf
      <4> DEFINE x == Draw(lcgInverse(seed'))
                 y == Draw(seed')
      <4>2. x \in W /\ y \in W
        BY <3>1, <4>1
      <4> HIDE DEF W, x, y
      <4>3. <<x, y>> \in Seq(W) /\ Len(<<x, y>>) = 2
        BY <4>2
      <4> QED BY <3>4, <4>3 DEF x, y, W
    <3>5. (Draws0' => draws' = <<>>) /\ (Draws1' => draws' = <<Draw(seed')>>)
          /\ (Draws2' => draws' = <<Draw(lcgInverse(seed')), Draw(seed')>> /\ StateWord(lcgInverse(seed')))
      BY DEF Draws0, Draws1, Draws2
    <3> QED BY <2>2, <3>2, <3>3, <3>4, <3>5
  <2>4. u' \in WordOf(IntBits - 1)
    <3>1. IntBits - 1 \in 0 .. IntBits
      BY BitsAssumption
    <3>2. next(Draw(seed'), IntBits - 1) \in WordOf(IntBits - 1)
      BY <2>2, <3>1, DrawWordOf, NextWordOf
    <3>3. u' = u \/ u' = next(Draw(seed'), IntBits - 1)
      BY <1>2 DEF RandomNext, Enter, RefuseBound, DrawFirst, DrawAgain, Accept, Result, Next1, Next2
    <3> QED BY <1>0, <3>2, <3>3 DEF RandomTypeOK
  <2>5. r' \in Int
    <3>1. u \in Nat /\ u' \in Nat
      BY <1>0, <2>4, RandomPowers DEF RandomTypeOK, WordOf
    <3>2. ASSUME pc \in {"bounds", "reject"} PROVE boundAsked \in Int
      <4>1. call.f \in {"nextIntWithBounds", "isSlimeChunk"}
        BY <2>1, <3>2 DEF DrawsInv, RandomFunctions
      <4>2. CASE call.f = "nextIntWithBounds"
        <5>1. call \in RandomCalls
          BY <2>1 DEF WhereInv, CallKnown
        <5>2. call.bound \in Bounds
          BY <4>2, <5>1 DEF RandomCalls, NextCalls
        <5> QED BY <4>2, <5>2, ArgumentsAssumption DEF boundAsked
      <4>3. CASE call.f = "isSlimeChunk"
        BY <4>3, ArgumentsAssumption DEF boundAsked
      <4> QED BY <4>1, <4>2, <4>3
    <3>3. CASE Enter \/ RefuseBound \/ Result
      BY <1>0, <3>3 DEF Enter, RefuseBound, Result, RandomTypeOK
    <3>4. CASE DrawFirst
      <4>1. boundAsked \in Int /\ boundAsked > 0
        BY <3>2, <3>4 DEF DrawFirst
      <4>2. boundAsked * u' \in Int
        BY <3>1, <4>1
      <4> DEFINE p == 2^(IntBits - 1)
                 x == boundAsked * u'
      <4>3. p \in Nat /\ p > 0
        BY RandomPowers
      <4> HIDE DEF p, x
      <4>4. x \div p \in Int
        BY <4>2, <4>3 DEF x
      <4> QED BY <3>1, <3>4, <4>4 DEF DrawFirst, ShiftRight, p, x
    <3>5. CASE DrawAgain \/ Accept
      <4>1. boundAsked \in Int /\ boundAsked > 0
        BY <1>0, <3>2, <3>5 DEF DrawAgain, Accept
      <4> QED BY <3>1, <3>5, <4>1 DEF DrawAgain, Accept
    <3>6. CASE Next1
      <4>1. Draw(seed') \in WordOf(IntBits)
        BY <2>2, DrawWordOf
      <4>2. draws' = <<Draw(seed')>>
        BY <3>6 DEF Next1, DrawWord
      <4>3. draws'[1] = Draw(seed')
        BY <4>2
      <4>4. r' \in {r, Signed(draws'[1], IntBits), next(draws'[1], FloatBits)}
        BY <3>6 DEF Next1
      <4> QED BY <1>0, <4>1, <4>3, <4>4, ResultsAreInts DEF RandomTypeOK
    <3>7. CASE Next2
      <4>1. Len(draws') = 2
        <5>1. draws' = <<draws[Len(draws)]>> \o <<Draw(seed')>>
          BY <3>7, Zenon DEF Next2, DrawWord
        <5>2. draws' = <<draws[Len(draws)], Draw(seed')>>
          BY <5>1, OneAndOne
        <5> QED BY <5>2
      <4>2. draws'[1] \in WordOf(IntBits) /\ draws'[2] \in WordOf(IntBits)
        <5>1. \A i \in 1 .. 2 : draws'[i] \in WordOf(IntBits)
          BY <2>3, <4>1
        <5> QED BY <5>1
      <4>3. r' \in {Joined(draws'[1], draws'[2]),
                    next(draws'[1], HighBits) * 2^LowBits + next(draws'[2], LowBits)}
        BY <3>7 DEF Next2
      <4> QED BY <4>2, <4>3, ResultsAreInts
    <3> QED BY <1>2, <3>3, <3>4, <3>5, <3>6, <3>7 DEF RandomNext
  <2>6. pc' = "reject" => boundAsked' > 0
    <3>1. boundAsked' = boundAsked
      BY <2>0 DEF boundAsked
    <3>2. CASE DrawFirst
      BY <3>1, <3>2 DEF DrawFirst
    <3>3. CASE DrawAgain
      BY <1>0, <3>1, <3>3 DEF DrawAgain
    <3>4. CASE RandomNext /\ ~DrawFirst /\ ~DrawAgain
      <4>1. pc' = "reject" => pc = "reject"
        BY <3>4 DEF RandomNext, Enter, RefuseBound, Accept, Result, Next1, Next2, Return
      <4> QED BY <1>0, <3>1, <4>1
    <3> QED BY <1>2, <3>2, <3>3, <3>4
  <2> QED BY <2>2, <2>3, <2>4, <2>5, <2>6 DEF RandomTyped, RandomTypeOK, StateWord
<1> QED BY <1>1, <1>2, OnlyRandom

\* The table and what is given out are words, and the loops stay within the table.
LEMMA TwisterTypeKeeps ==
    ASSUME TwisterTypeOK, AliveInv, TwisterInv, AliveInv', TwisterInv', WhereInv, [Next]_vars
    PROVE  TwisterTypeOK'
<1>1. CASE UNCHANGED twisterVars
  BY <1>1 DEF TwisterTypeOK, twisterVars
<1>2. CASE TwisterNext
  <2>1. mt' \in [0 .. NN - 1 -> WordOf(WordBits)] /\ previous' \in [0 .. NN - 1 -> WordOf(WordBits)]
    BY DEF TwisterInv, TablesOK, IsTable, AliveInv, AreWords, Index
  <2>2. mti' \in 0 .. NN + 1 /\ then' \in {"ready", "key", "refill"}
    BY DEF TwisterInv, PlacesOK
  <2>3. NN \in Nat /\ NN > 2 /\ row \in 0 .. NN - 1 /\ col \in Nat /\ left \in Nat /\ drawn \in Nat /\ seeded \in Nat
    BY TwisterAssumption DEF TwisterTypeOK
  <2>4. key' \in TwisterKeys \cup {<<>>}
    BY <1>2 DEF TwisterNext, Open, CallInit, InitWord, InitDone, CallInitByArray, MixKey, KeyMixed, MixAgain,
                InitByArrayDone, CallUnseeded, CallUsedUp, RefillWord, RefillLast, GiveFirst, GiveNext, Give,
                Leave, Mix, StartInit, twisterVars, TwisterTypeOK
  <2>5. Len(key) \in Nat
    BY KeysAssumption DEF TwisterTypeOK
  <2>6. row' \in 0 .. NN - 1
    <3>1. row' \in {row, 0, 1, row + 1} /\ (row' = row + 1 => row + 1 <= NN - 1)
      BY <1>2, <2>3
         DEF TwisterNext, Open, CallInit, InitWord, InitDone, CallInitByArray, MixKey, KeyMixed, MixAgain,
             InitByArrayDone, CallUnseeded, CallUsedUp, RefillWord, RefillLast, GiveFirst, GiveNext, Give,
             Leave, Mix, StartInit, twisterVars
    <3> QED BY <2>3, <3>1
  <2>7. col' \in Nat
    <3>1. col' \in {col, 0, col + 1}
      BY <1>2
         DEF TwisterNext, Open, CallInit, InitWord, InitDone, CallInitByArray, MixKey, KeyMixed, MixAgain,
             InitByArrayDone, CallUnseeded, CallUsedUp, RefillWord, RefillLast, GiveFirst, GiveNext, Give,
             Leave, StartInit, twisterVars
    <3> QED BY <2>3, <3>1
  <2>8. left' \in Nat
    <3>1. left' \in {left, Len(key), NN, NN - 1} \/ (left > 0 /\ left' = left - 1)
      BY <1>2
         DEF TwisterNext, Open, CallInit, InitWord, InitDone, CallInitByArray, MixKey, KeyMixed, MixAgain,
             InitByArrayDone, CallUnseeded, CallUsedUp, RefillWord, RefillLast, GiveFirst, GiveNext, Give,
             Leave, StartInit, twisterVars
    <3> QED BY <2>3, <2>5, <3>1
  <2>9. drawn' \in Nat /\ seeded' \in Nat
    <3>1. drawn' \in {drawn, drawn + 1} /\ seeded' \in {seeded, seeded + 1}
      BY <1>2
         DEF TwisterNext, Open, CallInit, InitWord, InitDone, CallInitByArray, MixKey, KeyMixed, MixAgain,
             InitByArrayDone, CallUnseeded, CallUsedUp, RefillWord, RefillLast, GiveFirst, GiveNext, Give,
             Leave, StartInit, twisterVars
    <3> QED BY <2>3, <3>1
  <2>10. given' \in WordOf(WordBits)
    <3>1. CASE GiveFirst \/ GiveNext
      <4>1. mti \in Index
        BY <2>3, <3>1 DEF GiveFirst, GiveNext, TwisterInv, PlacesOK, Index
      <4>2. mt[mti] \in WordOf(WordBits)
        BY <4>1 DEF AliveInv, AreWords
      <4>3. given' = Temper(mt[mti])
        BY <3>1 DEF GiveFirst, GiveNext, Give
      <4> QED BY <4>2, <4>3, TemperedWord
    <3>2. CASE ~(GiveFirst \/ GiveNext)
      <4>1. given' = given
        BY <1>2, <3>2
           DEF TwisterNext, Open, CallInit, InitWord, InitDone, CallInitByArray, MixKey, KeyMixed, MixAgain,
               InitByArrayDone, CallUnseeded, CallUsedUp, RefillWord, RefillLast, Leave, twisterVars
      <4> QED BY <4>1 DEF TwisterTypeOK
    <3> QED BY <3>1, <3>2
  <2> QED BY <2>1, <2>2, <2>4, <2>6, <2>7, <2>8, <2>9, <2>10 DEF TwisterTypeOK
<1>3. CASE Next /\ ~TwisterNext
  <2>1. UNCHANGED twisterVars
    BY <1>3, OthersIdle DEF TwisterStep
  <2> QED BY <1>1, <2>1
<1>4. CASE UNCHANGED vars
  <2>1. UNCHANGED twisterVars
    BY <1>4 DEF vars
  <2> QED BY <1>1, <2>1
<1> QED BY <1>2, <1>3, <1>4

\* A swap within the array leaves an array of the same elements.
LEMMA ShuffleTypeKeeps ==
    ASSUME ShuffleTypeOK, ShuffleInv, ShuffleInv', WhereInv, TwisterInv, [Next]_vars
    PROVE  ShuffleTypeOK'
<1>0. call' = call
  BY CallStays
<1>1. CASE UNCHANGED shuffleVars
  BY <1>0, <1>1 DEF ShuffleTypeOK, shuffleVars
<1>2. CASE ShuffleNext \/ Disturb
  <2>1. call.f = "shuffle"
    BY <1>2, ShuffleCall
  <2>2. rng' \in WordOf(ShiftBits) /\ loaded' \in WordOf(ShiftBits)
    <3>1. rng' \in WordOf(ShiftBits) \/ rng' \in {rng, xorshift(loaded)}
      BY <1>2 DEF ShuffleNext, StartShuffle, LoadSeed, SwapNext, DivideByZero, Shuffled, Disturb, shuffleVars
    <3>2. loaded' \in {loaded, rng}
      BY <1>2 DEF ShuffleNext, StartShuffle, LoadSeed, SwapNext, DivideByZero, Shuffled, Disturb, shuffleVars
    <3> QED BY <3>1, <3>2, XorshiftIsWord DEF ShuffleTypeOK
  <2>3. at' \in Nat
    BY <1>0, <2>1 DEF ShuffleInv
  <2>4. array' # <<>> => array' \in [0 .. call.size - 1 -> 0 .. call.size - 1]
    <3> DEFINE D0 == 0 .. call.size - 1
    <3>1. CASE StartShuffle
      BY <3>1 DEF StartShuffle
    <3>2. CASE SwapNext
      <4>1. pc = "loaded" /\ pc' = "swap" /\ at < call.size
            /\ LET j2 == Partner(rng', at, call.size)
               IN  array' = [array EXCEPT ![at] = array[j2], ![j2] = array[at]]
        BY <3>2 DEF SwapNext
      <4>2. Permutes /\ Permutes'
        BY <1>0, <2>1, <4>1 DEF ShuffleInv, ShufflePlaces
      <4>3. array' = [x \in DOMAIN array' |-> array'[x]]
        <5>1. PICK v, w, j2 : array' = [array EXCEPT ![at] = v, ![j2] = w]
          BY <4>1
        <5> QED BY <5>1
      <4>4. DOMAIN array' = D0 /\ {array'[i] : i \in DOMAIN array'} = DOMAIN array'
        BY <1>0, <4>2 DEF Permutes
      <4> HIDE DEF D0
      <4>5. \A i \in D0 : array'[i] \in D0
        BY <4>4
      <4>6. array' \in [D0 -> D0]
        BY <4>3, <4>4, <4>5
      <4> QED BY <4>6 DEF D0
    <3>3. CASE LoadSeed \/ DivideByZero \/ Shuffled \/ Disturb
      <4>1. array' = array
        BY <3>3 DEF LoadSeed, DivideByZero, Shuffled, Disturb, shuffleVars
      <4> QED BY <4>1 DEF ShuffleTypeOK
    <3> QED BY <1>2, <3>1, <3>2, <3>3 DEF ShuffleNext
  <2> QED BY <1>0, <2>2, <2>3, <2>4 DEF ShuffleTypeOK
<1> QED BY <1>1, <1>2, OnlyShuffle

\* Whose places they are.
Functions == {"list", "string_array_split", "genrand64_int64", "shuffle"}
                 \cup AddressFunctions \cup TextFunctions \cup ZeroFunctions \cup RandomFunctions

PlaceTypeOK ==
    /\ call.f \in Functions
    /\ pc \in PlacesOf(call.f) \cup {"call", "return", "crashed"}

LEMMA PlacesAre ==
    /\ PlacesOf("list") = ListPlaces
    /\ PlacesOf("string_array_split") = SplitPlaces
    /\ PlacesOf("genrand64_int64") = TwisterPlaces
    /\ PlacesOf("shuffle") = ShufflePlaces
    /\ \A f \in AddressFunctions : PlacesOf(f) = AddressPlaces
    /\ \A f \in TextFunctions : PlacesOf(f) = TextPlaces
    /\ \A f \in ZeroFunctions : PlacesOf(f) = ZeroPlaces
    /\ \A f \in RandomFunctions : PlacesOf(f) = RandomPlaces
<1> USE DEF PlacesOf, AddressFunctions, TextFunctions, ZeroFunctions, RandomFunctions, NextCalls
<1>1. PlacesOf("list") = ListPlaces /\ PlacesOf("string_array_split") = SplitPlaces
  OBVIOUS
<1>2. PlacesOf("genrand64_int64") = TwisterPlaces /\ PlacesOf("shuffle") = ShufflePlaces
  OBVIOUS
<1>3. \A f \in AddressFunctions : PlacesOf(f) = AddressPlaces
  OBVIOUS
<1>4. \A f \in TextFunctions : PlacesOf(f) = TextPlaces
  OBVIOUS
<1>5. \A f \in ZeroFunctions : PlacesOf(f) = ZeroPlaces
  OBVIOUS
<1>6. \A f \in RandomFunctions : PlacesOf(f) = RandomPlaces
  OBVIOUS
<1> QED BY <1>1, <1>2, <1>3, <1>4, <1>5, <1>6

LEMMA PlaceTypeInit == ASSUME Init PROVE PlaceTypeOK
<1>1. pc = "call"
  BY DEF Init
<1>2. call.f \in Functions
  <2>1. ASSUME call \in ListCalls PROVE call.f \in Functions
    BY <2>1 DEF ListCalls, Functions
  <2>2. ASSUME call \in AddressCalls PROVE call.f \in Functions
    BY <2>2 DEF AddressCalls, Functions, AddressFunctions, encodeAddress, encodeV4Address, encodeV3Address,
                encodeShorterV3Address, encodeWIF, base58encode, Address
  <2>3. ASSUME call \in TextCalls PROVE call.f \in Functions
    BY <2>3 DEF TextCalls, Functions, TextFunctions, snprintUInt64, itoa, base64encode, parseHex, strjoin
  <2>4. ASSUME call \in ZeroCalls PROVE call.f \in Functions
    BY <2>4 DEF ZeroCalls, Functions, ZeroFunctions
  <2>5. ASSUME call \in RandomCalls PROVE call.f \in Functions
    BY <2>5 DEF RandomCalls, Functions, RandomFunctions, NextCalls
  <2>6. ASSUME call \in ArrayCalls \cup TwisterCalls \cup ShuffleCalls PROVE call.f \in Functions
    BY <2>6 DEF ArrayCalls, TwisterCalls, ShuffleCalls, Functions
  <2> QED BY <2>1, <2>2, <2>3, <2>4, <2>5, <2>6 DEF Init
<1> QED BY <1>1, <1>2 DEF PlaceTypeOK

LEMMA PlaceTypeKeeps ==
    ASSUME PlaceTypeOK, WhereInv, TwisterInv, [Next]_vars
    PROVE  PlaceTypeOK'
<1>1. call' = call
  BY CallStays
<1>2. CASE pc' = pc
  BY <1>1, <1>2 DEF PlaceTypeOK
<1>3. CASE Next
  <2>1. pc' \in PlacesOf(call.f) \cup {"call", "return", "crashed"}
    <3>1. CASE ListNext
      BY <3>1, ListCall, PlacesAre
    <3>2. CASE AddressNext
      BY <3>2, AddressCall, PlacesAre
    <3>3. CASE TextNext
      BY <3>3, TextCall, PlacesAre
    <3>4. CASE ZeroNext
      BY <3>4, ZeroCall, PlacesAre
    <3>5. CASE ArrayNext
      BY <3>5, ArrayCall, PlacesAre
    <3>6. CASE RandomNext
      BY <3>6, RandomCall, PlacesAre
    <3>7. CASE TwisterNext
      BY <3>7, TwisterCall, PlacesAre
    <3>8. CASE ShuffleNext \/ Disturb
      BY <3>8, ShuffleCall, PlacesAre
    <3> QED BY <1>3, <3>1, <3>2, <3>3, <3>4, <3>5, <3>6, <3>7, <3>8
            DEF Next, OwnStep, OtherThread, ListStep, AddressStep, TextStep, ZeroStep, ArrayStep, RandomStep,
                TwisterStep, ShuffleStep
  <2> QED BY <1>1, <2>1 DEF PlaceTypeOK
<1> QED BY <1>2, <1>3 DEF vars

\* What the functions need that are not proved about elsewhere.
RestTyped == ZeroTypeOK /\ ArrayTypeOK /\ RandomTyped /\ TwisterTypeOK /\ ShuffleTypeOK /\ PlaceTypeOK

LEMMA RestInit == ASSUME Init PROVE RestTyped
<1>1. ZeroTypeOK /\ ArrayTypeOK
  BY DEF Init, Idle, ZeroIdle, ArrayIdle, ZeroTypeOK, ArrayTypeOK
<1>2. RandomTyped
  <2>1. /\ 0 \in WordOf(SeedBits) /\ 0 \in WordOf(IntBits - 1)
        /\ <<>> \in Seq(WordOf(IntBits)) /\ Len(<<>>) <= 2
    BY RandomPowers DEF WordOf
  <2> QED BY <2>1 DEF Init, Idle, RandomIdle, RandomTyped, RandomTypeOK
<1>3. TwisterTypeOK
  <2>1. NN \in Nat /\ NN > 0 /\ 0 \in WordOf(WordBits)
    BY TwisterAssumption, WordPowers
  <2>2. [n \in 0 .. NN - 1 |-> 0] \in [0 .. NN - 1 -> WordOf(WordBits)]
    BY <2>1
  <2>3. NN + 1 \in 0 .. NN + 1 /\ 0 \in 0 .. NN - 1
    BY <2>1
  <2> QED BY <2>1, <2>2, <2>3 DEF Init, Idle, TwisterIdle, TwisterTypeOK
<1>4. ShuffleTypeOK
  <2>1. 0 \in WordOf(ShiftBits)
    BY ArraySizesAssumption DEF WordOf
  <2> QED BY <2>1 DEF Init, Idle, ShuffleIdle, ShuffleTypeOK
<1> QED BY <1>1, <1>2, <1>3, <1>4, PlaceTypeInit DEF RestTyped

LEMMA RestKeeps ==
    ASSUME RestTyped, DrawsInv, DrawsInv', AliveInv, AliveInv', TwisterInv, TwisterInv',
           ShuffleInv, ShuffleInv', WhereInv, [Next]_vars
    PROVE  RestTyped'
<1>1. ZeroTypeOK' /\ ArrayTypeOK' /\ RandomTyped'
  BY ZeroTypeKeeps, ArrayTypeKeeps, RandomTypeKeeps DEF RestTyped
<1>2. TwisterTypeOK' /\ ShuffleTypeOK' /\ PlaceTypeOK'
  BY TwisterTypeKeeps, ShuffleTypeKeeps, PlaceTypeKeeps DEF RestTyped
<1> QED BY <1>1, <1>2 DEF RestTyped

LEMMA RestAlways == Spec => []RestTyped
<1>1. Init => RestTyped
  BY RestInit
<1>2. /\ RestTyped /\ DrawsInv /\ DrawsInv' /\ AliveInv /\ AliveInv' /\ TwisterInv /\ TwisterInv'
      /\ ShuffleInv /\ ShuffleInv' /\ WhereInv /\ [Next]_vars
      => RestTyped'
  BY RestKeeps
<1>3. Spec => []DrawsInv
  BY DrawsAlways
<1>4. Spec => []AliveInv
  BY AliveAlways
<1> QED BY <1>1, <1>2, <1>3, <1>4, TwisterCorrect, ShuffleAlways, Where, PTL DEF Spec

-----------------------------------------------------------------------------
(* What the run checks of several functions at once *)

\* Every variable has its type in every call, and pc is a place of the function
\* that is called.
THEOREM TypeCorrect == Spec => []TypeOK
<1>1. ListInv /\ WhereInv => ListTypeOK
  BY ListGood
<1>2. AddressInv /\ WhereInv => AddressTypeOK
  BY AddressTyped
<1>3. TextInv /\ WhereInv /\ [Next]_vars => TextTypeOK
  BY TextTyped
<1>4. RestTyped /\ ListTypeOK /\ AddressTypeOK /\ TextTypeOK => TypeOK
  BY DEF RestTyped, RandomTyped, PlaceTypeOK, Functions, TypeOK
<1> QED BY <1>1, <1>2, <1>3, <1>4, ListAlways, AddressAlways, TextAlways, RestAlways, Where, PTL DEF Spec

\* Whatever they are called with, base58encode and the functions that write a text
\* stay within their buffers, but for the digit that snprintUInt64 puts in front of
\* a single byte; and string_array_split, when an allocation fails too, stays
\* within its array up to the number of slots that it begins with, and after that
\* writes at most one token behind it.
THEOREM BuffersHold == Spec => []BuffersInBounds
<1>1. AddressInv /\ WhereInv => ScratchInBounds
  BY AddressTyped
<1>2. TextInv /\ WhereInv /\ [Next]_vars => TextInBounds
  BY TextTyped
<1>3. SlotsInv => SplitInBounds
  BY DEF SlotsInv
<1>4. BuffersInBounds <=> ScratchInBounds /\ TextInBounds /\ SplitInBounds
  BY DEF BuffersInBounds
<1> QED BY <1>1, <1>2, <1>3, <1>4, AddressAlways, TextAlways, SlotsAlways, Where, PTL DEF Spec

\* What is left to divide and the digits that have been written are, after every
\* division, the number that was to be written, in both of the functions that
\* divide.
THEOREM DivisionsKeep == Spec => []NothingLost
<1>1. AddressInv /\ WhereInv => ValueKept
  BY AddressTyped
<1>2. TextInv /\ WhereInv /\ [Next]_vars => DigitsKept
  BY TextTyped
<1>3. NothingLost <=> ValueKept /\ DigitsKept
  BY DEF NothingLost
<1> QED BY <1>1, <1>2, <1>3, AddressAlways, TextAlways, Where, PTL DEF Spec
====
