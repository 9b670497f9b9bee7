---------------------------- MODULE VarintProofs ----------------------------
(***************************************************************************)
(* Numbers as bytes: what is measured is what is written, and what is      *)
(* written is what is read, in any base above 3.                           *)
(*                                                                         *)
(* The first part is about recursive functions on natural numbers, for     *)
(* all the proof modules: that an equation defines such a function         *)
(* (RecursionDefines), induction on a set of numbers (SetInduction,        *)
(* IntervalInduction), and what follows of Continued and Numeral.          *)
(***************************************************************************)
EXTENDS Varint, WellFoundedInduction, SequenceTheorems, TLAPS

-----------------------------------------------------------------------------
\* Induction: the least number that is not in T would have one before it that is.
LEMMA SetInduction ==
    ASSUME NEW T, 0 \in T, \A n \in Nat : n \in T => n + 1 \in T
    PROVE  Nat \subseteq T
<1> DEFINE R == OpToRel(<, Nat)
           U == {n \in Nat : n \notin T}
<1>1. IsWellFoundedOn(R, Nat)
  BY NatLessThanWellFounded
<1>2. \A x, y \in Nat : x < y => <<x, y>> \in R
  BY DEF OpToRel
<1> SUFFICES ASSUME U # {} PROVE FALSE
  OBVIOUS
<1>3. U \subseteq Nat
  OBVIOUS
<1> HIDE DEF R
<1>4. \E x \in U : \A y \in U : ~ (<<y, x>> \in R)
  <2> HIDE DEF U
  <2> QED BY <1>1, <1>3, WFMin
<1>5. PICK x \in U : \A y \in U : ~ (<<y, x>> \in R)
  BY <1>4
<1>6. x \in Nat /\ x # 0 /\ x - 1 \in Nat
  OBVIOUS
<1>7. x - 1 \in T
  <2> SUFFICES ASSUME x - 1 \notin T PROVE FALSE
    OBVIOUS
  <2>1. x - 1 \in U
    BY <1>6
  <2>2. <<x - 1, x>> \in R
    BY <1>2, <1>6
  <2> QED BY <1>5, <2>1, <2>2
<1> QED BY <1>6, <1>7

\* The same from m up to n.
LEMMA IntervalInduction ==
    ASSUME NEW m \in Int, NEW n \in Int, NEW T, m \in T,
           \A i \in m .. n - 1 : i \in T => i + 1 \in T
    PROVE  m .. n \subseteq T
<1> DEFINE U == {k \in Nat : m + k <= n => m + k \in T}
<1>1. 0 \in U
  OBVIOUS
<1>2. ASSUME NEW k \in Nat, k \in U PROVE k + 1 \in U
  <2> SUFFICES ASSUME m + (k + 1) <= n PROVE m + (k + 1) \in T
    OBVIOUS
  <2>1. m + k \in m .. n - 1 /\ m + k \in T
    BY <1>2
  <2>2. (m + k) + 1 \in T
    BY <2>1
  <2> QED BY <2>2
<1>3. Nat \subseteq U
  <2> HIDE DEF U
  <2> QED BY <1>1, <1>2, SetInduction
<1> SUFFICES ASSUME NEW i \in m .. n PROVE i \in T
  OBVIOUS
<1>4. i - m \in U
  BY <1>3
<1> QED BY <1>4

\* f starts with a, and F makes each of its further values from the one before.
Recurs(f, V, a, F, m, n) ==
    /\ f \in [m .. n -> V]
    /\ f = [i \in m .. n |-> IF i = m THEN a ELSE F[i][f[i - 1]]]

\* There is such a function: one can be continued by one value more.
LEMMA RecursionDefines ==
    ASSUME NEW m \in Int, NEW n \in Int, NEW V, NEW a \in V, NEW F \in [m + 1 .. n -> [V -> V]]
    PROVE  \E f : Recurs(f, V, a, F, m, n)
<1> DEFINE Good(f, k) == /\ f \in [m .. m + k -> V]
                         /\ f[m] = a
                         /\ \A i \in m + 1 .. m + k : i <= n => f[i] = F[i][f[i - 1]]
           T == {k \in Nat : \E f : Good(f, k)}
<1>1. 0 \in T
  <2> DEFINE f == [i \in m .. m |-> a]
  <2>1. Good(f, 0)
    OBVIOUS
  <2> QED BY <2>1
<1>2. ASSUME NEW k \in Nat, k \in T PROVE k + 1 \in T
  <2>1. PICK f : Good(f, k)
    BY <1>2
  <2> DEFINE e == IF m + k + 1 <= n THEN F[m + k + 1][f[m + k]] ELSE a
             g == [i \in m .. m + (k + 1) |-> IF i = m + (k + 1) THEN e ELSE f[i]]
  <2>2. e \in V
    <3>1. f[m + k] \in V
      BY <2>1
    <3>2. CASE m + k + 1 <= n
      <4>1. m + k + 1 \in m + 1 .. n
        BY <3>2
      <4>2. F[m + k + 1] \in [V -> V]
        BY <4>1
      <4> QED BY <3>1, <3>2, <4>2
    <3> QED BY <3>2
  <2>3. Good(g, k + 1)
    <3>1. g \in [m .. m + (k + 1) -> V]
      <4> HIDE DEF e
      <4> QED BY <2>1, <2>2
    <3>2. g[m] = a
      BY <2>1
    <3>3. ASSUME NEW i \in m + 1 .. m + (k + 1), i <= n PROVE g[i] = F[i][g[i - 1]]
      <4>1. CASE i = m + (k + 1)
        <5>1. g[i - 1] = f[m + k] /\ i - 1 = m + k /\ m + k + 1 <= n /\ i = m + k + 1
          BY <3>3, <4>1
        <5>2. g[i] = e /\ e = F[m + k + 1][f[m + k]]
          BY <4>1, <5>1
        <5> QED BY <5>1, <5>2
      <4>2. CASE i # m + (k + 1)
        <5>1. i \in m + 1 .. m + k /\ i - 1 \in m .. m + k
          BY <4>2
        <5>2. g[i] = f[i] /\ g[i - 1] = f[i - 1]
          BY <5>1
        <5>3. f[i] = F[i][f[i - 1]]
          BY <2>1, <3>3, <5>1
        <5> HIDE DEF g, e
        <5> QED BY <5>2, <5>3
      <4> QED BY <4>1, <4>2
    <3> QED BY <3>1, <3>2, <3>3
  <2> HIDE DEF g, Good
  <2>4. \E h : Good(h, k + 1)
    BY <2>3
  <2> QED BY <2>4
<1>3. Nat \subseteq T
  <2> HIDE DEF T
  <2> QED BY <1>1, <1>2, SetInduction
<1>4. CASE n < m
  <2> DEFINE f == [i \in m .. n |-> a]
  <2>1. m .. n = {}
    BY <1>4
  <2>2. Recurs(f, V, a, F, m, n)
    BY <2>1 DEF Recurs
  <2> QED BY <2>2
<1>5. CASE m <= n
  <2>1. n - m \in Nat /\ m + (n - m) = n
    BY <1>5
  <2>5. n - m \in T
    BY <1>3, <2>1
  <2>2. PICK f : Good(f, n - m)
    BY <2>5
  <2>3. f \in [m .. n -> V] /\ f[m] = a /\ \A i \in m + 1 .. n : f[i] = F[i][f[i - 1]]
    BY <2>1, <2>2
  <2>4. f = [i \in m .. n |-> IF i = m THEN a ELSE F[i][f[i - 1]]]
    BY <2>3
  <2>6. Recurs(f, V, a, F, m, n)
    BY <2>3, <2>4 DEF Recurs
  <2> QED BY <2>6
<1> QED BY <1>4, <1>5

-----------------------------------------------------------------------------
(* Digits *)

\* f has integers for digits.
AreInts(f, m, n) == \A i \in m + 1 .. n : f[i] \in Int

\* v is the number that each of the digits ends, when a comes before them.
Prefixes(v, a, f, b, m, n) ==
    /\ v \in [m .. n -> Int]
    /\ v[m] = a
    /\ \A i \in m + 1 .. n : v[i] = v[i - 1] * b + f[i]
    /\ v[n] = Continued(a, f, b, m, n)

LEMMA ContinuedPrefix ==
    ASSUME NEW a \in Int, NEW f, NEW b \in Int, NEW m \in Int, NEW n \in Int, m <= n, AreInts(f, m, n)
    PROVE  \E v : Prefixes(v, a, f, b, m, n)
<1> DEFINE F == [i \in m + 1 .. n |-> [x \in Int |-> x * b + f[i]]]
           IsNum(v) == v = [i \in m .. n |-> IF i = m THEN a ELSE v[i - 1] * b + f[i]]
           w == CHOOSE v : IsNum(v)
<1>1. F \in [m + 1 .. n -> [Int -> Int]]
  BY DEF AreInts
<1> HIDE DEF F
<1>2. PICK u \in [m .. n -> Int] : u = [i \in m .. n |-> IF i = m THEN a ELSE F[i][u[i - 1]]]
  <2>1. a \in Int
    OBVIOUS
  <2>2. \E u : Recurs(u, Int, a, F, m, n)
    BY <1>1, <2>1, RecursionDefines, Zenon
  <2> QED BY <2>2 DEF Recurs
<1>3. \A i \in m .. n : (IF i = m THEN a ELSE F[i][u[i - 1]])
                          = (IF i = m THEN a ELSE u[i - 1] * b + f[i])
  <2> SUFFICES ASSUME NEW i \in m .. n, i # m PROVE F[i][u[i - 1]] = u[i - 1] * b + f[i]
    OBVIOUS
  <2>1. i \in m + 1 .. n /\ i - 1 \in m .. n
    OBVIOUS
  <2>2. u[i - 1] \in Int
    BY <1>2, <2>1
  <2> QED BY <2>1, <2>2 DEF F
<1>4. IsNum(u)
  BY <1>2, <1>3
<1>5. IsNum(w)
  <2> HIDE DEF IsNum
  <2> QED BY <1>4
<1>6. Continued(a, f, b, m, n) = w[n]
  BY Zenon DEF Continued
<1> HIDE DEF w
<1>7. w[m] = a /\ \A i \in m + 1 .. n : w[i] = w[i - 1] * b + f[i]
  BY <1>5
<1>8. m .. n \subseteq {i \in m .. n : w[i] \in Int}
  <2> DEFINE T == {i \in m .. n : w[i] \in Int}
  <2>1. m \in T
    BY <1>7
  <2>2. ASSUME NEW i \in m .. n - 1, i \in T PROVE i + 1 \in T
    <3>1. i + 1 \in m + 1 .. n /\ (i + 1) - 1 = i /\ w[i] \in Int /\ i + 1 \in m .. n
      BY <2>2
    <3>2. f[i + 1] \in Int /\ w[i + 1] = w[i] * b + f[i + 1]
      BY <1>7, <3>1 DEF AreInts
    <3> QED BY <3>1, <3>2
  <2> HIDE DEF T
  <2>3. m .. n \subseteq T
    BY <2>1, <2>2, IntervalInduction
  <2> QED BY <2>3 DEF T
<1>9. w \in [m .. n -> Int]
  <2>1. w = [i \in m .. n |-> w[i]]
    BY <1>5
  <2> QED BY <2>1, <1>8
<1> QED BY <1>6, <1>7, <1>9 DEF Prefixes

\* Whatever satisfies the equations is the number.
LEMMA ContinuedIs ==
    ASSUME NEW a \in Int, NEW f, NEW b \in Int, NEW m \in Int, NEW n \in Int, m <= n, AreInts(f, m, n),
           NEW v, v[m] = a, \A i \in m + 1 .. n : v[i] = v[i - 1] * b + f[i]
    PROVE  v[n] = Continued(a, f, b, m, n)
<1>0. m <= n
  OBVIOUS
<1>10. PICK w : Prefixes(w, a, f, b, m, n)
  BY <1>0, ContinuedPrefix
<1>1. /\ w \in [m .. n -> Int] /\ w[m] = a
      /\ \A i \in m + 1 .. n : w[i] = w[i - 1] * b + f[i]
      /\ w[n] = Continued(a, f, b, m, n)
  BY <1>10 DEF Prefixes
<1> DEFINE T == {i \in m .. n : v[i] = w[i]}
<1>2. m \in T
  BY <1>1
<1>3. ASSUME NEW i \in m .. n - 1, i \in T PROVE i + 1 \in T
  <2>1. i + 1 \in m + 1 .. n /\ (i + 1) - 1 = i /\ v[i] = w[i] /\ i + 1 \in m .. n
    BY <1>3
  <2>2. v[i + 1] = v[i] * b + f[i + 1] /\ w[i + 1] = w[i] * b + f[i + 1]
    BY <1>1, <2>1
  <2> QED BY <2>1, <2>2
<1> HIDE DEF T
<1>4. m .. n \subseteq T
  BY <1>2, <1>3, IntervalInduction
<1> QED BY <1>1, <1>4 DEF T

LEMMA ContinuedType ==
    ASSUME NEW a \in Int, NEW f, NEW b \in Int, NEW m \in Int, NEW n \in Int, m <= n, AreInts(f, m, n)
    PROVE  Continued(a, f, b, m, n) \in Int
<1>1. PICK w : Prefixes(w, a, f, b, m, n)
  BY ContinuedPrefix
<1> QED BY <1>1 DEF Prefixes

LEMMA ContinuedEmpty ==
    ASSUME NEW a \in Int, NEW f, NEW b \in Int, NEW m \in Int
    PROVE  Continued(a, f, b, m, m) = a
<1>1. AreInts(f, m, m)
  BY DEF AreInts
<1>2. PICK w : Prefixes(w, a, f, b, m, m)
  <2>1. m <= m
    OBVIOUS
  <2> QED BY <1>1, <2>1, ContinuedPrefix
<1> QED BY <1>2 DEF Prefixes

LEMMA ContinuedStep ==
    ASSUME NEW a \in Int, NEW f, NEW b \in Int, NEW m \in Int, NEW n \in Int, m < n, AreInts(f, m, n)
    PROVE  Continued(a, f, b, m, n) = Continued(a, f, b, m, n - 1) * b + f[n]
<1>0. m <= n
  OBVIOUS
<1>10. PICK w : Prefixes(w, a, f, b, m, n)
  BY <1>0, ContinuedPrefix
<1>1. /\ w \in [m .. n -> Int] /\ w[m] = a
      /\ \A i \in m + 1 .. n : w[i] = w[i - 1] * b + f[i]
      /\ w[n] = Continued(a, f, b, m, n)
  BY <1>10 DEF Prefixes
<1>2. n - 1 \in Int /\ m <= n - 1 /\ AreInts(f, m, n - 1) /\ n \in m + 1 .. n
  BY DEF AreInts
<1>3. \A i \in m + 1 .. n - 1 : w[i] = w[i - 1] * b + f[i]
  BY <1>1
<1>4. w[n - 1] = Continued(a, f, b, m, n - 1)
  <2> DEFINE k == n - 1
  <2>1. w[m] = a /\ k \in Int /\ m <= k /\ AreInts(f, m, k)
        /\ \A i \in m + 1 .. k : w[i] = w[i - 1] * b + f[i]
    BY <1>1, <1>2, <1>3
  <2> HIDE DEF k
  <2>2. w[k] = Continued(a, f, b, m, k)
    BY <2>1, ContinuedIs
  <2> QED BY <2>2 DEF k
<1> QED BY <1>1, <1>2, <1>4

\* The same digits in another place.
Shifted(g, f, k, m, n) == \A i \in m + 1 .. n : g[i + k] = f[i]

LEMMA ContinuedShift ==
    ASSUME NEW a \in Int, NEW f, NEW g, NEW b \in Int, NEW m \in Int, NEW n \in Int, NEW k \in Int, m <= n,
           AreInts(f, m, n), Shifted(g, f, k, m, n)
    PROVE  Continued(a, g, b, m + k, n + k) = Continued(a, f, b, m, n)
<1>0. m <= n
  OBVIOUS
<1>10. PICK w : Prefixes(w, a, f, b, m, n)
  BY <1>0, ContinuedPrefix
<1>1. /\ w \in [m .. n -> Int] /\ w[m] = a
      /\ \A i \in m + 1 .. n : w[i] = w[i - 1] * b + f[i]
      /\ w[n] = Continued(a, f, b, m, n)
  BY <1>10 DEF Prefixes
<1> DEFINE v == [i \in m + k .. n + k |-> w[i - k]]
<1>2. AreInts(g, m + k, n + k)
  <2> SUFFICES ASSUME NEW i \in m + k + 1 .. n + k PROVE g[i] \in Int
    BY DEF AreInts
  <2>1. i - k \in m + 1 .. n /\ (i - k) + k = i
    OBVIOUS
  <2>2. g[(i - k) + k] = f[i - k] /\ f[i - k] \in Int
    BY <2>1 DEF AreInts, Shifted
  <2> QED BY <2>1, <2>2
<1>3. v[m + k] = a /\ v[n + k] = w[n]
  <2>1. m + k \in m + k .. n + k /\ (m + k) - k = m /\ n + k \in m + k .. n + k /\ (n + k) - k = n
    OBVIOUS
  <2> QED BY <1>1, <2>1
<1>4. ASSUME NEW i \in m + k + 1 .. n + k PROVE v[i] = v[i - 1] * b + g[i]
  <2>1. /\ i - k \in m + 1 .. n /\ (i - k) + k = i /\ (i - 1) - k = (i - k) - 1
        /\ i \in m + k .. n + k /\ i - 1 \in m + k .. n + k
    OBVIOUS
  <2>2. g[i] = f[i - k] /\ w[i - k] = w[(i - k) - 1] * b + f[i - k]
    <3>1. g[(i - k) + k] = f[i - k]
      BY <2>1 DEF Shifted
    <3> QED BY <1>1, <2>1, <3>1
  <2>3. v[i] = w[i - k] /\ v[i - 1] = w[(i - k) - 1]
    BY <2>1
  <2> QED BY <2>2, <2>3
<1> HIDE DEF v
<1>5. v[n + k] = Continued(a, g, b, m + k, n + k)
  BY <1>2, <1>3, <1>4, ContinuedIs
<1> QED BY <1>1, <1>3, <1>5

LEMMA ContinuedSame ==
    ASSUME NEW a \in Int, NEW f, NEW g, NEW b \in Int, NEW m \in Int, NEW n \in Int, m <= n,
           AreInts(f, m, n), \A i \in m + 1 .. n : g[i] = f[i]
    PROVE  Continued(a, g, b, m, n) = Continued(a, f, b, m, n)
<1>0. m <= n /\ AreInts(f, m, n) /\ AreInts(g, m, n)
  BY DEF AreInts
<1>1. PICK w : Prefixes(w, a, f, b, m, n)
  BY <1>0, ContinuedPrefix
<1>2. w[m] = a /\ \A i \in m + 1 .. n : w[i] = w[i - 1] * b + g[i]
  BY <1>1 DEF Prefixes
<1>3. w[n] = Continued(a, g, b, m, n)
  BY <1>0, <1>2, ContinuedIs
<1> QED BY <1>1, <1>3 DEF Prefixes

\* The digits one after the other: the first of them, or the first so many.
LEMMA ContinuedFirst ==
    ASSUME NEW a \in Int, NEW f, NEW b \in Int, NEW m \in Int, NEW n \in Int, m < n, AreInts(f, m, n)
    PROVE  Continued(a, f, b, m, n) = Continued(a * b + f[m + 1], f, b, m + 1, n)
<1>0. m <= n /\ m + 1 <= n /\ AreInts(f, m + 1, n) /\ m + 1 \in m + 1 .. n
  BY DEF AreInts
<1>10. PICK w : Prefixes(w, a, f, b, m, n)
  BY <1>0, ContinuedPrefix
<1>1. w[m] = a /\ \A i \in m + 1 .. n : w[i] = w[i - 1] * b + f[i]
  BY <1>10 DEF Prefixes
<1>2. w[m + 1] = a * b + f[m + 1] /\ f[m + 1] \in Int
  BY <1>0, <1>1 DEF AreInts
<1> DEFINE c == a * b + f[m + 1]
<1>3. c \in Int /\ m + 1 \in Int
  BY <1>2
<1>4. \A i \in (m + 1) + 1 .. n : w[i] = w[i - 1] * b + f[i]
  BY <1>1
<1>5. w[m + 1] = c
  BY <1>2
<1> HIDE DEF c
<1>6. w[n] = Continued(c, f, b, m + 1, n)
  BY <1>0, <1>3, <1>4, <1>5, ContinuedIs
<1> QED BY <1>10, <1>6 DEF c, Prefixes

LEMMA NumeralType ==
    ASSUME NEW f, NEW b \in Int, NEW m \in Int, NEW n \in Int, m <= n, AreInts(f, m, n)
    PROVE  Numeral(f, b, m, n) \in Int
BY ContinuedType, 0 \in Int DEF Numeral

LEMMA NumeralStep ==
    ASSUME NEW f, NEW b \in Int, NEW m \in Int, NEW n \in Int, m < n, AreInts(f, m, n)
    PROVE  Numeral(f, b, m, n) = Numeral(f, b, m, n - 1) * b + f[n]
BY ContinuedStep, 0 \in Int DEF Numeral

LEMMA NumeralIs ==
    ASSUME NEW f, NEW b \in Int, NEW m \in Int, NEW n \in Int, m <= n, AreInts(f, m, n),
           NEW v, v[m] = 0, \A i \in m + 1 .. n : v[i] = v[i - 1] * b + f[i]
    PROVE  v[n] = Numeral(f, b, m, n)
BY ContinuedIs, 0 \in Int DEF Numeral

LEMMA NumeralEmpty ==
    ASSUME NEW f, NEW b \in Int, NEW m \in Int
    PROVE  Numeral(f, b, m, m) = 0
BY ContinuedEmpty, 0 \in Int DEF Numeral

LEMMA NumeralShift ==
    ASSUME NEW f, NEW g, NEW b \in Int, NEW m \in Int, NEW n \in Int, NEW k \in Int, m <= n,
           AreInts(f, m, n), \A i \in m + 1 .. n : g[i + k] = f[i]
    PROVE  Numeral(g, b, m + k, n + k) = Numeral(f, b, m, n)
<1>1. Shifted(g, f, k, m, n) /\ 0 \in Int
  BY DEF Shifted
<1> QED BY <1>1, ContinuedShift DEF Numeral

LEMMA NumeralSame ==
    ASSUME NEW f, NEW g, NEW b \in Int, NEW m \in Int, NEW n \in Int, m <= n,
           AreInts(f, m, n), \A i \in m + 1 .. n : g[i] = f[i]
    PROVE  Numeral(g, b, m, n) = Numeral(f, b, m, n)
BY ContinuedSame, 0 \in Int DEF Numeral

-----------------------------------------------------------------------------
(* Powers *)

LEMMA PowersPositive ==
    ASSUME NEW b \in Nat, b > 0, NEW k \in Nat, PowersTo(b, k)
    PROVE  \A n \in 0 .. k : b^n \in Nat /\ b^n > 0
<1> DEFINE T == {n \in 0 .. k : b^n \in Nat /\ b^n > 0}
<1>1. 0 \in T
  BY DEF PowersTo
<1>2. ASSUME NEW n \in 0 .. k - 1, n \in T PROVE n + 1 \in T
  <2>1. b^(n + 1) = b * b^n /\ b^n \in Nat /\ b^n > 0
    BY <1>2 DEF PowersTo
  <2> DEFINE p == b^n
  <2>2. p \in Nat /\ p > 0
    BY <2>1
  <2> HIDE DEF p
  <2>3. b * p \in Nat /\ b * p > 0
    BY <2>2
  <2> QED BY <2>1, <2>3 DEF p
<1> HIDE DEF T
<1>3. 0 .. k \subseteq T
  BY <1>1, <1>2, IntervalInduction
<1> QED BY <1>3 DEF T

\* Digits in front count for so many powers more.
LEMMA NumeralJoin ==
    ASSUME NEW f, NEW b \in Nat, b > 0, NEW m \in Int, NEW l \in Int, NEW n \in Int,
           m <= l, l <= n, AreInts(f, m, n), PowersTo(b, n - l)
    PROVE  Numeral(f, b, m, n) = Numeral(f, b, m, l) * b^(n - l) + Numeral(f, b, l, n)
<1> DEFINE T == {i \in l .. n : Numeral(f, b, m, i) = Numeral(f, b, m, l) * b^(i - l) + Numeral(f, b, l, i)}
<1>1. AreInts(f, m, l) /\ AreInts(f, l, n)
      /\ \A i \in l .. n : AreInts(f, m, i) /\ AreInts(f, l, i)
  BY DEF AreInts
<1>2. l \in T
  <2>1. b^(l - l) = 1 /\ Numeral(f, b, l, l) = 0 /\ Numeral(f, b, m, l) \in Int
    BY <1>1, NumeralEmpty, NumeralType DEF PowersTo
  <2> QED BY <2>1
<1>3. ASSUME NEW i \in l .. n - 1, i \in T PROVE i + 1 \in T
  <2> DEFINE a == Numeral(f, b, m, l)
             p == b^(i - l)
             c == Numeral(f, b, l, i)
             d == f[i + 1]
  <2>1. i - l \in 0 .. (n - l) - 1 /\ i - l + 1 = (i + 1) - l /\ n - l \in Nat
    OBVIOUS
  <2>2. b^((i + 1) - l) = b * p /\ p \in Nat
    <3>1. \A k \in 0 .. n - l : b^k \in Nat /\ b^k > 0
      BY <2>1, PowersPositive, Zenon
    <3>2. b^((i - l) + 1) = b * p
      BY <2>1 DEF PowersTo
    <3>3. i - l \in 0 .. n - l
      OBVIOUS
    <3> HIDE DEF T
    <3> QED BY <2>1, <3>1, <3>2, <3>3
  <2>3. a \in Int /\ c \in Int /\ d \in Int
    BY <1>1, NumeralType DEF AreInts
  <2>4. Numeral(f, b, m, i + 1) = Numeral(f, b, m, i) * b + d /\ Numeral(f, b, l, i + 1) = c * b + d
    <3>1. (i + 1) - 1 = i /\ i + 1 \in l .. n /\ m < i + 1 /\ l < i + 1
      OBVIOUS
    <3> QED BY <1>1, <3>1, NumeralStep
  <2>5. Numeral(f, b, m, i) = a * p + c
    BY <1>3
  <2> HIDE DEF a, p, c, d
  <2>6. (a * p + c) * b + d = a * (b * p) + (c * b + d)
    BY <2>2, <2>3
  <2>7. Numeral(f, b, m, i + 1) = a * (b * p) + Numeral(f, b, l, i + 1)
    BY <2>4, <2>5, <2>6
  <2>8. i + 1 \in l .. n
    OBVIOUS
  <2> QED BY <2>2, <2>7, <2>8 DEF a
<1> HIDE DEF T
<1>4. l .. n \subseteq T
  BY <1>2, <1>3, IntervalInduction
<1> QED BY <1>4 DEF T

\* n digits are less than b^n.
LEMMA NumeralBound ==
    ASSUME NEW f, NEW b \in Nat, b > 0, NEW m \in Int, NEW n \in Int, m <= n,
           \A i \in m + 1 .. n : f[i] \in 0 .. b - 1, PowersTo(b, n - m)
    PROVE  Numeral(f, b, m, n) \in 0 .. b^(n - m) - 1
<1> DEFINE T == {i \in m .. n : Numeral(f, b, m, i) \in 0 .. b^(i - m) - 1}
<1>1. \A i \in m .. n : AreInts(f, m, i)
  BY DEF AreInts
<1>2. m \in T
  <2>1. b^(m - m) = 1 /\ Numeral(f, b, m, m) = 0
    BY NumeralEmpty DEF PowersTo
  <2> QED BY <2>1
<1>3. ASSUME NEW i \in m .. n - 1, i \in T PROVE i + 1 \in T
  <2> DEFINE p == b^(i - m)
             c == Numeral(f, b, m, i)
             d == f[i + 1]
  <2>1. i - m \in 0 .. (n - m) - 1 /\ i - m + 1 = (i + 1) - m /\ n - m \in Nat
    OBVIOUS
  <2>2. b^((i + 1) - m) = b * p /\ p \in Nat
    <3>1. \A k \in 0 .. n - m : b^k \in Nat /\ b^k > 0
      BY <2>1, PowersPositive, Zenon
    <3>2. b^((i - m) + 1) = b * p
      BY <2>1 DEF PowersTo
    <3>3. i - m \in 0 .. n - m
      OBVIOUS
    <3> HIDE DEF T
    <3> QED BY <2>1, <3>1, <3>2, <3>3
  <2>3. c \in 0 .. p - 1 /\ d \in 0 .. b - 1
    BY <1>3
  <2>4. Numeral(f, b, m, i + 1) = c * b + d
    <3>1. (i + 1) - 1 = i /\ i + 1 \in m .. n /\ m < i + 1
      OBVIOUS
    <3> QED BY <1>1, <3>1, NumeralStep
  <2> HIDE DEF p, c, d
  <2>5. c * b + d \in 0 .. b * p - 1
    <3>1. c * b \in Nat /\ b * p \in Nat
      BY <2>2, <2>3
    <3>2. (p - 1 - c) * b >= 0 /\ (p - 1 - c) * b = p * b - b - c * b
      BY <2>2, <2>3
    <3> QED BY <2>2, <2>3, <3>1, <3>2
  <2> QED BY <2>2, <2>4, <2>5
<1> HIDE DEF T
<1>4. m .. n \subseteq T
  BY <1>2, <1>3, IntervalInduction
<1> QED BY <1>4 DEF T

-----------------------------------------------------------------------------
(* Lengths.  What the elements are does not matter. *)

\* s is a sequence of n elements.
OfLength(s, n) == \E S : s \in Seq(S) /\ Len(s) = n

\* The length says all there is to say about it here.
LEMMA LengthOf ==
    ASSUME NEW s, NEW n \in Nat, OfLength(s, n)
    PROVE  Len(s) = n
BY DEF OfLength

\* Bytes one after the other are as many as both.
LEMMA ConcatLen ==
    ASSUME NEW s, NEW t, NEW m \in Nat, NEW n \in Nat, OfLength(s, m), OfLength(t, n)
    PROVE  OfLength(s \o t, m + n)
<1>1. PICK S : s \in Seq(S) /\ Len(s) = m
  BY DEF OfLength
<1>2. PICK T : t \in Seq(T) /\ Len(t) = n
  BY DEF OfLength
<1>3. s \in Seq(S \cup T) /\ t \in Seq(S \cup T)
  BY <1>1, <1>2
<1>4. s \o t \in Seq(S \cup T) /\ Len(s \o t) = m + n
  BY <1>1, <1>2, <1>3
<1> QED BY <1>4 DEF OfLength

\* A function on 1 .. n is a sequence of n elements.
LEMMA FunctionLen ==
    ASSUME NEW n \in Nat, NEW S, NEW f \in [1 .. n -> S]
    PROVE  OfLength(f, n)
<1>1. f \in Seq(S)
  OBVIOUS
<1>2. DOMAIN f = 1 .. Len(f) /\ DOMAIN f = 1 .. n /\ Len(f) \in Nat
  BY <1>1
<1>3. Len(f) = n
  BY <1>2
<1> QED BY <1>1, <1>3 DEF OfLength

\* htobeXX gives as many bytes as it is asked for.
LEMMA BigEndianLen ==
    ASSUME NEW v, NEW n \in Nat
    PROVE  OfLength(BigEndian(v, n), n)
<1>1. BigEndian(v, n) \in [1 .. n -> {(v \div B^(n - k)) % B : k \in 1 .. n}]
  BY DEF BigEndian
<1> QED BY <1>1, FunctionLen

\* One byte is one.
LEMMA OneLen ==
    ASSUME NEW x
    PROVE  OfLength(<<x>>, 1)
<1>1. <<x>> \in Seq({x}) /\ Len(<<x>>) = 1
  OBVIOUS
<1> QED BY <1>1 DEF OfLength

-----------------------------------------------------------------------------
(* Division *)

\* The quotient and the remainder are the only ones.
LEMMA DivisionIs ==
    ASSUME NEW d \in Nat, d > 0, NEW q \in Int, NEW r \in 0 .. d - 1, NEW a \in Int, a = q * d + r
    PROVE  a \div d = q /\ a % d = r
OBVIOUS

LEMMA DivisionLeaves ==
    ASSUME NEW a \in Nat, NEW d \in Nat, d > 0
    PROVE  a \div d \in Nat /\ a % d \in 0 .. d - 1 /\ a = (a \div d) * d + (a % d)
<1> DEFINE q == a \div d
           r == a % d
<1>1. q \in Nat /\ r \in 0 .. d - 1 /\ a = d * q + r
  OBVIOUS
<1> HIDE DEF q, r
<1>2. q \in Nat /\ r \in 0 .. d - 1 /\ a = q * d + r
  BY <1>1
<1> QED BY <1>2 DEF q, r

\* Dividing twice is dividing by the product.
LEMMA DivideTwice ==
    ASSUME NEW a \in Nat, NEW b \in Nat, b > 0, NEW c \in Nat, c > 0
    PROVE  (a \div b) \div c = a \div (b * c)
<1> DEFINE q == a \div b
           r == a % b
           t == q \div c
           u == q % c
<1>1. q \in Nat /\ r \in 0 .. b - 1 /\ a = q * b + r
  BY DivisionLeaves
<1>2. t \in Nat /\ u \in 0 .. c - 1 /\ q = t * c + u
  <2> HIDE DEF q
  <2> QED BY <1>1, DivisionLeaves
<1> HIDE DEF q, r, t, u
<1>3. b * c \in Nat /\ b * c > 0
  OBVIOUS
<1>4. a = t * (b * c) + (u * b + r)
  <2>1. (t * c + u) * b = t * (b * c) + u * b
    BY <1>2
  <2> QED BY <1>1, <1>2, <2>1
<1>5. u * b + r \in 0 .. b * c - 1
  <2>1. (c - 1 - u) * b >= 0 /\ (c - 1 - u) * b = c * b - b - u * b /\ u * b \in Nat
    BY <1>2
  <2> QED BY <1>1, <1>2, <1>3, <2>1
<1> DEFINE d == b * c
           e == u * b + r
<1>6. d \in Nat /\ d > 0 /\ e \in 0 .. d - 1 /\ a = t * d + e
  BY <1>3, <1>4, <1>5
<1> HIDE DEF d, e
<1>7. a \div d = t
  BY <1>2, <1>6, DivisionIs
<1> QED BY <1>7 DEF d, q, t

-----------------------------------------------------------------------------
(* Bytes *)

LEMMA BytePowers == \A n \in 0 .. 8 : B^n \in Nat /\ B^n > 0
BY BaseAssumption, PowersPositive

LEMMA BigEndianBytes ==
    ASSUME NEW n \in 0 .. 8, NEW v \in Nat
    PROVE  BigEndian(v, n) \in [1 .. n -> Byte]
<1> SUFFICES ASSUME NEW k \in 1 .. n PROVE (v \div B^(n - k)) % B \in Byte
  BY DEF BigEndian
<1>1. B^(n - k) \in Nat /\ B^(n - k) > 0 /\ B \in Nat /\ B > 0
  BY BaseAssumption, BytePowers
<1> DEFINE q == v \div B^(n - k)
<1>2. q \in Nat
  BY <1>1, DivisionLeaves
<1> HIDE DEF q
<1>3. q % B \in 0 .. B - 1
  BY <1>1, <1>2, DivisionLeaves
<1> QED BY <1>3 DEF q, Byte

\* be16toh, be32toh and be64toh take back what htobe16, htobe32 and htobe64 make.
THEOREM BigEndianReadsBack ==
    ASSUME NEW n \in 0 .. 8, NEW v \in 0 .. B^n - 1
    PROVE  Value(BigEndian(v, n)) = v
<1> DEFINE d == BigEndian(v, n)
           w == [i \in 0 .. n |-> v \div B^(n - i)]
<1>1. B \in Nat /\ B > 0 /\ v \in Nat /\ n \in Nat
  BY BaseAssumption, BytePowers
<1>2. \A i \in 0 .. n : w[i] \in Nat
  BY <1>1, BytePowers
<1>3. w[0] = 0 /\ w[n] = v
  <2>1. B^(n - 0) = B^n /\ B^(n - n) = 1
    BY BaseAssumption DEF PowersTo
  <2>2. v \div B^n = 0
    <3> DEFINE p == B^n
    <3>1. p \in Nat /\ p > 0 /\ v \in 0 .. p - 1
      BY BytePowers
    <3> HIDE DEF p
    <3>2. v \div p = 0
      BY <3>1
    <3> QED BY <3>2 DEF p
  <2>3. v \div 1 = v
    BY <1>1
  <2> QED BY <2>1, <2>2, <2>3
<1>4. ASSUME NEW i \in 1 .. n PROVE w[i] = w[i - 1] * B + d[i] /\ d[i] \in 0 .. B - 1
  <2> DEFINE p == B^(n - i)
  <2>1. p \in Nat /\ p > 0 /\ B^(n - (i - 1)) = B * p
    <3>1. n - i \in 0 .. 7 /\ n - (i - 1) = (n - i) + 1
      OBVIOUS
    <3>2. B^((n - i) + 1) = B * B^(n - i)
      BY <3>1, BaseAssumption DEF PowersTo
    <3> QED BY <3>1, <3>2, BytePowers
  <2>2. w[i] = v \div p /\ w[i - 1] = v \div (B * p) /\ d[i] = (v \div p) % B
    BY <2>1 DEF BigEndian
  <2> HIDE DEF p, d, w
  <2>3. v \div (B * p) = (v \div p) \div B
    <3>1. (v \div p) \div B = v \div (p * B)
      BY <1>1, <2>1, DivideTwice
    <3> QED BY <1>1, <2>1, <3>1
  <2>4. v \div p \in Nat
    BY <1>1, <2>1
  <2>5. v \div p = ((v \div p) \div B) * B + ((v \div p) % B) /\ (v \div p) % B \in 0 .. B - 1
    BY <1>1, <2>4, DivisionLeaves
  <2>6. w[i - 1] = (v \div p) \div B
    BY <2>2, <2>3
  <2> DEFINE x == v \div p
             y == x \div B
             z == x % B
  <2>7. w[i] = x /\ w[i - 1] = y /\ d[i] = z /\ x = y * B + z /\ z \in 0 .. B - 1
    BY <2>2, <2>5, <2>6
  <2> HIDE DEF x, y, z
  <2> QED BY <2>7
<1>5. AreInts(d, 0, n)
  <2> HIDE DEF d, w
  <2>1. \A i \in 0 + 1 .. n : d[i] \in 0 .. B - 1
    BY <1>4
  <2> QED BY <1>1, <2>1 DEF AreInts
<1>6. w[n] = Numeral(d, B, 0, n)
  <2> HIDE DEF d, w
  <2> QED BY <1>1, <1>3, <1>4, <1>5, NumeralIs
<1>7. Len(d) = n
  BY <1>1, BigEndianLen, LengthOf
<1> QED BY <1>3, <1>6, <1>7 DEF Value

-----------------------------------------------------------------------------
(* Varints *)

\* A marker and the bytes behind it.
LEMMA MarkedLen ==
    ASSUME NEW x, NEW v, NEW n \in Nat
    PROVE  OfLength(<<x>> \o BigEndian(v, n), 1 + n)
BY OneLen, BigEndianLen, ConcatLen

\* encodeVarint writes as many bytes as get_varint_size says: the two change
\* from one size to the next at the same numbers.
THEOREM EncodedSize ==
    ASSUME NEW u
    PROVE  OfLength(encodeVarint(u), get_varint_size(u))
<1>1. CASE u < Mark(1)
  BY <1>1, OneLen DEF encodeVarint, get_varint_size
<1>2. CASE ~(u < Mark(1)) /\ u < B^2
  <2>1. OfLength(<<Mark(1)>> \o BigEndian(u, 2), 1 + 2)
    BY MarkedLen
  <2> QED BY <1>2, <2>1 DEF encodeVarint, get_varint_size
<1>3. CASE ~(u < Mark(1)) /\ ~(u < B^2) /\ u < B^4
  <2>1. OfLength(<<Mark(2)>> \o BigEndian(u, 4), 1 + 4)
    BY MarkedLen
  <2> QED BY <1>3, <2>1 DEF encodeVarint, get_varint_size
<1>4. CASE ~(u < Mark(1)) /\ ~(u < B^2) /\ ~(u < B^4)
  <2>1. OfLength(<<Mark(3)>> \o BigEndian(u, 8), 1 + 8)
    BY MarkedLen
  <2> QED BY <1>4, <2>1 DEF encodeVarint, get_varint_size
<1> QED BY <1>1, <1>2, <1>3, <1>4

\* decodeVarint takes as many bytes as get_varint_size says, wherever in a
\* payload the varint stands: the first byte alone tells it.
THEOREM DecodedSize ==
    ASSUME NEW u \in Nat, NEW s, NEW i, s[i] = encodeVarint(u)[1]
    PROVE  decodeVarint(s, i).size = get_varint_size(u)
<1>1. CASE u < Mark(1)
  BY <1>1 DEF encodeVarint, decodeVarint, get_varint_size
<1>2. ASSUME NEW m \in 1 .. 3, NEW v, NEW n \in Nat, encodeVarint(u) = <<Mark(m)>> \o BigEndian(v, n)
      PROVE  decodeVarint(s, i).size = 1 + Width[m]
  <2>1. encodeVarint(u)[1] = Mark(m)
    <3> DEFINE S == {Mark(m)} \cup {(v \div B^(n - k)) % B : k \in 1 .. n}
    <3>1. <<Mark(m)>> \in Seq(S) /\ BigEndian(v, n) \in Seq(S)
      BY DEF BigEndian
    <3> HIDE DEF S
    <3> QED BY <3>1, <1>2
  <2>2. ~(s[i] < Mark(1)) /\ s[i] - Mark(0) = m
    BY <2>1, BaseAssumption DEF Mark
  <2> QED BY <2>2 DEF decodeVarint
<1>3. CASE ~(u < Mark(1)) /\ u < B^2
  <2>1. encodeVarint(u) = <<Mark(1)>> \o BigEndian(u, 2)
    BY <1>3 DEF encodeVarint
  <2>2. decodeVarint(s, i).size = 1 + Width[1]
    BY <2>1, <1>2
  <2> QED BY <1>3, <2>2 DEF get_varint_size, Width
<1>4. CASE ~(u < Mark(1)) /\ ~(u < B^2) /\ u < B^4
  <2>1. encodeVarint(u) = <<Mark(2)>> \o BigEndian(u, 4)
    BY <1>4 DEF encodeVarint
  <2>2. decodeVarint(s, i).size = 1 + Width[2]
    BY <2>1, <1>2
  <2> QED BY <1>4, <2>2 DEF get_varint_size, Width
<1>5. CASE ~(u < Mark(1)) /\ ~(u < B^2) /\ ~(u < B^4)
  <2>1. encodeVarint(u) = <<Mark(3)>> \o BigEndian(u, 8)
    BY <1>5 DEF encodeVarint
  <2>2. decodeVarint(s, i).size = 1 + Width[3]
    BY <2>1, <1>2
  <2> QED BY <1>5, <2>2 DEF get_varint_size, Width
<1> QED BY <1>1, <1>3, <1>4, <1>5

\* The size of a varint is a number.
LEMMA SizeIsNat ==
    ASSUME NEW u
    PROVE  get_varint_size(u) \in Nat
BY DEF get_varint_size

\* encodeVarStr writes as many bytes as get_varstr_size says.
THEOREM StringSize ==
    ASSUME NEW str \in Seq(Byte)
    PROVE  /\ get_varstr_size(str) \in Nat
           /\ OfLength(encodeVarStr(str), get_varstr_size(str))
<1>1. OfLength(str, Len(str)) /\ Len(str) \in Nat
  BY DEF OfLength
<1>2. OfLength(encodeVarint(Len(str)), get_varint_size(Len(str)))
  BY EncodedSize
<1>3. get_varint_size(Len(str)) \in Nat
  BY SizeIsNat
<1>4. OfLength(encodeVarint(Len(str)) \o str, get_varint_size(Len(str)) + Len(str))
  BY <1>1, <1>2, <1>3, ConcatLen
<1> QED BY <1>1, <1>3, <1>4 DEF encodeVarStr, get_varstr_size

\* The same out of the middle of a payload.
LEMMA SliceReadsBack ==
    ASSUME NEW n \in 0 .. 8, NEW v \in 0 .. B^n - 1, NEW s, NEW i \in Int,
           \A k \in 1 .. n : s[i + k - 1] = BigEndian(v, n)[k]
    PROVE  Value(Slice(s, i, n)) = v
<1> DEFINE d == BigEndian(v, n)
           t == SubSeq(s, i, i + n - 1)
<1>1. v \in Nat /\ n \in Nat /\ B \in Int
  BY BaseAssumption, BytePowers
<1>2. d \in [1 .. n -> Byte]
  BY <1>1, BigEndianBytes
<1>3. \A k \in i .. i + n - 1 : s[k] = d[k - i + 1] /\ s[k] \in Byte
  <2> SUFFICES ASSUME NEW k \in i .. i + n - 1 PROVE s[k] = d[k - i + 1] /\ s[k] \in Byte
    OBVIOUS
  <2> DEFINE l == k - i + 1
  <2>1. l \in 1 .. n /\ i + l - 1 = k
    BY <1>1
  <2>2. s[i + l - 1] = d[l]
    BY <2>1
  <2> HIDE DEF d
  <2> QED BY <1>2, <2>1, <2>2
<1>4. Len(t) = n /\ \A k \in 1 .. n : t[k] = s[i + k - 1]
  <2> HIDE DEF d
  <2>1. i + n - 1 \in Int /\ (i + n - 1) - i + 1 = n
        /\ (IF i <= i + n - 1 THEN (i + n - 1) - i + 1 ELSE 0) = n
    BY <1>1
  <2>2. /\ Len(t) = (IF i <= i + n - 1 THEN (i + n - 1) - i + 1 ELSE 0)
        /\ \A k \in 1 .. (i + n - 1) - i + 1 : t[k] = s[i + k - 1]
    BY <1>3, <2>1, SubSeqProperties
  <2> QED BY <2>1, <2>2
<1>5. \A k \in 0 + 1 .. n : t[k] = d[k]
  BY <1>4
<1>6. AreInts(d, 0, n)
  <2> HIDE DEF d
  <2> QED BY <1>1, <1>2 DEF AreInts, Byte
<1>7. Numeral(t, B, 0, n) = Numeral(d, B, 0, n)
  <2> DEFINE z == 0
  <2>1. z \in Int /\ n \in Int /\ z <= n /\ AreInts(d, z, n) /\ \A k \in z + 1 .. n : t[k] = d[k]
    BY <1>1, <1>5, <1>6
  <2> HIDE DEF d, t, z
  <2>2. Numeral(t, B, z, n) = Numeral(d, B, z, n)
    BY <1>1, <2>1, NumeralSame
  <2> QED BY <2>2 DEF z
<1>8. Numeral(d, B, 0, n) = v
  <2>1. Len(d) = n
    BY <1>1, BigEndianLen, LengthOf
  <2> QED BY <2>1, BigEndianReadsBack DEF Value
<1> QED BY <1>4, <1>7, <1>8 DEF Value, Slice

LEMMA MarkedBytes ==
    ASSUME NEW x \in Byte, NEW v \in Nat, NEW n \in 0 .. 8
    PROVE  LET e == <<x>> \o BigEndian(v, n)
           IN  /\ e \in Seq(Byte) /\ Len(e) = 1 + n /\ e[1] = x
               /\ \A k \in 1 .. n : e[1 + k] = BigEndian(v, n)[k]
<1> DEFINE d == BigEndian(v, n)
<1>1. d \in [1 .. n -> Byte] /\ n \in Nat
  <2>1. d \in [1 .. n -> Byte]
    BY BigEndianBytes, Zenon
  <2> QED BY <2>1
<1>3. Len(d) = n
  BY <1>1, BigEndianLen, LengthOf
<1> HIDE DEF d
<1>2. <<x>> \in Seq(Byte) /\ Len(<<x>>) = 1
  OBVIOUS
<1>4. d \in Seq(Byte)
  BY <1>1
<1> QED BY <1>1, <1>2, <1>3, <1>4 DEF d

\* u is written as the marker m and the bytes that follow it.
MarkedBy(u, m) ==
    /\ get_varint_size(u) = 1 + Width[m]
    /\ encodeVarint(u)[1] = Mark(m)
    /\ u < B^Width[m]
    /\ \A k \in 1 .. Width[m] : encodeVarint(u)[1 + k] = BigEndian(u, Width[m])[k]

\* What encodeVarint writes, in each of its four cases.
LEMMA EncodedBytes ==
    ASSUME NEW u \in Number
    PROVE  /\ encodeVarint(u) \in Seq(Byte)
           /\ Len(encodeVarint(u)) = get_varint_size(u)
           /\ u < Mark(1) => encodeVarint(u) = <<u>> /\ get_varint_size(u) = 1
           /\ ~(u < Mark(1)) => \E m \in 1 .. 3 : MarkedBy(u, m)
<1>1. u \in Nat /\ B \in Nat /\ B > 3 /\ u < B^8
  BY BaseAssumption, BytePowers DEF Number
<1>2. Len(encodeVarint(u)) = get_varint_size(u)
  BY EncodedSize, SizeIsNat, LengthOf
<1>3. CASE u < Mark(1)
  <2>1. u \in Byte
    BY <1>1, <1>3 DEF Byte, Mark
  <2>2. encodeVarint(u) = <<u>> /\ get_varint_size(u) = 1
    BY <1>3 DEF encodeVarint, get_varint_size
  <2> QED BY <1>2, <1>3, <2>1, <2>2
<1>4. ASSUME NEW m \in 1 .. 3, ~(u < Mark(1)), u < B^Width[m],
             encodeVarint(u) = <<Mark(m)>> \o BigEndian(u, Width[m]),
             get_varint_size(u) = 1 + Width[m]
      PROVE  encodeVarint(u) \in Seq(Byte) /\ MarkedBy(u, m)
  <2>1. Mark(m) \in Byte
    BY <1>1 DEF Mark, Byte
  <2> DEFINE w == Width[m]
             e == <<Mark(m)>> \o BigEndian(u, w)
  <2>2. w \in 0 .. 8
    BY DEF Width
  <2> HIDE DEF w
  <2>3. /\ e \in Seq(Byte) /\ e[1] = Mark(m)
        /\ \A k \in 1 .. w : e[1 + k] = BigEndian(u, w)[k]
    BY <1>1, <2>1, <2>2, MarkedBytes, ZenonT(30)
  <2>4. encodeVarint(u) = e
    BY <1>4 DEF w
  <2> HIDE DEF e
  <2> QED BY <1>4, <2>3, <2>4 DEF w, MarkedBy
<1>5. CASE ~(u < Mark(1)) /\ u < B^2
  <2>1. encodeVarint(u) = <<Mark(1)>> \o BigEndian(u, 2) /\ get_varint_size(u) = 3
    BY <1>5 DEF encodeVarint, get_varint_size
  <2>2. Width[1] = 2
    BY DEF Width
  <2>3. u < B^2
    BY <1>1, <1>5
  <2>4. /\ u < B^Width[1] /\ get_varint_size(u) = 1 + Width[1]
        /\ encodeVarint(u) = <<Mark(1)>> \o BigEndian(u, Width[1])
    BY <2>1, <2>2, <2>3
  <2>5. encodeVarint(u) \in Seq(Byte) /\ MarkedBy(u, 1)
    BY <1>4, <1>5, <2>4
  <2> QED BY <1>2, <1>5, <2>5
<1>6. CASE ~(u < Mark(1)) /\ ~(u < B^2) /\ u < B^4
  <2>1. encodeVarint(u) = <<Mark(2)>> \o BigEndian(u, 4) /\ get_varint_size(u) = 5
    BY <1>6 DEF encodeVarint, get_varint_size
  <2>2. Width[2] = 4
    BY DEF Width
  <2>3. u < B^4
    BY <1>1, <1>6
  <2>4. /\ u < B^Width[2] /\ get_varint_size(u) = 1 + Width[2]
        /\ encodeVarint(u) = <<Mark(2)>> \o BigEndian(u, Width[2])
    BY <2>1, <2>2, <2>3
  <2>5. encodeVarint(u) \in Seq(Byte) /\ MarkedBy(u, 2)
    BY <1>4, <1>6, <2>4
  <2> QED BY <1>2, <1>6, <2>5
<1>7. CASE ~(u < Mark(1)) /\ ~(u < B^2) /\ ~(u < B^4)
  <2>1. encodeVarint(u) = <<Mark(3)>> \o BigEndian(u, 8) /\ get_varint_size(u) = 9
    BY <1>7 DEF encodeVarint, get_varint_size
  <2>2. Width[3] = 8
    BY DEF Width
  <2>3. u < B^8
    BY <1>1, <1>7
  <2>4. /\ u < B^Width[3] /\ get_varint_size(u) = 1 + Width[3]
        /\ encodeVarint(u) = <<Mark(3)>> \o BigEndian(u, Width[3])
    BY <2>1, <2>2, <2>3
  <2>5. encodeVarint(u) \in Seq(Byte) /\ MarkedBy(u, 3)
    BY <1>4, <1>7, <2>4
  <2> QED BY <1>2, <1>7, <2>5
<1> QED BY <1>3, <1>5, <1>6, <1>7

\* A number that encodeVarint has written, anywhere in a payload, is what
\* decodeVarint reads there, and it takes the bytes that get_varint_size counts.
THEOREM VarintReadsBack ==
    ASSUME NEW u \in Number, NEW s, NEW i \in Int,
           \A k \in 1 .. get_varint_size(u) : s[i + k - 1] = encodeVarint(u)[k]
    PROVE  decodeVarint(s, i) = [value |-> u, size |-> get_varint_size(u)]
<1>1. u \in Nat /\ B \in Nat /\ B > 3
  BY BaseAssumption, BytePowers DEF Number
<1>2. s[i] = encodeVarint(u)[1]
  <2>1. 1 \in 1 .. get_varint_size(u) /\ i + 1 - 1 = i
    BY DEF get_varint_size
  <2> QED BY <2>1
<1>3. CASE u < Mark(1)
  <2>1. encodeVarint(u) = <<u>> /\ get_varint_size(u) = 1
    BY <1>3, EncodedBytes
  <2> QED BY <1>2, <1>3, <2>1 DEF decodeVarint
<1>4. CASE ~(u < Mark(1))
  <2>6. PICK m \in 1 .. 3 : MarkedBy(u, m)
    BY <1>4, EncodedBytes
  <2>1. /\ get_varint_size(u) = 1 + Width[m]
        /\ encodeVarint(u)[1] = Mark(m)
        /\ u < B^Width[m]
        /\ \A k \in 1 .. Width[m] : encodeVarint(u)[1 + k] = BigEndian(u, Width[m])[k]
    BY <2>6 DEF MarkedBy
  <2>2. ~(s[i] < Mark(1)) /\ s[i] - Mark(0) = m
    BY <1>1, <1>2, <2>1 DEF Mark
  <2> DEFINE w == Width[m]
  <2>3. w \in 0 .. 8 /\ u \in 0 .. B^w - 1
    <3>1. w \in 0 .. 8
      BY DEF Width
    <3> QED BY <1>1, <2>1, <3>1, BytePowers
  <2>4. \A k \in 1 .. w : s[(i + 1) + k - 1] = BigEndian(u, w)[k]
    <3> SUFFICES ASSUME NEW k \in 1 .. w PROVE s[(i + 1) + k - 1] = BigEndian(u, w)[k]
      OBVIOUS
    <3>1. 1 + k \in 1 .. get_varint_size(u) /\ i + (1 + k) - 1 = (i + 1) + k - 1
      BY <2>1, <2>3
    <3>2. s[i + (1 + k) - 1] = encodeVarint(u)[1 + k]
      BY <3>1
    <3> QED BY <2>1, <3>1, <3>2
  <2>5. Value(Slice(s, i + 1, w)) = u
    <3> HIDE DEF w
    <3> QED BY <2>3, <2>4, SliceReadsBack
  <2> QED BY <2>1, <2>2, <2>5 DEF decodeVarint
<1> QED BY <1>3, <1>4
=============================================================================
