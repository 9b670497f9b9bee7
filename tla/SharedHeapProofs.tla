-------------------------- MODULE SharedHeapProofs --------------------------
(***************************************************************************)
(* Proofs about SharedHeap, for any number of blocks and lists and chains  *)
(* of any length.                                                          *)
(***************************************************************************)
EXTENDS SharedHeap, SequenceTheorems, TLAPS

-----------------------------------------------------------------------------
(* Sequences without duplicates *)

LEMMA RangeSeq ==
    ASSUME NEW S, NEW s \in Seq(S)
    PROVE  /\ Range(s) \subseteq S
           /\ \A i \in 1 .. Len(s) : s[i] \in Range(s)
           /\ \A b \in Range(s) : \E i \in 1 .. Len(s) : s[i] = b
           /\ s = <<>> <=> Range(s) = {}
           /\ s = <<>> <=> Len(s) = 0
  BY DEF Range

LEMMA AppendAsFunction ==
    ASSUME NEW S, NEW s \in Seq(S), NEW x \in S
    PROVE  Append(s, x) =
             [i \in 1 .. Len(s) + 1 |-> IF i = Len(s) + 1 THEN x ELSE s[i]]
<1> DEFINE t == Append(s, x)
           u == [i \in 1 .. Len(s) + 1 |-> IF i = Len(s) + 1 THEN x ELSE s[i]]
<1>1. /\ t \in Seq(S) /\ Len(t) = Len(s) + 1 /\ Len(s) \in Nat
      /\ \A i \in 1 .. Len(s) : t[i] = s[i]
      /\ t[Len(s) + 1] = x
  OBVIOUS
<1>2. u \in Seq(S) /\ Len(u) = Len(s) + 1
  BY <1>1
<1> HIDE DEF t
<1>3. \A i \in 1 .. Len(s) + 1 : t[i] = u[i]
  BY <1>1
<1> HIDE DEF u
<1>4. t = u
  BY <1>1, <1>2, <1>3, SeqEqual
<1> QED BY <1>4 DEF t, u

LEMMA AppendFresh ==
    ASSUME NEW S, NEW s \in Seq(S), NEW b \in S, IsInjective(s), b \notin Range(s)
    PROVE  /\ Append(s, b) \in Seq(S) /\ Append(s, b) # <<>>
           /\ Len(Append(s, b)) = Len(s) + 1
           /\ \A i \in 1 .. Len(s) : Append(s, b)[i] = s[i]
           /\ Append(s, b)[Len(s) + 1] = b
           /\ Range(Append(s, b)) = Range(s) \cup {b}
           /\ IsInjective(Append(s, b))
<1> DEFINE t == Append(s, b)
<1>1. /\ t \in Seq(S) /\ t # <<>> /\ Len(t) = Len(s) + 1
      /\ DOMAIN t = 1 .. Len(s) + 1 /\ DOMAIN s = 1 .. Len(s) /\ Len(s) \in Nat
      /\ \A i \in 1 .. Len(s) : t[i] = s[i]
      /\ t[Len(s) + 1] = b
  OBVIOUS
<1> HIDE DEF t
<1>2. Range(t) = Range(s) \cup {b}
  BY <1>1 DEF Range
<1>3. \A i \in 1 .. Len(s) : s[i] # b
  BY <1>1 DEF Range
<1>4. IsInjective(t)
  <2> SUFFICES ASSUME NEW i \in 1 .. Len(s) + 1, NEW j \in 1 .. Len(s) + 1, t[i] = t[j]
               PROVE  i = j
    BY <1>1 DEF IsInjective
  <2>1. CASE i \in 1 .. Len(s) /\ j \in 1 .. Len(s)
    BY <1>1, <2>1 DEF IsInjective
  <2>2. CASE i = Len(s) + 1 \/ j = Len(s) + 1
    BY <1>1, <1>3, <2>2
  <2> QED BY <1>1, <2>1, <2>2
<1> QED BY <1>1, <1>2, <1>4 DEF t

LEMMA ConsFresh ==
    ASSUME NEW S, NEW s \in Seq(S), NEW b \in S, IsInjective(s), b \notin Range(s)
    PROVE  /\ <<b>> \o s \in Seq(S) /\ <<b>> \o s # <<>>
           /\ Len(<<b>> \o s) = Len(s) + 1
           /\ (<<b>> \o s)[1] = b
           /\ \A i \in 2 .. Len(s) + 1 : (<<b>> \o s)[i] = s[i - 1]
           /\ Range(<<b>> \o s) = Range(s) \cup {b}
           /\ IsInjective(<<b>> \o s)
<1> DEFINE t == <<b>> \o s
<1>1. /\ t \in Seq(S) /\ t # <<>> /\ Len(t) = Len(s) + 1
      /\ DOMAIN t = 1 .. Len(s) + 1 /\ DOMAIN s = 1 .. Len(s) /\ Len(s) \in Nat
      /\ t[1] = b
      /\ \A i \in 2 .. Len(s) + 1 : t[i] = s[i - 1]
  OBVIOUS
<1> HIDE DEF t
<1>2. Range(t) = Range(s) \cup {b}
  <2>1. ASSUME NEW i \in 1 .. Len(s) + 1 PROVE t[i] \in Range(s) \cup {b}
    BY <1>1 DEF Range
  <2>2. ASSUME NEW i \in 1 .. Len(s) PROVE \E j \in 1 .. Len(s) + 1 : t[j] = s[i]
    <3>1. i + 1 \in 2 .. Len(s) + 1 /\ i + 1 \in 1 .. Len(s) + 1 /\ (i + 1) - 1 = i
      BY <1>1
    <3>2. t[i + 1] = s[i]
      BY <1>1, <3>1
    <3> QED BY <3>1, <3>2
  <2>3. 1 \in 1 .. Len(s) + 1 /\ t[1] = b
    BY <1>1
  <2>4. ASSUME NEW c \in Range(t) PROVE c \in Range(s) \cup {b}
    BY <1>1, <2>1 DEF Range
  <2>5. ASSUME NEW c \in Range(s) PROVE c \in Range(t)
    BY <1>1, <2>2 DEF Range
  <2>6. b \in Range(t)
    BY <1>1, <2>3 DEF Range
  <2> QED BY <2>4, <2>5, <2>6
<1>3. \A i \in 1 .. Len(s) : s[i] # b
  BY <1>1 DEF Range
<1>4. IsInjective(t)
  <2> SUFFICES ASSUME NEW i \in 1 .. Len(s) + 1, NEW j \in 1 .. Len(s) + 1, t[i] = t[j]
               PROVE  i = j
    BY <1>1 DEF IsInjective
  <2>1. CASE i # 1 /\ j # 1
    <3>1. i - 1 \in 1 .. Len(s) /\ j - 1 \in 1 .. Len(s) /\ s[i - 1] = s[j - 1]
      BY <1>1, <2>1
    <3>2. i - 1 = j - 1
      BY <1>1, <3>1 DEF IsInjective
    <3> QED BY <3>2
  <2>2. CASE i = 1 \/ j = 1
    BY <1>1, <1>3, <2>2
  <2> QED BY <2>1, <2>2
<1> QED BY <1>1, <1>2, <1>4 DEF t

LEMMA TailOf ==
    ASSUME NEW S, NEW s \in Seq(S), s # <<>>, IsInjective(s)
    PROVE  /\ Tail(s) \in Seq(S)
           /\ Len(Tail(s)) = Len(s) - 1
           /\ \A i \in 1 .. Len(s) - 1 : Tail(s)[i] = s[i + 1]
           /\ Range(Tail(s)) = Range(s) \ {s[1]}
           /\ IsInjective(Tail(s))
<1> DEFINE t == Tail(s)
<1>1. /\ t \in Seq(S) /\ Len(t) = Len(s) - 1 /\ Len(s) \in Nat /\ Len(s) >= 1
      /\ DOMAIN t = 1 .. Len(s) - 1 /\ DOMAIN s = 1 .. Len(s)
      /\ \A i \in 1 .. Len(s) - 1 : t[i] = s[i + 1]
  OBVIOUS
<1> HIDE DEF t
<1>2. ASSUME NEW i \in 1 .. Len(s) - 1
      PROVE  i + 1 \in 1 .. Len(s) /\ s[i + 1] \in Range(s) /\ s[i + 1] # s[1]
  <2>1. i + 1 \in 1 .. Len(s) /\ 1 \in 1 .. Len(s) /\ i + 1 # 1
    BY <1>1
  <2> QED BY <1>1, <2>1 DEF IsInjective, Range
<1>3. ASSUME NEW j \in 1 .. Len(s), s[j] # s[1]
      PROVE  \E i \in 1 .. Len(s) - 1 : t[i] = s[j]
  <2>1. j - 1 \in 1 .. Len(s) - 1 /\ j - 1 + 1 = j
    BY <1>1, <1>3
  <2> QED BY <1>1, <2>1
<1>4. Range(t) = Range(s) \ {s[1]}
  <2>1. ASSUME NEW b \in Range(t) PROVE b \in Range(s) \ {s[1]}
    BY <1>1, <1>2 DEF Range
  <2>2. ASSUME NEW b \in Range(s) \ {s[1]} PROVE b \in Range(t)
    <3>1. PICK j \in 1 .. Len(s) : s[j] = b
      BY <1>1 DEF Range
    <3> QED BY <1>1, <1>3, <3>1 DEF Range
  <2> QED BY <2>1, <2>2
<1>5. IsInjective(t)
  <2> SUFFICES ASSUME NEW i \in 1 .. Len(s) - 1, NEW j \in 1 .. Len(s) - 1, t[i] = t[j]
               PROVE  i = j
    BY <1>1 DEF IsInjective
  <2>1. i + 1 = j + 1
    BY <1>1, <1>2 DEF IsInjective
  <2> QED BY <2>1
<1> QED BY <1>1, <1>4, <1>5 DEF t

LEMMA FrontSeq ==
    ASSUME NEW S, NEW s \in Seq(S), s # <<>>
    PROVE  /\ SubSeq(s, 1, Len(s) - 1) \in Seq(S)
           /\ Len(SubSeq(s, 1, Len(s) - 1)) = Len(s) - 1
           /\ DOMAIN SubSeq(s, 1, Len(s) - 1) = 1 .. Len(s) - 1
           /\ \A i \in 1 .. Len(s) - 1 : SubSeq(s, 1, Len(s) - 1)[i] = s[i]
<1> DEFINE t == SubSeq(s, 1, Len(s) - 1)
<1>1. /\ Len(s) \in Nat /\ Len(s) >= 1 /\ DOMAIN s = 1 .. Len(s)
      /\ \A i \in 1 .. Len(s) : s[i] \in S
  OBVIOUS
<1>2. /\ Len(t) = Len(s) - 1 /\ DOMAIN t = 1 .. Len(s) - 1
      /\ \A i \in 1 .. Len(s) - 1 : t[i] = s[i]
  BY <1>1, SMTT(40)
<1>3. t \in Seq(S)
  BY <1>1, SMTT(40)
<1> QED BY <1>2, <1>3

LEMMA FrontOf ==
    ASSUME NEW S, NEW s \in Seq(S), s # <<>>, IsInjective(s)
    PROVE  /\ SubSeq(s, 1, Len(s) - 1) \in Seq(S)
           /\ Len(SubSeq(s, 1, Len(s) - 1)) = Len(s) - 1
           /\ \A i \in 1 .. Len(s) - 1 : SubSeq(s, 1, Len(s) - 1)[i] = s[i]
           /\ Range(SubSeq(s, 1, Len(s) - 1)) = Range(s) \ {s[Len(s)]}
           /\ IsInjective(SubSeq(s, 1, Len(s) - 1))
<1> DEFINE t == SubSeq(s, 1, Len(s) - 1)
<1>1. /\ t \in Seq(S) /\ Len(t) = Len(s) - 1 /\ Len(s) \in Nat /\ Len(s) >= 1
      /\ DOMAIN t = 1 .. Len(s) - 1 /\ DOMAIN s = 1 .. Len(s)
      /\ \A i \in 1 .. Len(s) - 1 : t[i] = s[i]
  <2>1. Len(s) \in Nat /\ Len(s) >= 1 /\ DOMAIN s = 1 .. Len(s)
    OBVIOUS
  <2> QED BY <2>1, FrontSeq
<1> HIDE DEF t
<1>2. ASSUME NEW i \in 1 .. Len(s) - 1
      PROVE  i \in 1 .. Len(s) /\ s[i] \in Range(s) /\ s[i] # s[Len(s)]
  <2>1. i \in 1 .. Len(s) /\ Len(s) \in 1 .. Len(s) /\ i # Len(s)
    BY <1>1
  <2> QED BY <1>1, <2>1 DEF IsInjective, Range
<1>3. ASSUME NEW j \in 1 .. Len(s), s[j] # s[Len(s)]
      PROVE  j \in 1 .. Len(s) - 1 /\ t[j] = s[j]
  BY <1>1, <1>3
<1>4. Range(t) = Range(s) \ {s[Len(s)]}
  <2>1. ASSUME NEW b \in Range(t) PROVE b \in Range(s) \ {s[Len(s)]}
    BY <1>1, <1>2 DEF Range
  <2>2. ASSUME NEW b \in Range(s) \ {s[Len(s)]} PROVE b \in Range(t)
    <3>1. PICK j \in 1 .. Len(s) : s[j] = b
      BY <1>1 DEF Range
    <3> QED BY <1>1, <1>3, <3>1 DEF Range
  <2> QED BY <2>1, <2>2
<1>5. IsInjective(t)
  BY <1>1, <1>2 DEF IsInjective
<1> QED BY <1>1, <1>4, <1>5 DEF t

-----------------------------------------------------------------------------
(* malloc, free and writing into a block *)

LEMMA MallocFacts ==
    ASSUME NEW b \in Fresh, NEW x, heap' = With(b, x)
    PROVE  /\ b \in Blocks /\ b \notin Allocated /\ Allocated' = Allocated \cup {b}
           /\ heap'[b] = x
           /\ \A c \in Allocated : heap'[c] = heap[c]
  BY DEF Fresh, With, Allocated

LEMMA StoreFacts ==
    ASSUME NEW b \in Allocated, NEW x, heap' = [heap EXCEPT ![b] = x]
    PROVE  /\ Allocated' = Allocated
           /\ heap'[b] = x
           /\ \A c \in Allocated \ {b} : heap'[c] = heap[c]
  BY DEF Allocated

LEMMA FreeFacts ==
    ASSUME NEW S, S \subseteq Allocated, Free(S), freedTwice = FALSE
    PROVE  /\ Allocated' = Allocated \ S
           /\ \A c \in Allocated \ S : heap'[c] = heap[c]
           /\ freedTwice' = FALSE
  BY DEF Free, Restrict, Allocated

-----------------------------------------------------------------------------
(* The invariant of the list *)

\* The text of every node that has one, and the copy.
TextsThere ==
    /\ \A b \in Texted : heap[b].str \in Allocated /\ heap[heap[b].str] \in Texts
    /\ copy # Null => copy \in Allocated /\ heap[copy] \in Texts

\* Where each function is in the list.
ListPlaces ==
    /\ listPc = "add" =>
          item \in Items /\ IF nodes = <<>> THEN tmp = Null ELSE tmp \in Range(nodes)
    /\ listPc = "string" =>
          item \in Items /\ nodes # <<>> /\ tmp = nodes[Len(nodes)]
    /\ listPc = "free node" => nodes # <<>>
    /\ Freeing => count = 0
    /\ listPc = "size" =>
          tmp = IF count = Len(nodes) THEN Null ELSE nodes[count + 1]
    /\ listPc = "foreach" =>
          /\ Len(seen) <= Len(nodes)
          /\ \A i \in 1 .. Len(seen) : seen[i] = heap[heap[nodes[i]].str].text
          /\ tmp = IF Len(seen) = Len(nodes) THEN Null ELSE nodes[Len(seen) + 1]
    /\ copy # Null =>
          /\ listPc \in {"none", "add", "string"} /\ Length > 0
          /\ heap[copy].text = heap[heap[nodes[1]].str].text

ListInv == ListTypeOK /\ ListLinked /\ ListApart /\ TextsThere /\ ListPlaces

HeapSafe == Allocated \subseteq Blocks /\ freedTwice = FALSE

\* What the other thread may rely on.
KeepsOthers(mine) == \A b \in Allocated \ mine : b \in Allocated' /\ heap'[b] = heap[b]
ListContract ==
    /\ KeepsOthers(ListOwned)
    /\ ListOwned' \subseteq ListOwned \cup Fresh
    /\ Allocated' = (Allocated \ ListOwned) \cup ListOwned'
    /\ freedTwice' = FALSE

-----------------------------------------------------------------------------
(* The invariant of the parser *)

\* Where each function is with its packet and its line.
ParserPlaces ==
    /\ parserPc \in {"none", "validate", "validated", "split", "free line", "tokens",
                     "code", "hop", "clean", "parsed", "data", "pack", "free", "crashed"}
    /\ parserPc \in {"validate", "validated", "split", "free line", "tokens",
                     "code", "hop", "clean", "parsed", "data", "pack"} => packet # Null
    /\ packet # Null => heap[packet].next = Null
    /\ parserPc \in {"free", "crashed"} => packet = Null
    /\ parserPc \in {"validate", "free line"} => work # Null
    /\ parserPc \notin {"validate", "free line", "pack"} => work = Null
    /\ work # Null => work \in Allocated

\* What the packet holds while its line is parsed.
ParserFields ==
    /\ parserPc \in {"split", "free line", "tokens"} => heap[packet] = Cleared
    /\ parserPc = "code" => Len(line) \in 1 .. 3 /\ heap[packet].hop_count = "unset"
    /\ parserPc = "hop" =>
          /\ Len(line) \in 2 .. 3
          /\ heap[packet].code = "read"
    /\ parserPc = "clean" =>
          IF Len(line) \in 1 .. 3
          THEN ret = 0 =>
                  /\ heap[packet].code = "read"
                  /\ heap[packet].hop_count = IF Len(line) = 1 THEN "unset" ELSE "read"
          ELSE heap[packet] = Cleared

ParserInv == ParserTypeOK /\ PacketsLinked /\ PacketsApart /\ ParserPlaces
             /\ ParserFields /\ ParsedFields

ParserContract ==
    /\ KeepsOthers(ParserOwned)
    /\ ParserOwned' \subseteq ParserOwned \cup Fresh
    /\ Allocated' = (Allocated \ ParserOwned) \cup ParserOwned'
    /\ freedTwice' = FALSE

-----------------------------------------------------------------------------
\* The heap is what the two threads own.
HeapInv ==
    /\ HeapSafe
    /\ Allocated = ListOwned \cup ParserOwned
    /\ ListOwned \cap ParserOwned = {}

IInv == HeapInv /\ ListInv /\ ParserInv

-----------------------------------------------------------------------------
(* The list *)

USE NullAssumption

\* The nodes and their texts, one by one.
LEMMA ListFacts ==
    ASSUME ListInv
    PROVE  /\ nodes \in Seq(Blocks) /\ Len(nodes) \in Nat
           /\ \A i \in 1 .. Len(nodes) : nodes[i] \in Range(nodes)
           /\ \A b \in Range(nodes) : b \in Allocated /\ b \in Blocks /\ heap[b] \in Nodes
           /\ \A b \in Texted : b \in Range(nodes) /\ heap[b].str \in Strings
           /\ Strings \subseteq Allocated /\ \A s \in Strings : heap[s] \in Texts
           /\ ListOwned \subseteq Allocated
           /\ nodes # <<>> => nodes[1] \in Range(nodes)
<1>1. /\ nodes \in Seq(Blocks) /\ Len(nodes) \in Nat
      /\ \A i \in 1 .. Len(nodes) : nodes[i] \in Range(nodes)
      /\ \A b \in Range(nodes) : \E i \in 1 .. Len(nodes) : nodes[i] = b
      /\ nodes # <<>> => 1 \in 1 .. Len(nodes)
  <2>0. nodes \in Seq(Blocks)
    BY DEF ListInv, ListTypeOK
  <2>1. nodes \in Seq(Blocks) /\ Len(nodes) \in Nat
    BY <2>0
  <2>2. /\ \A i \in 1 .. Len(nodes) : nodes[i] \in Range(nodes)
        /\ \A b \in Range(nodes) : \E i \in 1 .. Len(nodes) : nodes[i] = b
        /\ nodes = <<>> <=> Len(nodes) = 0
    BY <2>1, RangeSeq
  <2> QED BY <2>1, <2>2
<1>2. ASSUME NEW b \in Range(nodes)
      PROVE  b \in Allocated /\ b \in Blocks /\ heap[b] \in Nodes
  <2>1. PICK i \in 1 .. Len(nodes) : nodes[i] = b
    BY <1>1
  <2>2. \A j \in 1 .. Len(nodes) : nodes[j] \in Allocated /\ heap[nodes[j]] \in Nodes
    BY DEF ListInv, ListTypeOK
  <2>3. b \in Blocks
    BY <1>1, <2>1
  <2> QED BY <2>1, <2>2, <2>3
<1>3. \A b \in Texted : b \in Range(nodes) /\ heap[b].str \in Strings
  BY DEF Texted, Strings
<1>4. Strings \subseteq Allocated /\ \A s \in Strings : heap[s] \in Texts
  BY DEF Strings, ListInv, TextsThere
<1>5. ListOwned \subseteq Allocated
  BY <1>2, <1>4 DEF ListOwned, ListInv, TextsThere
<1> QED BY <1>1, <1>2, <1>3, <1>4, <1>5

\* The nodes whose texts are told.
LEMMA ToldTexted ==
    ASSUME ListInv, ~Freeing, NEW i \in 1 .. Length
    PROVE  i \in 1 .. Len(nodes) /\ nodes[i] \in Texted
<1>1. i \in 1 .. Len(nodes) /\ nodes[i] \in Range(nodes)
  BY ListFacts DEF Length
<1>2. CASE listPc = "string"
  <2>1. i # Len(nodes) /\ Len(nodes) \in 1 .. Len(nodes) /\ tmp = nodes[Len(nodes)]
    BY <1>1, <1>2, ListFacts DEF Length, ListInv, ListPlaces
  <2>2. nodes[i] # tmp
    BY <1>1, <2>1, ListFacts DEF ListInv, ListApart, IsInjective
  <2> QED BY <1>1, <1>2, <2>2 DEF Texted
<1>3. CASE listPc # "string"
  BY <1>1, <1>3 DEF Texted, Freeing
<1> QED BY <1>2, <1>3

\* The other thread's steps: what the list owns does not change.
LEMMA ListFrame ==
    ASSUME ListInv, UNCHANGED listVars,
           \A b \in ListOwned : b \in Allocated' /\ heap'[b] = heap[b]
    PROVE  ListInv' /\ ListOwned' = ListOwned /\ Contents' = Contents
<1>1. /\ nodes' = nodes /\ list' = list /\ tmp' = tmp /\ copy' = copy /\ listPc' = listPc
      /\ item' = item /\ count' = count /\ seen' = seen
      /\ Range(nodes)' = Range(nodes) /\ Texted' = Texted /\ Freeing' = Freeing
      /\ Length' = Length
  BY DEF listVars, Texted, Freeing, Length
<1>2. \A b \in Range(nodes) : b \in Allocated' /\ heap'[b] = heap[b]
  BY DEF ListOwned
<1>3. \A s \in Strings : s \in Allocated' /\ heap'[s] = heap[s]
  BY DEF ListOwned
<1>4. copy # Null => copy \in Allocated' /\ heap'[copy] = heap[copy]
  BY DEF ListOwned
<1>5. \A b \in Texted : heap'[b].str = heap[b].str /\ heap'[heap'[b].str] = heap[heap[b].str]
                        /\ heap[b].str \in Strings
  BY <1>2, <1>3, ListFacts
<1>6. Strings' = Strings
  BY <1>1, <1>5 DEF Strings
<1>7. ListOwned' = ListOwned
  BY <1>1, <1>6 DEF ListOwned
<1>8. Contents' = Contents
  <2>1. CASE Freeing
    BY <1>1, <2>1 DEF Contents, Length
  <2>2. CASE ~Freeing
    <3>1. \A i \in 1 .. Length :
            heap'[heap'[nodes[i]].str].text = heap[heap[nodes[i]].str].text
      BY <1>5, <2>2, ToldTexted
    <3> QED BY <1>1, <3>1 DEF Contents
  <2> QED BY <2>1, <2>2
<1>9. ListTypeOK'
  BY <1>1, <1>2, ListFacts DEF ListInv, ListTypeOK
<1>10. ListLinked'
  BY <1>1, <1>2, ListFacts DEF ListInv, ListLinked
<1>11. ListApart'
  BY <1>1, <1>5, <1>6 DEF ListInv, ListApart
<1>12. TextsThere'
  BY <1>1, <1>3, <1>4, <1>5 DEF ListInv, TextsThere
<1>13. ListPlaces'
  <2>1. listPc = "foreach" =>
          \A i \in 1 .. Len(seen) : seen[i] = heap'[heap'[nodes[i]].str].text
    <3> SUFFICES ASSUME listPc = "foreach", NEW i \in 1 .. Len(seen)
                 PROVE  seen[i] = heap'[heap'[nodes[i]].str].text
      OBVIOUS
    <3>1. i \in 1 .. Length /\ ~Freeing
      BY ListFacts DEF ListInv, ListPlaces, ListTypeOK, Length, Freeing
    <3> QED BY <1>5, <3>1, ToldTexted DEF ListInv, ListPlaces
  <2>2. copy # Null => heap'[copy].text = heap'[heap'[nodes[1]].str].text
    <3> SUFFICES ASSUME copy # Null
                 PROVE  heap'[copy].text = heap'[heap'[nodes[1]].str].text
      OBVIOUS
    <3>0. Length \in Int
      BY ListFacts DEF Length
    <3>1. Length > 0 /\ ~Freeing
      BY DEF ListInv, ListPlaces, Freeing
    <3>2. 1 \in 1 .. Length
      BY <3>0, <3>1
    <3> QED BY <1>4, <1>5, <3>1, <3>2, ToldTexted DEF ListInv, ListPlaces
  <2> QED BY <1>1, <2>1, <2>2 DEF ListInv, ListPlaces
<1> QED BY <1>7, <1>8, <1>9, <1>10, <1>11, <1>12, <1>13 DEF ListInv

\* Steps that change neither the heap nor the list.
LEMMA ListQuiet ==
    ASSUME ListInv, HeapSafe, UNCHANGED <<heap, freedTwice, list, copy, nodes>>,
           ~Freeing, ~Freeing', listPc # "string", listPc' # "string"
    PROVE  /\ ListLinked' /\ ListApart' /\ TextsThere' /\ ListContract
           /\ Length' = Length /\ Contents' = Contents
<1>1. /\ heap' = heap /\ nodes' = nodes /\ list' = list /\ copy' = copy
      /\ Allocated' = Allocated /\ Range(nodes)' = Range(nodes)
  BY DEF Allocated
<1>2. Texted' = Texted /\ Length' = Length
  BY <1>1 DEF Texted, Length, Freeing
<1>3. Strings' = Strings
  BY <1>1, <1>2 DEF Strings
<1>4. ListOwned' = ListOwned
  BY <1>1, <1>3 DEF ListOwned
<1>5. ListLinked'
  BY <1>1 DEF ListInv, ListLinked
<1>6. ListApart' /\ TextsThere'
  BY <1>1, <1>2, <1>3 DEF ListInv, ListApart, TextsThere
<1>7. ListContract
  BY <1>1, <1>4, ListFacts DEF ListContract, KeepsOthers, HeapSafe
<1>8. Contents' = Contents
  BY <1>1, <1>2 DEF Contents
<1> QED BY <1>2, <1>5, <1>6, <1>7, <1>8

\* Where a node leads.
LEMMA NextNode ==
    ASSUME ListInv, NEW i \in 1 .. Len(nodes)
    PROVE  /\ heap[nodes[i]].next = IF i = Len(nodes) THEN Null ELSE nodes[i + 1]
           /\ heap[nodes[i]].next \in Range(nodes) \cup {Null}
           /\ Null \notin Range(nodes)
<1>1. heap[nodes[i]].next = IF i = Len(nodes) THEN Null ELSE nodes[i + 1]
  BY DEF ListInv, ListLinked
<1>2. i # Len(nodes) => i + 1 \in 1 .. Len(nodes)
  BY ListFacts
<1> QED BY <1>1, <1>2, ListFacts

LEMMA CallAddKeeps == ListInv /\ HeapSafe /\ CallAdd => ListInv' /\ ListContract
<1> SUFFICES ASSUME ListInv, HeapSafe, CallAdd PROVE ListInv' /\ ListContract
  OBVIOUS
<1>1. /\ listPc = "none" /\ listPc' = "add" /\ item' \in Items /\ tmp' = list
      /\ count' = 0 /\ seen' = <<>>
      /\ UNCHANGED <<heap, freedTwice, list, copy, nodes>>
  BY DEF CallAdd, Forget
<1>2. ~Freeing /\ ~Freeing'
  BY <1>1 DEF Freeing
<1>3. /\ ListLinked' /\ ListApart' /\ TextsThere' /\ ListContract /\ Length' = Length
  BY <1>1, <1>2, ListQuiet
<1>4. ListTypeOK'
  <2>1. <<>> \in Seq(Items)
    OBVIOUS
  <2> QED BY <1>1, <2>1, ListFacts DEF ListInv, ListTypeOK, Allocated
<1>5. list = IF nodes = <<>> THEN Null ELSE nodes[1]
  BY <1>2 DEF ListInv, ListLinked
<1>6. ListPlaces'
  BY <1>1, <1>3, <1>5, ListFacts DEF ListInv, ListPlaces
<1> QED BY <1>3, <1>4, <1>6 DEF ListInv

LEMMA GetLastNodeKeeps == ListInv /\ HeapSafe /\ GetLastNode => ListInv' /\ ListContract
<1> SUFFICES ASSUME ListInv, HeapSafe, GetLastNode PROVE ListInv' /\ ListContract
  OBVIOUS
<1>1. /\ listPc = "add" /\ tmp # Null /\ tmp' = heap[tmp].next /\ tmp' # Null
      /\ UNCHANGED <<heap, freedTwice, list, listPc, item, count, seen, copy, nodes>>
  BY DEF GetLastNode
<1>2. ~Freeing /\ ~Freeing'
  BY <1>1 DEF Freeing
<1>3. /\ ListLinked' /\ ListApart' /\ TextsThere' /\ ListContract /\ Length' = Length
  BY <1>1, <1>2, ListQuiet
<1>4. nodes # <<>> /\ tmp \in Range(nodes)
  BY <1>1 DEF ListInv, ListPlaces
<1>5. tmp' \in Range(nodes)
  <2>1. PICK i \in 1 .. Len(nodes) : nodes[i] = tmp
    BY <1>4, ListFacts, RangeSeq
  <2> QED BY <1>1, <2>1, NextNode
<1>6. ListTypeOK'
  BY <1>1, <1>5, ListFacts DEF ListInv, ListTypeOK, Allocated
<1>7. ListPlaces'
  BY <1>1, <1>2, <1>3, <1>4, <1>5 DEF ListInv, ListPlaces
<1> QED BY <1>3, <1>6, <1>7 DEF ListInv

LEMMA CallWalkKeeps == ListInv /\ HeapSafe /\ CallWalk => ListInv' /\ ListContract
<1> SUFFICES ASSUME ListInv, HeapSafe, CallWalk PROVE ListInv' /\ ListContract
  OBVIOUS
<1>1. /\ listPc = "none" /\ copy = Null /\ listPc' \in {"size", "foreach"} /\ tmp' = list
      /\ count' = 0 /\ seen' = <<>>
      /\ UNCHANGED <<heap, freedTwice, list, item, copy, nodes>>
  BY DEF CallWalk, Forget, FirstNode
<1>2. ~Freeing /\ ~Freeing'
  BY <1>1 DEF Freeing
<1>3. /\ ListLinked' /\ ListApart' /\ TextsThere' /\ ListContract
  BY <1>1, <1>2, ListQuiet
<1>4. seen' \in Seq(Items) /\ Len(seen') = 0 /\ count' = 0 /\ 0 <= Len(nodes)
  <2>1. <<>> \in Seq(Items) /\ Len(<<>>) = 0
    OBVIOUS
  <2> QED BY <1>1, <2>1, ListFacts
<1>5. ListTypeOK'
  <2>1. CASE listPc' = "size"
    BY <1>1, <1>4, <2>1 DEF ListInv, ListTypeOK, Allocated
  <2>2. CASE listPc' = "foreach"
    BY <1>1, <1>4, <2>2 DEF ListInv, ListTypeOK, Allocated
  <2> QED BY <1>1, <2>1, <2>2
<1>6. list = IF Len(nodes) = 0 THEN Null ELSE nodes[0 + 1]
  BY <1>2, ListFacts DEF ListInv, ListLinked
<1>7. \A i \in 1 .. Len(seen') : FALSE
  BY <1>4
<1>8. ListPlaces'
  <2>1. CASE listPc' = "size"
    BY <1>1, <1>4, <1>6, <2>1 DEF ListPlaces
  <2>2. CASE listPc' = "foreach"
    BY <1>1, <1>4, <1>6, <1>7, <2>2, ListFacts DEF ListPlaces
  <2> QED BY <1>1, <2>1, <2>2
<1> QED BY <1>3, <1>5, <1>8 DEF ListInv

LEMMA WalkOnKeeps == ListInv /\ HeapSafe /\ WalkOn => ListInv' /\ ListContract
<1> SUFFICES ASSUME ListInv, HeapSafe, WalkOn PROVE ListInv' /\ ListContract
  OBVIOUS
<1>1. /\ listPc \in {"size", "foreach"} /\ tmp # Null /\ tmp' = heap[tmp].next
      /\ UNCHANGED <<heap, freedTwice, list, listPc, item, copy, nodes>>
  BY DEF WalkOn
<1>2. ~Freeing /\ ~Freeing' /\ copy = Null
  BY <1>1 DEF Freeing, ListInv, ListPlaces
<1>3. /\ ListLinked' /\ ListApart' /\ TextsThere' /\ ListContract
  BY <1>1, <1>2, ListQuiet
<1>4. CASE listPc = "size"
  <2>1. count' = count + 1 /\ seen' = seen
    BY <1>4 DEF WalkOn
  <2>2. count \in Nat /\ count < Len(nodes) /\ tmp = nodes[count + 1]
    BY <1>1, <1>4, ListFacts DEF ListInv, ListPlaces, ListTypeOK
  <2>3. count + 1 \in 1 .. Len(nodes)
    BY <2>2, ListFacts
  <2>4. /\ tmp' = IF count' = Len(nodes) THEN Null ELSE nodes[count' + 1]
        /\ tmp' \in Range(nodes) \cup {Null}
    BY <1>1, <2>1, <2>2, <2>3, NextNode
  <2>5. count' \in Nat /\ count' <= Len(nodes)
    BY <2>1, <2>2, <2>3
  <2>6. ListTypeOK'
    BY <1>1, <2>1, <2>4, <2>5, ListFacts DEF ListInv, ListTypeOK, Allocated
  <2>7. ListPlaces'
    BY <1>1, <1>2, <1>4, <2>4 DEF ListInv, ListPlaces
  <2> QED BY <1>3, <2>6, <2>7 DEF ListInv
<1>5. CASE listPc = "foreach"
  <2>1. count' = count /\ seen' = Append(seen, heap[heap[tmp].str].text)
    BY <1>5 DEF WalkOn
  <2>2. seen \in Seq(Items) /\ Len(seen) \in Nat
    <3>1. seen \in Seq(Items)
      BY DEF ListInv, ListTypeOK
    <3> QED BY <3>1
  <2>3. Len(seen) < Len(nodes) /\ tmp = nodes[Len(seen) + 1]
    BY <1>1, <1>5, <2>2, ListFacts DEF ListInv, ListPlaces
  <2>4. Len(seen) + 1 \in 1 .. Len(nodes)
    BY <2>2, <2>3, ListFacts
  <2>5. heap[heap[tmp].str].text \in Items
    <3>1. tmp \in Texted
      BY <1>5, <2>3, <2>4, ListFacts DEF Texted
    <3> QED BY <3>1, ListFacts DEF Texts
  <2>6. /\ seen' \in Seq(Items) /\ Len(seen') = Len(seen) + 1
        /\ \A i \in 1 .. Len(seen) : seen'[i] = seen[i]
        /\ seen'[Len(seen) + 1] = heap[heap[tmp].str].text
    BY <2>1, <2>2, <2>5
  <2>7. /\ tmp' = IF Len(seen') = Len(nodes) THEN Null ELSE nodes[Len(seen') + 1]
        /\ tmp' \in Range(nodes) \cup {Null}
    BY <1>1, <2>3, <2>4, <2>6, NextNode
  <2>8. ListTypeOK'
    BY <1>1, <2>1, <2>6, <2>7, ListFacts DEF ListInv, ListTypeOK, Allocated
  <2>9. \A i \in 1 .. Len(seen') : seen'[i] = heap[heap[nodes[i]].str].text
    <3>1. \A i \in 1 .. Len(seen) : seen[i] = heap[heap[nodes[i]].str].text
      BY <1>5 DEF ListInv, ListPlaces
    <3> QED BY <2>2, <2>3, <2>6, <3>1
  <2>10. Len(seen') <= Len(nodes)
    BY <2>4, <2>6
  <2>11. ListPlaces'
    BY <1>1, <1>2, <1>5, <2>7, <2>9, <2>10 DEF ListPlaces
  <2> QED BY <1>3, <2>8, <2>11 DEF ListInv
<1> QED BY <1>1, <1>4, <1>5

LEMMA WalkEndKeeps == ListInv /\ HeapSafe /\ WalkEnd => ListInv' /\ ListContract
<1> SUFFICES ASSUME ListInv, HeapSafe, WalkEnd PROVE ListInv' /\ ListContract
  OBVIOUS
<1>1. /\ listPc \in {"size", "foreach"} /\ tmp = Null /\ listPc' = "none"
      /\ UNCHANGED <<heap, freedTwice, list, item, tmp, count, seen, copy, nodes>>
  BY DEF WalkEnd
<1>2. ~Freeing /\ ~Freeing' /\ copy = Null
  BY <1>1 DEF Freeing, ListInv, ListPlaces
<1>3. /\ ListLinked' /\ ListApart' /\ TextsThere' /\ ListContract
  BY <1>1, <1>2, ListQuiet
<1>4. ListTypeOK'
  BY <1>1 DEF ListInv, ListTypeOK, Allocated
<1>5. ListPlaces'
  BY <1>1, <1>2 DEF ListPlaces
<1> QED BY <1>3, <1>4, <1>5 DEF ListInv

LEMMA AddFirstKeeps == ListInv /\ HeapSafe /\ AddFirst => ListInv' /\ ListContract
<1> SUFFICES ASSUME ListInv, HeapSafe, AddFirst PROVE ListInv' /\ ListContract
  OBVIOUS
<1>1. /\ listPc = "add" /\ tmp = Null /\ listPc' = "string"
      /\ UNCHANGED <<item, count, seen, copy>>
  BY DEF AddFirst
<1>2. PICK b \in Fresh : /\ heap' = With(b, Node(Null)) /\ freedTwice' = freedTwice
                         /\ list' = b /\ tmp' = b /\ nodes' = <<b>>
  BY DEF AddFirst, Malloc
<1>3. /\ b \in Blocks /\ b \notin Allocated /\ Allocated' = Allocated \cup {b}
      /\ heap'[b] = Node(Null)
      /\ \A c \in Allocated : heap'[c] = heap[c]
  BY <1>2, MallocFacts
<1>4. nodes = <<>> /\ copy = Null /\ item \in Items
  <2>1. item \in Items /\ IF nodes = <<>> THEN tmp = Null ELSE tmp \in Range(nodes)
    BY <1>1 DEF ListInv, ListPlaces
  <2>2. Null \notin Range(nodes)
    BY ListFacts
  <2>3. nodes = <<>>
    BY <1>1, <2>1, <2>2
  <2>4. Length = Len(nodes)
    BY <1>1 DEF Length, Freeing
  <2>5. Length = 0
    BY <2>3, <2>4
  <2>6. copy # Null => Length > 0
    BY DEF ListInv, ListPlaces
  <2> QED BY <2>1, <2>3, <2>5, <2>6
<1>5. /\ nodes' \in Seq(Blocks) /\ Len(nodes') = 1 /\ nodes'[1] = b /\ nodes' # <<>>
      /\ Range(nodes)' = {b} /\ IsInjective(nodes')
  BY <1>2, <1>3 DEF Range, IsInjective
<1>6. Texted' = {} /\ Strings' = {}
  BY <1>1, <1>2, <1>5 DEF Texted, Strings
<1>7. ListOwned = {} /\ ListOwned' = {b}
  <2>1. Range(nodes) = {} /\ Texted = {}
    BY <1>1, <1>4 DEF Range, Texted
  <2> QED BY <1>1, <1>4, <1>5, <1>6, <2>1 DEF ListOwned, Strings
<1>8. heap'[b] \in Nodes /\ heap'[b].next = Null
  BY <1>3 DEF Nodes, Node
<1>9. ListTypeOK'
  <2>0. count <= Len(nodes) /\ count \in Nat /\ Len(nodes) = 0
    BY <1>4 DEF ListInv, ListTypeOK
  <2>1. count <= 1 /\ count \in Nat
    BY <2>0
  <2> QED BY <1>1, <1>2, <1>3, <1>5, <1>8, <2>1 DEF ListInv, ListTypeOK
<1>10. ListLinked'
  <2>1. ~Freeing'
    BY <1>1 DEF Freeing
  <2> QED BY <1>2, <1>5, <1>8, <2>1 DEF ListLinked
<1>11. ListApart' /\ TextsThere'
  BY <1>1, <1>4, <1>5, <1>6, <1>3 DEF ListApart, TextsThere
<1>12. ListPlaces'
  BY <1>1, <1>2, <1>4, <1>5 DEF ListPlaces, Freeing
<1>13. ListContract
  BY <1>2, <1>3, <1>7 DEF ListContract, KeepsOthers, HeapSafe
<1> QED BY <1>9, <1>10, <1>11, <1>12, <1>13 DEF ListInv

LEMMA AddLastKeeps == ListInv /\ HeapSafe /\ AddLast => ListInv' /\ ListContract
<1> SUFFICES ASSUME ListInv, HeapSafe, AddLast PROVE ListInv' /\ ListContract
  OBVIOUS
<1>1. /\ listPc = "add" /\ tmp # Null /\ heap[tmp].next = Null /\ listPc' = "string"
      /\ UNCHANGED <<freedTwice, list, item, count, seen, copy>>
  BY DEF AddLast
<1>2. PICK b \in Fresh : /\ heap' = [With(b, Node(Null)) EXCEPT ![tmp].next = b]
                         /\ tmp' = b /\ nodes' = Append(nodes, b)
  BY DEF AddLast
<1>3. nodes # <<>> /\ tmp \in Range(nodes) /\ item \in Items
  BY <1>1 DEF ListInv, ListPlaces
<1>4. tmp \in Allocated /\ heap[tmp] \in Nodes
  BY <1>3, ListFacts
<1>5. /\ b \in Blocks /\ b \notin Allocated /\ Allocated' = Allocated \cup {b}
      /\ heap'[b] = Node(Null)
      /\ heap'[tmp] \in Nodes /\ heap'[tmp].next = b /\ heap'[tmp].str = heap[tmp].str
      /\ \A c \in Allocated \ {tmp} : heap'[c] = heap[c]
  <2>1. b \in Blocks /\ b \notin Allocated /\ tmp # b
    BY <1>4 DEF Fresh
  <2>2. /\ Allocated' = Allocated \cup {b}
        /\ heap'[b] = Node(Null)
        /\ heap'[tmp] = [heap[tmp] EXCEPT !.next = b]
        /\ \A c \in Allocated \ {tmp} : heap'[c] = heap[c]
    BY <1>2, <1>4, <2>1 DEF With, Allocated
  <2> QED BY <1>4, <2>1, <2>2 DEF Nodes
<1>6. tmp = nodes[Len(nodes)] /\ Len(nodes) \in 1 .. Len(nodes)
  <2>1. PICK i \in 1 .. Len(nodes) : nodes[i] = tmp
    BY <1>3, ListFacts, RangeSeq
  <2>2. i = Len(nodes)
    <3>1. i # Len(nodes) => i + 1 \in 1 .. Len(nodes)
      BY ListFacts
    <3> QED BY <1>1, <2>1, <3>1, NextNode, ListFacts
  <2> QED BY <2>1, <2>2
<1>7. b \notin Range(nodes) /\ IsInjective(nodes)
  BY <1>5, ListFacts DEF ListInv, ListApart
<1>8. /\ nodes' \in Seq(Blocks) /\ nodes' # <<>> /\ Len(nodes') = Len(nodes) + 1
      /\ \A i \in 1 .. Len(nodes) : nodes'[i] = nodes[i]
      /\ nodes'[Len(nodes) + 1] = b
      /\ Range(nodes)' = Range(nodes) \cup {b} /\ IsInjective(nodes')
  BY <1>2, <1>5, <1>7, ListFacts, AppendFresh
<1>9. Texted = Range(nodes) /\ Texted' = Range(nodes)
  BY <1>1, <1>2, <1>7, <1>8 DEF Texted
<1>10. \A c \in Texted : heap'[c].str = heap[c].str /\ heap'[c] \in Nodes
  BY <1>5, <1>9, ListFacts
<1>11. Strings' = Strings
  BY <1>9, <1>10 DEF Strings
<1>12. \A s \in Strings : s \in Allocated' /\ heap'[s] = heap[s]
  BY <1>3, <1>5, ListFacts DEF ListInv, ListApart
<1>13. copy # Null => copy \in Allocated' /\ heap'[copy] = heap[copy]
  BY <1>3, <1>5 DEF ListInv, ListApart, TextsThere
<1>14. heap'[b] \in Nodes /\ heap'[b].next = Null
  BY <1>5 DEF Nodes, Node
<1>15. ListTypeOK'
  <2>1. \A i \in 1 .. Len(nodes') : nodes'[i] \in Allocated' /\ heap'[nodes'[i]] \in Nodes
    <3>1. ASSUME NEW i \in 1 .. Len(nodes')
          PROVE  nodes'[i] \in Allocated' /\ heap'[nodes'[i]] \in Nodes
      <4>1. CASE i \in 1 .. Len(nodes)
        BY <1>5, <1>8, <1>9, <1>10, <4>1, ListFacts
      <4>2. CASE i = Len(nodes) + 1
        BY <1>5, <1>8, <1>14, <4>2
      <4> QED BY <1>8, <4>1, <4>2, ListFacts
    <3> QED BY <3>1
  <2>0. count \in Nat /\ count <= Len(nodes)
    BY DEF ListInv, ListTypeOK
  <2>2. count \in Nat /\ count <= Len(nodes')
    BY <1>8, <2>0, ListFacts
  <2> QED BY <1>1, <1>2, <1>5, <1>8, <2>1, <2>2 DEF ListInv, ListTypeOK
<1>16. ListLinked'
  <2>1. ~Freeing /\ ~Freeing'
    BY <1>1 DEF Freeing
  <2>2. list' = nodes'[1]
    BY <1>1, <1>3, <1>8, <2>1, ListFacts DEF ListInv, ListLinked
  <2>3. ASSUME NEW i \in 1 .. Len(nodes')
        PROVE  heap'[nodes'[i]].next = IF i = Len(nodes') THEN Null ELSE nodes'[i + 1]
    <3>1. CASE i = Len(nodes) + 1
      BY <1>8, <1>14, <3>1
    <3>2. CASE i = Len(nodes)
      BY <1>5, <1>6, <1>8, <3>2, ListFacts
    <3>3. CASE i \in 1 .. Len(nodes) /\ i # Len(nodes)
      <4>1. i + 1 \in 1 .. Len(nodes) /\ i # Len(nodes')
        BY <1>8, <3>3, ListFacts
      <4>2. nodes[i] # tmp
        BY <1>6, <1>7, <3>3, ListFacts DEF IsInjective
      <4>3. heap'[nodes[i]] = heap[nodes[i]]
        BY <1>5, <3>3, <4>2, ListFacts
      <4> QED BY <1>8, <3>3, <4>1, <4>3, NextNode
    <3> QED BY <1>8, <3>1, <3>2, <3>3, ListFacts
  <2> QED BY <1>8, <2>1, <2>2, <2>3 DEF ListLinked
<1>17. ListApart'
  <2>1. b \notin Strings /\ copy # b
    BY <1>5, ListFacts DEF ListInv, TextsThere
  <2>2. copy \notin Range(nodes) \cup Strings
    BY DEF ListInv, ListApart
  <2>3. \A c, d \in Texted : heap'[c].str = heap'[d].str => c = d
    BY <1>10 DEF ListInv, ListApart
  <2>4. Range(nodes) \cap Strings = {}
    BY DEF ListInv, ListApart
  <2> QED BY <1>1, <1>8, <1>9, <1>11, <2>1, <2>2, <2>3, <2>4 DEF ListApart
<1>18. TextsThere'
  BY <1>1, <1>9, <1>10, <1>12, <1>13, ListFacts DEF ListInv, TextsThere
<1>19. ListPlaces'
  <2>1. Length' > 0
    BY <1>1, <1>6, <1>8, ListFacts DEF Length, Freeing
  <2>2. nodes'[1] = nodes[1] /\ nodes[1] \in Texted
    BY <1>3, <1>8, <1>6, <1>9, ListFacts
  <2>3. heap'[heap'[nodes'[1]].str] = heap[heap[nodes[1]].str]
    BY <1>10, <1>12, <2>2, ListFacts
  <2>4. copy # Null => heap[copy].text = heap[heap[nodes[1]].str].text
    BY DEF ListInv, ListPlaces
  <2>5. tmp' = nodes'[Len(nodes')]
    BY <1>2, <1>8
  <2> QED BY <1>1, <1>3, <1>8, <1>13, <2>1, <2>3, <2>4, <2>5 DEF ListPlaces, Freeing
<1>20. ListContract
  <2>1. ListOwned' = ListOwned \cup {b}
    BY <1>1, <1>8, <1>11 DEF ListOwned
  <2>2. tmp \in ListOwned
    BY <1>3 DEF ListOwned
  <2> QED BY <1>1, <1>2, <1>5, <2>1, <2>2, ListFacts DEF ListContract, KeepsOthers, HeapSafe
<1> QED BY <1>15, <1>16, <1>17, <1>18, <1>19, <1>20 DEF ListInv

LEMMA AddStringKeeps == ListInv /\ HeapSafe /\ AddString => ListInv' /\ ListContract
<1> SUFFICES ASSUME ListInv, HeapSafe, AddString PROVE ListInv' /\ ListContract
  OBVIOUS
<1>1. /\ listPc = "string" /\ listPc' = "none" /\ item' = Null /\ tmp' = Null
      /\ UNCHANGED <<freedTwice, list, count, seen, copy, nodes>>
  BY DEF AddString
<1>2. PICK b \in Fresh : heap' = [With(b, Text(item)) EXCEPT ![tmp].str = b]
  BY DEF AddString
<1>3. nodes # <<>> /\ tmp = nodes[Len(nodes)] /\ item \in Items
  BY <1>1 DEF ListInv, ListPlaces
<1>4. Len(nodes) \in 1 .. Len(nodes)
  <2>1. 1 \in 1 .. Len(nodes)
    BY <1>3, ListFacts, RangeSeq
  <2> QED BY <2>1, ListFacts
<1>5. tmp \in Range(nodes) /\ tmp \in Allocated /\ heap[tmp] \in Nodes
  BY <1>3, <1>4, ListFacts
<1>6. /\ b \in Blocks /\ b \notin Allocated /\ Allocated' = Allocated \cup {b}
      /\ heap'[b] = Text(item)
      /\ heap'[tmp] \in Nodes /\ heap'[tmp].str = b /\ heap'[tmp].next = heap[tmp].next
      /\ \A c \in Allocated \ {tmp} : heap'[c] = heap[c]
  <2>1. b \in Blocks /\ b \notin Allocated /\ tmp # b
    BY <1>5 DEF Fresh
  <2>2. /\ Allocated' = Allocated \cup {b}
        /\ heap'[b] = Text(item)
        /\ heap'[tmp] = [heap[tmp] EXCEPT !.str = b]
        /\ \A c \in Allocated \ {tmp} : heap'[c] = heap[c]
    BY <1>2, <1>5, <2>1 DEF With, Allocated
  <2> QED BY <1>5, <2>1, <2>2 DEF Nodes
<1>7. Range(nodes)' = Range(nodes) /\ Texted = Range(nodes) \ {tmp} /\ Texted' = Range(nodes)
  BY <1>1 DEF Texted
<1>8. heap'[b] \in Texts
  BY <1>3, <1>6 DEF Texts, Text
<1>9. \A c \in Texted : heap'[c] = heap[c]
  BY <1>6, <1>7, ListFacts
<1>10. \A c \in Range(nodes) : heap'[c] \in Nodes /\ heap'[c].next = heap[c].next
  BY <1>6, <1>7, <1>9, ListFacts
<1>11. Strings' = Strings \cup {b}
  BY <1>5, <1>6, <1>7, <1>9 DEF Strings
<1>12. \A s \in Strings : s \in Allocated' /\ heap'[s] = heap[s]
  BY <1>5, <1>6, ListFacts DEF ListInv, ListApart
<1>13. copy # Null => copy \in Allocated' /\ heap'[copy] = heap[copy]
  BY <1>5, <1>6 DEF ListInv, ListApart, TextsThere
<1>14. ListTypeOK'
  <2>1. \A i \in 1 .. Len(nodes) : nodes[i] \in Allocated' /\ heap'[nodes[i]] \in Nodes
    BY <1>6, <1>10, ListFacts
  <2> QED BY <1>1, <2>1 DEF ListInv, ListTypeOK
<1>15. ListLinked'
  <2>1. ~Freeing /\ ~Freeing'
    BY <1>1 DEF Freeing
  <2>2. \A i \in 1 .. Len(nodes) :
          heap'[nodes[i]].next = IF i = Len(nodes) THEN Null ELSE nodes[i + 1]
    BY <1>10, ListFacts, NextNode
  <2> QED BY <1>1, <2>1, <2>2 DEF ListInv, ListLinked
<1>16. ListApart'
  <2>1. b \notin Strings /\ copy # b /\ b \notin Range(nodes)
    BY <1>6, ListFacts DEF ListInv, TextsThere
  <2>2. \A c, d \in Texted' : heap'[c].str = heap'[d].str => c = d
    <3> SUFFICES ASSUME NEW c \in Range(nodes), NEW d \in Range(nodes),
                        heap'[c].str = heap'[d].str
                 PROVE  c = d
      BY <1>7
    <3>1. CASE c \in Texted /\ d \in Texted
      BY <1>9, <3>1 DEF ListInv, ListApart
    <3>2. CASE c \in Texted /\ d = tmp
      BY <1>6, <1>9, <2>1, <3>2, ListFacts
    <3>3. CASE c = tmp /\ d \in Texted
      BY <1>6, <1>9, <2>1, <3>3, ListFacts
    <3> QED BY <1>7, <3>1, <3>2, <3>3
  <2>3. Range(nodes) \cap Strings = {} /\ copy \notin Range(nodes) \cup Strings
        /\ IsInjective(nodes)
    BY DEF ListInv, ListApart
  <2> QED BY <1>1, <1>7, <1>11, <2>1, <2>2, <2>3 DEF ListApart
<1>17. TextsThere'
  <2>1. \A c \in Texted : heap'[c].str \in Allocated' /\ heap'[heap'[c].str] \in Texts
    BY <1>9, <1>12, ListFacts
  <2>2. heap'[tmp].str \in Allocated' /\ heap'[heap'[tmp].str] \in Texts
    BY <1>6, <1>8
  <2> QED BY <1>1, <1>7, <1>13, <2>1, <2>2 DEF ListInv, TextsThere
<1>18. ListPlaces'
  <2>1. Length = Len(nodes) - 1 /\ Length' = Len(nodes)
    BY <1>1 DEF Length, Freeing
  <2>2. copy # Null => Length > 0 /\ heap[copy].text = heap[heap[nodes[1]].str].text
    BY DEF ListInv, ListPlaces
  <2>3. ASSUME copy # Null
        PROVE  Length' > 0 /\ heap'[copy].text = heap'[heap'[nodes[1]].str].text
    <3>1. 1 \in 1 .. Length /\ Length' > 0 /\ ~Freeing
      BY <1>1, <2>1, <2>2, <2>3, ListFacts DEF Freeing
    <3>2. nodes[1] \in Texted
      BY <3>1, ToldTexted
    <3> QED BY <1>9, <1>12, <1>13, <2>2, <2>3, <3>1, <3>2, ListFacts
  <2> QED BY <1>1, <2>3 DEF ListPlaces, Freeing
<1>19. ListContract
  <2>1. ListOwned' = ListOwned \cup {b}
    BY <1>1, <1>7, <1>11 DEF ListOwned
  <2>2. tmp \in ListOwned
    BY <1>5 DEF ListOwned
  <2> QED BY <1>1, <1>2, <1>6, <2>1, <2>2, ListFacts DEF ListContract, KeepsOthers, HeapSafe
<1> QED BY <1>14, <1>15, <1>16, <1>17, <1>18, <1>19 DEF ListInv

\* Nothing that the nodes and their texts hold is written.
LEMMA ListHeld ==
    ASSUME ListInv, UNCHANGED <<list, nodes>>, Texted' = Texted,
           \A b \in Range(nodes) \cup Strings : b \in Allocated' /\ heap'[b] = heap[b]
    PROVE  /\ Range(nodes)' = Range(nodes) /\ Strings' = Strings
           /\ \A i \in 1 .. Len(nodes) :
                 /\ nodes[i] \in Allocated' /\ heap'[nodes[i]] \in Nodes
                 /\ heap'[nodes[i]] = heap[nodes[i]]
           /\ \A b \in Texted : /\ heap'[b].str \in Allocated'
                                /\ heap'[heap'[b].str] \in Texts
                                /\ heap'[heap'[b].str] = heap[heap[b].str]
           /\ \A b, c \in Texted : heap'[b].str = heap'[c].str => b = c
<1>1. \A b \in Texted : heap'[b].str = heap[b].str
  BY ListFacts
<1>2. Strings' = Strings
  BY <1>1 DEF Strings
<1>3. \A b \in Texted : /\ heap'[b].str \in Allocated' /\ heap'[heap'[b].str] \in Texts
                        /\ heap'[heap'[b].str] = heap[heap[b].str]
  BY <1>1, ListFacts
<1>4. \A b, c \in Texted : heap'[b].str = heap'[c].str => b = c
  BY <1>1 DEF ListInv, ListApart
<1> QED BY <1>2, <1>3, <1>4, ListFacts

LEMMA CallElementKeeps == ListInv /\ HeapSafe /\ CallElement => ListInv' /\ ListContract
<1> SUFFICES ASSUME ListInv, HeapSafe, CallElement PROVE ListInv' /\ ListContract
  OBVIOUS
<1>1. /\ listPc = "none" /\ list # Null /\ copy = Null /\ count' = 0 /\ seen' = <<>>
      /\ UNCHANGED <<list, listPc, item, tmp, nodes>>
  BY DEF CallElement, Forget
<1>2. PICK b \in Fresh : /\ heap' = With(b, heap[heap[list].str])
                         /\ freedTwice' = freedTwice /\ copy' = b
  BY DEF CallElement, Malloc
<1>3. /\ b \in Blocks /\ b \notin Allocated /\ Allocated' = Allocated \cup {b}
      /\ heap'[b] = heap[heap[list].str]
      /\ \A c \in Allocated : heap'[c] = heap[c]
  BY <1>2, MallocFacts
<1>4. ~Freeing /\ ~Freeing' /\ Texted = Range(nodes) /\ Texted' = Range(nodes)
  BY <1>1 DEF Freeing, Texted
<1>5. nodes # <<>> /\ list = nodes[1] /\ list \in Texted
  BY <1>1, <1>4, ListFacts DEF ListInv, ListLinked
<1>6. \A c \in Range(nodes) \cup Strings : c \in Allocated' /\ heap'[c] = heap[c]
  BY <1>3, ListFacts
<1>7. /\ Range(nodes)' = Range(nodes) /\ Strings' = Strings
      /\ \A i \in 1 .. Len(nodes) :
            /\ nodes[i] \in Allocated' /\ heap'[nodes[i]] \in Nodes
            /\ heap'[nodes[i]] = heap[nodes[i]]
      /\ \A c \in Texted : /\ heap'[c].str \in Allocated'
                           /\ heap'[heap'[c].str] \in Texts
                           /\ heap'[heap'[c].str] = heap[heap[c].str]
      /\ \A c, d \in Texted : heap'[c].str = heap'[d].str => c = d
  BY <1>1, <1>4, <1>6, ListHeld
<1>8. heap'[b] \in Texts
  BY <1>3, <1>5, ListFacts
<1>9. ListTypeOK'
  <2>1. seen' \in Seq(Items) /\ count' \in Nat /\ count' <= Len(nodes)
    BY <1>1, ListFacts
  <2>2. /\ {list', tmp', copy'} \subseteq Blocks \cup {Null}
        /\ listPc' \in {"none", "add", "string", "size", "foreach", "free", "free node"}
        /\ item' \in Items \cup {Null}
    BY <1>1, <1>2, <1>3 DEF ListInv, ListTypeOK
  <2>3. /\ nodes' \in Seq(Blocks)
        /\ \A i \in 1 .. Len(nodes') : nodes'[i] \in Allocated' /\ heap'[nodes'[i]] \in Nodes
    BY <1>1, <1>7, ListFacts
  <2>4. count' <= Len(nodes')
    BY <1>1, <2>1
  <2> QED BY <2>1, <2>2, <2>3, <2>4 DEF ListTypeOK
<1>10. ListLinked'
  BY <1>1, <1>4, <1>7 DEF ListInv, ListLinked
<1>11. ListApart'
  <2>1. b \notin Range(nodes) \cup Strings
    BY <1>3, ListFacts
  <2> QED BY <1>1, <1>2, <1>4, <1>7, <2>1 DEF ListInv, ListApart
<1>12. TextsThere'
  BY <1>2, <1>3, <1>4, <1>7, <1>8 DEF TextsThere
<1>13. ListPlaces'
  <2>1. Length' = Len(nodes) /\ Len(nodes) > 0
    <3>1. Length' = Len(nodes)
      BY <1>1, <1>4 DEF Length
    <3>2. 1 \in 1 .. Len(nodes)
      BY <1>5, ListFacts, RangeSeq
    <3> QED BY <3>1, <3>2, ListFacts
  <2>2. heap'[b] = heap'[heap'[nodes[1]].str]
    BY <1>3, <1>5, <1>7
  <2> QED BY <1>1, <1>2, <2>1, <2>2 DEF ListPlaces
<1>14. ListContract
  <2>1. ListOwned = Range(nodes) \cup Strings /\ ListOwned' = ListOwned \cup {b}
    BY <1>1, <1>2, <1>3, <1>7 DEF ListOwned
  <2> QED BY <1>2, <1>3, <2>1, ListFacts DEF ListContract, KeepsOthers, HeapSafe
<1> QED BY <1>9, <1>10, <1>11, <1>12, <1>13, <1>14 DEF ListInv

LEMMA UseElementKeeps == ListInv /\ HeapSafe /\ UseElement => ListInv' /\ ListContract
<1> SUFFICES ASSUME ListInv, HeapSafe, UseElement PROVE ListInv' /\ ListContract
  OBVIOUS
<1>1. /\ copy # Null /\ copy' = Null /\ seen' = <<heap[copy].text>> /\ Free({copy})
      /\ UNCHANGED <<list, listPc, item, tmp, count, nodes>>
  BY DEF UseElement
<1>2. copy \in Allocated /\ heap[copy].text \in Items /\ listPc \in {"none", "add", "string"}
  BY <1>1 DEF ListInv, TextsThere, Texts, ListPlaces
<1>3. /\ Allocated' = Allocated \ {copy} /\ freedTwice' = FALSE
      /\ \A c \in Allocated \ {copy} : heap'[c] = heap[c]
  <2>1. {copy} \subseteq Allocated
    BY <1>2
  <2> QED BY <1>1, <2>1, FreeFacts DEF HeapSafe
<1>4. copy \notin Range(nodes) \cup Strings
  BY DEF ListInv, ListApart
<1>5. Texted' = Texted /\ Freeing' = Freeing
  BY <1>1 DEF Texted, Freeing
<1>6. \A c \in Range(nodes) \cup Strings : c \in Allocated' /\ heap'[c] = heap[c]
  BY <1>3, <1>4, ListFacts
<1>7. /\ Range(nodes)' = Range(nodes) /\ Strings' = Strings
      /\ \A i \in 1 .. Len(nodes) :
            /\ nodes[i] \in Allocated' /\ heap'[nodes[i]] \in Nodes
            /\ heap'[nodes[i]] = heap[nodes[i]]
      /\ \A c \in Texted : /\ heap'[c].str \in Allocated'
                           /\ heap'[heap'[c].str] \in Texts
                           /\ heap'[heap'[c].str] = heap[heap[c].str]
      /\ \A c, d \in Texted : heap'[c].str = heap'[d].str => c = d
  BY <1>1, <1>5, <1>6, ListHeld
<1>8. ListTypeOK'
  <2>1. seen' \in Seq(Items)
    BY <1>1, <1>2
  <2>2. /\ {list', tmp', copy'} \subseteq Blocks \cup {Null}
        /\ listPc' \in {"none", "add", "string", "size", "foreach", "free", "free node"}
        /\ item' \in Items \cup {Null}
    BY <1>1 DEF ListInv, ListTypeOK
  <2>3. /\ nodes' \in Seq(Blocks)
        /\ \A i \in 1 .. Len(nodes') : nodes'[i] \in Allocated' /\ heap'[nodes'[i]] \in Nodes
    BY <1>1, <1>7, ListFacts
  <2>4. count' \in Nat /\ count' <= Len(nodes')
    BY <1>1 DEF ListInv, ListTypeOK
  <2> QED BY <2>1, <2>2, <2>3, <2>4 DEF ListTypeOK
<1>9. ListLinked'
  BY <1>1, <1>5, <1>7 DEF ListInv, ListLinked
<1>10. ListApart'
  <2>1. Null \notin Range(nodes) \cup Strings
    BY ListFacts DEF HeapSafe
  <2> QED BY <1>1, <1>5, <1>7, <2>1 DEF ListInv, ListApart
<1>11. TextsThere'
  BY <1>1, <1>5, <1>7 DEF TextsThere
<1>12. ListPlaces'
  BY <1>1, <1>2, <1>7 DEF ListInv, ListPlaces, Freeing
<1>13. ListContract
  <2>1. ListOwned = Range(nodes) \cup Strings \cup {copy} /\ ListOwned' = ListOwned \ {copy}
    BY <1>1, <1>4, <1>7 DEF ListOwned
  <2> QED BY <1>2, <1>3, <2>1, ListFacts DEF ListContract, KeepsOthers
<1> QED BY <1>8, <1>9, <1>10, <1>11, <1>12, <1>13 DEF ListInv

LEMMA CallFreeKeeps == ListInv /\ HeapSafe /\ CallFree => ListInv' /\ ListContract
<1> SUFFICES ASSUME ListInv, HeapSafe, CallFree PROVE ListInv' /\ ListContract
  OBVIOUS
<1>1. /\ listPc = "none" /\ list # Null /\ copy = Null /\ tmp' = list /\ list' = Null
      /\ listPc' = "free" /\ count' = 0 /\ seen' = <<>>
      /\ UNCHANGED <<heap, freedTwice, item, copy, nodes>>
  BY DEF CallFree, Forget
<1>2. ~Freeing /\ Freeing' /\ Texted' = Texted /\ Range(nodes)' = Range(nodes)
  BY <1>1 DEF Freeing, Texted
<1>3. Strings' = Strings /\ ListOwned' = ListOwned /\ Allocated' = Allocated
  BY <1>1, <1>2 DEF Strings, ListOwned, Allocated
<1>4. ListTypeOK'
  <2>1. seen' \in Seq(Items) /\ count' \in Nat /\ count' <= Len(nodes)
    BY <1>1, ListFacts
  <2> QED BY <1>1, <1>3, <2>1 DEF ListInv, ListTypeOK
<1>5. ListLinked'
  BY <1>1, <1>2 DEF ListInv, ListLinked
<1>6. ListApart' /\ TextsThere'
  BY <1>1, <1>2, <1>3 DEF ListInv, ListApart, TextsThere
<1>7. ListPlaces'
  BY <1>1 DEF ListPlaces
<1>8. ListContract
  BY <1>1, <1>3, ListFacts DEF ListContract, KeepsOthers, HeapSafe
<1> QED BY <1>4, <1>5, <1>6, <1>7, <1>8 DEF ListInv

LEMMA FreeStringKeeps == ListInv /\ HeapSafe /\ FreeString => ListInv' /\ ListContract
<1> SUFFICES ASSUME ListInv, HeapSafe, FreeString PROVE ListInv' /\ ListContract
  OBVIOUS
<1> DEFINE s == heap[tmp].str
<1>1. /\ listPc = "free" /\ tmp # Null /\ Free({s}) /\ listPc' = "free node"
      /\ UNCHANGED <<list, item, tmp, count, seen, copy, nodes>>
  BY DEF FreeString, StringOf
<1>2. Freeing /\ Freeing' /\ copy = Null
  BY <1>1 DEF Freeing, ListInv, ListPlaces
<1>3. nodes # <<>> /\ tmp = nodes[1] /\ tmp \in Range(nodes) /\ 1 \in 1 .. Len(nodes)
  <2>1. nodes # <<>> /\ tmp = nodes[1]
    BY <1>1, <1>2 DEF ListInv, ListLinked
  <2> QED BY <2>1, ListFacts, RangeSeq
<1>4. Texted = Range(nodes) /\ Texted' = Range(nodes) \ {tmp} /\ Range(nodes)' = Range(nodes)
  BY <1>1 DEF Texted
<1>5. s \in Strings /\ s \in Allocated /\ s \notin Range(nodes)
  BY <1>3, <1>4, ListFacts DEF ListInv, ListApart
<1>6. /\ Allocated' = Allocated \ {s} /\ freedTwice' = FALSE
      /\ \A c \in Allocated \ {s} : heap'[c] = heap[c]
  BY <1>1, <1>5, FreeFacts DEF HeapSafe
<1>7. \A b \in Range(nodes) : b \in Allocated' /\ heap'[b] = heap[b] /\ heap'[b] \in Nodes
  BY <1>5, <1>6, ListFacts
<1>8. \A b \in Texted' : heap'[b].str = heap[b].str /\ heap[b].str # s
  BY <1>3, <1>4, <1>7 DEF ListInv, ListApart
<1>9. Strings' = Strings \ {s}
  <2>1. Strings' = {heap[b].str : b \in Range(nodes) \ {tmp}}
    BY <1>4, <1>8 DEF Strings
  <2>2. Strings = {heap[b].str : b \in Range(nodes) \ {tmp}} \cup {s}
    BY <1>3, <1>4 DEF Strings
  <2>3. s \notin {heap[b].str : b \in Range(nodes) \ {tmp}}
    BY <1>4, <1>8
  <2> HIDE DEF s
  <2> QED BY <2>1, <2>2, <2>3
<1> HIDE DEF s
<1>10. ListTypeOK'
  <2>1. \A i \in 1 .. Len(nodes) : nodes[i] \in Allocated' /\ heap'[nodes[i]] \in Nodes
    BY <1>7, ListFacts
  <2> QED BY <1>1, <2>1 DEF ListInv, ListTypeOK
<1>11. ListLinked'
  <2>1. \A i \in 1 .. Len(nodes) :
          heap'[nodes[i]].next = IF i = Len(nodes) THEN Null ELSE nodes[i + 1]
    BY <1>7, ListFacts, NextNode
  <2> QED BY <1>1, <1>2, <2>1 DEF ListInv, ListLinked
<1>12. ListApart'
  <2>1. \A b, c \in Texted' : heap'[b].str = heap'[c].str => b = c
    BY <1>4, <1>8 DEF ListInv, ListApart
  <2> QED BY <1>1, <1>4, <1>9, <2>1 DEF ListInv, ListApart
<1>13. TextsThere'
  BY <1>1, <1>2, <1>4, <1>6, <1>8, ListFacts DEF ListInv, TextsThere
<1>14. ListPlaces'
  BY <1>1, <1>2, <1>3 DEF ListInv, ListPlaces
<1>15. ListContract
  <2>1. ListOwned = Range(nodes) \cup Strings /\ ListOwned' = ListOwned \ {s}
    BY <1>1, <1>2, <1>4, <1>5, <1>9 DEF ListOwned
  <2>2. s \in ListOwned
    BY <1>5, <2>1
  <2> QED BY <1>6, <2>1, <2>2, ListFacts DEF ListContract, KeepsOthers
<1> QED BY <1>10, <1>11, <1>12, <1>13, <1>14, <1>15 DEF ListInv

LEMMA FreeNodeKeeps == ListInv /\ HeapSafe /\ FreeNode => ListInv' /\ ListContract
<1> SUFFICES ASSUME ListInv, HeapSafe, FreeNode PROVE ListInv' /\ ListContract
  OBVIOUS
<1>1. /\ listPc = "free node" /\ tmp' = heap[tmp].next /\ Free({tmp})
      /\ nodes' = Tail(nodes) /\ listPc' = "free"
      /\ UNCHANGED <<list, item, count, seen, copy>>
  BY DEF FreeNode
<1>2. Freeing /\ Freeing' /\ copy = Null /\ nodes # <<>>
  BY <1>1 DEF Freeing, ListInv, ListPlaces
<1>3. tmp = nodes[1] /\ tmp \in Range(nodes) /\ 1 \in 1 .. Len(nodes)
  <2>1. tmp = nodes[1]
    BY <1>2 DEF ListInv, ListLinked
  <2> QED BY <1>2, <2>1, ListFacts, RangeSeq
<1>4. tmp \in Allocated /\ IsInjective(nodes)
  BY <1>3, ListFacts DEF ListInv, ListApart
<1>5. /\ Allocated' = Allocated \ {tmp} /\ freedTwice' = FALSE
      /\ \A c \in Allocated \ {tmp} : heap'[c] = heap[c]
  <2>1. {tmp} \subseteq Allocated
    BY <1>4
  <2> QED BY <1>1, <2>1, FreeFacts DEF HeapSafe
<1>6. /\ nodes' \in Seq(Blocks) /\ Len(nodes') = Len(nodes) - 1
      /\ \A i \in 1 .. Len(nodes) - 1 : nodes'[i] = nodes[i + 1]
      /\ Range(nodes)' = Range(nodes) \ {tmp} /\ IsInjective(nodes')
  <2>1. nodes \in Seq(Blocks)
    BY ListFacts
  <2> QED BY <1>1, <1>2, <1>3, <1>4, <2>1, TailOf
<1>7. Texted = Range(nodes) \ {tmp} /\ Texted' = Texted
  BY <1>1, <1>6 DEF Texted
<1>8. \A b \in Texted : b \in Allocated' /\ heap'[b] = heap[b] /\ heap'[b] \in Nodes
  BY <1>5, <1>7, ListFacts
<1>9. Strings' = Strings
  BY <1>7, <1>8 DEF Strings
<1>10. \A s \in Strings : s \in Allocated' /\ heap'[s] = heap[s] /\ heap'[s] \in Texts
  BY <1>3, <1>5, ListFacts DEF ListInv, ListApart
<1>11. \A i \in 1 .. Len(nodes') : i \in 1 .. Len(nodes) - 1 /\ i + 1 \in 1 .. Len(nodes)
                                   /\ nodes'[i] = nodes[i + 1] /\ nodes'[i] \in Texted
  <2>1. ASSUME NEW i \in 1 .. Len(nodes')
        PROVE  i \in 1 .. Len(nodes) - 1 /\ i + 1 \in 1 .. Len(nodes)
    BY <1>6, ListFacts
  <2>2. ASSUME NEW i \in 1 .. Len(nodes') PROVE nodes'[i] \in Range(nodes')
    BY <1>6, RangeSeq
  <2> QED BY <1>6, <1>7, <2>1, <2>2
<1>3a. Len(nodes) \in Nat /\ Len(nodes) >= 1
  BY <1>3, ListFacts
<1>12. tmp' = (IF nodes' = <<>> THEN Null ELSE nodes'[1])
  <2>1. nodes' = <<>> <=> Len(nodes) = 1
    <3>1. nodes' = <<>> <=> Len(nodes') = 0
      BY <1>6, RangeSeq
    <3> QED BY <1>6, <3>1, ListFacts
  <2>2. tmp' = IF 1 = Len(nodes) THEN Null ELSE nodes[1 + 1]
    BY <1>1, <1>3, NextNode
  <2>3. Len(nodes) # 1 => nodes'[1] = nodes[1 + 1]
    <3>1. ASSUME NEW n \in Nat, n >= 1, n # 1 PROVE 1 \in 1 .. n - 1
      BY <3>1
    <3>2. Len(nodes) # 1 => 1 \in 1 .. Len(nodes) - 1
      BY <1>3a, <3>1
    <3> QED BY <1>6, <3>2
  <2> QED BY <2>1, <2>2, <2>3
<1>13. ListTypeOK'
  <2>1. tmp' \in Blocks \cup {Null}
    <3>1. heap[tmp] \in Nodes
      BY <1>3, ListFacts
    <3> QED BY <1>1, <3>1 DEF Nodes
  <2>2. count' \in Nat /\ count' <= Len(nodes')
    <3>1. count = 0
      BY <1>2 DEF ListInv, ListPlaces
    <3>2. ASSUME NEW n \in Nat, n >= 1 PROVE 0 <= n - 1
      BY <3>2
    <3>3. 0 <= Len(nodes')
      BY <1>3a, <1>6, <3>2
    <3> QED BY <1>1, <3>1, <3>3
  <2>3. \A i \in 1 .. Len(nodes') : nodes'[i] \in Allocated' /\ heap'[nodes'[i]] \in Nodes
    BY <1>8, <1>11
  <2> QED BY <1>1, <1>6, <2>1, <2>2, <2>3 DEF ListInv, ListTypeOK
<1>14. ListLinked'
  <2>1. ASSUME NEW i \in 1 .. Len(nodes')
        PROVE  heap'[nodes'[i]].next = IF i = Len(nodes') THEN Null ELSE nodes'[i + 1]
    <3>1. heap'[nodes'[i]].next =
            IF i + 1 = Len(nodes) THEN Null ELSE nodes[(i + 1) + 1]
      <4>1. i + 1 \in 1 .. Len(nodes)
        BY <1>11
      <4>2. heap[nodes[i + 1]].next =
              IF i + 1 = Len(nodes) THEN Null ELSE nodes[(i + 1) + 1]
        BY <4>1, NextNode
      <4>3. heap'[nodes'[i]] = heap[nodes[i + 1]]
        BY <1>8, <1>11
      <4> QED BY <4>2, <4>3
    <3>2. i = Len(nodes') <=> i + 1 = Len(nodes)
      BY <1>6, ListFacts
    <3>3. i # Len(nodes') => i + 1 \in 1 .. Len(nodes) - 1
      BY <1>6, ListFacts
    <3> QED BY <1>6, <3>1, <3>2, <3>3
  <2> QED BY <1>1, <1>2, <1>12, <2>1 DEF ListInv, ListLinked
<1>15. ListApart'
  <2>1. \A b, c \in Texted : heap'[b].str = heap'[c].str => b = c
    BY <1>8 DEF ListInv, ListApart
  <2> QED BY <1>1, <1>6, <1>7, <1>9, <2>1 DEF ListInv, ListApart
<1>16. TextsThere'
  BY <1>1, <1>2, <1>7, <1>8, <1>10, ListFacts DEF TextsThere
<1>17. ListPlaces'
  BY <1>1, <1>2 DEF ListInv, ListPlaces
<1>18. ListContract
  <2>1. ListOwned = Range(nodes) \cup Strings
    BY <1>2 DEF ListOwned
  <2>2. tmp \notin Strings
    BY <1>3 DEF ListInv, ListApart
  <2>3. ListOwned' = ListOwned \ {tmp}
    BY <1>1, <1>2, <1>6, <1>9, <2>1, <2>2 DEF ListOwned
  <2> QED BY <1>3, <1>5, <2>1, <2>3, ListFacts DEF ListContract, KeepsOthers
<1> QED BY <1>13, <1>14, <1>15, <1>16, <1>17, <1>18 DEF ListInv

LEMMA FreeEndKeeps == ListInv /\ HeapSafe /\ FreeEnd => ListInv' /\ ListContract
<1> SUFFICES ASSUME ListInv, HeapSafe, FreeEnd PROVE ListInv' /\ ListContract
  OBVIOUS
<1>1. /\ listPc = "free" /\ tmp = Null /\ listPc' = "none"
      /\ UNCHANGED <<heap, freedTwice, list, item, tmp, count, seen, copy, nodes>>
  BY DEF FreeEnd
<1>2. Freeing /\ ~Freeing' /\ copy = Null /\ list = Null
  BY <1>1 DEF Freeing, ListInv, ListPlaces, ListLinked
<1>3. nodes = <<>>
  BY <1>1, <1>2, ListFacts DEF ListInv, ListLinked
<1>4. Texted' = Texted /\ Range(nodes)' = Range(nodes)
  BY <1>1 DEF Texted
<1>5. Strings' = Strings /\ ListOwned' = ListOwned /\ Allocated' = Allocated
  BY <1>1, <1>4 DEF Strings, ListOwned, Allocated
<1>6. ListTypeOK'
  BY <1>1, <1>5 DEF ListInv, ListTypeOK
<1>7. ListLinked'
  BY <1>1, <1>2, <1>3 DEF ListInv, ListLinked
<1>8. ListApart' /\ TextsThere'
  BY <1>1, <1>4, <1>5 DEF ListInv, ListApart, TextsThere
<1>9. ListPlaces'
  BY <1>1, <1>2 DEF ListPlaces
<1>10. ListContract
  BY <1>1, <1>5, ListFacts DEF ListContract, KeepsOthers, HeapSafe
<1> QED BY <1>6, <1>7, <1>8, <1>9, <1>10 DEF ListInv

\* A step of the thread that keeps the list.
LEMMA ListKeeps == ListInv /\ HeapSafe /\ ListNext => ListInv' /\ ListContract
  BY CallAddKeeps, GetLastNodeKeeps, AddFirstKeeps, AddLastKeeps, AddStringKeeps,
     CallWalkKeeps, WalkOnKeeps, WalkEndKeeps, CallElementKeeps, UseElementKeeps,
     CallFreeKeeps, FreeStringKeeps, FreeNodeKeeps, FreeEndKeeps DEF ListNext

-----------------------------------------------------------------------------
(* The parser *)

USE LinesAssumption

\* The packets of both chains and the one that is parsed, one by one.
LEMMA ParserFacts ==
    ASSUME ParserInv
    PROVE  /\ kept \in Seq(Blocks) /\ gone \in Seq(Blocks) /\ callers \in Seq(Blocks)
           /\ Len(kept) \in Nat /\ Len(gone) \in Nat /\ Len(callers) \in Nat
           /\ \A i \in 1 .. Len(kept) : kept[i] \in Range(kept)
           /\ \A i \in 1 .. Len(gone) : gone[i] \in Range(gone)
           /\ \A b \in Packets : b \in Allocated /\ heap[b] \in PacketType
           /\ Packets \subseteq Blocks /\ Range(kept) \subseteq Packets
           /\ Range(gone) \subseteq Packets
           /\ packet # Null => packet \in Packets
           /\ ParserOwned \subseteq Allocated
<1>1. kept \in Seq(Blocks) /\ gone \in Seq(Blocks) /\ callers \in Seq(Blocks)
  BY DEF ParserInv, ParserTypeOK
<1>2. Len(kept) \in Nat /\ Len(gone) \in Nat /\ Len(callers) \in Nat
  BY <1>1
<1>3. /\ \A i \in 1 .. Len(kept) : kept[i] \in Range(kept)
      /\ Range(kept) \subseteq Blocks
  BY <1>1, RangeSeq
<1>4. /\ \A i \in 1 .. Len(gone) : gone[i] \in Range(gone)
      /\ Range(gone) \subseteq Blocks
  BY <1>1, RangeSeq
<1>5. \A b \in Packets : b \in Allocated /\ heap[b] \in PacketType
  BY DEF ParserInv, ParserTypeOK
<1>6. packet \in Blocks \cup {Null}
  BY DEF ParserInv, ParserTypeOK
<1>7. /\ Packets \subseteq Blocks /\ Range(kept) \subseteq Packets
      /\ Range(gone) \subseteq Packets
      /\ packet # Null => packet \in Packets
  BY <1>3, <1>4, <1>6 DEF Packets
<1>8. ParserOwned \subseteq Allocated
  BY <1>5 DEF ParserOwned, ParserInv, ParserPlaces
<1> QED BY <1>1, <1>2, <1>3, <1>4, <1>5, <1>7, <1>8

\* The other thread's steps: what the parser owns does not change.
LEMMA ParserFrame ==
    ASSUME ParserInv, UNCHANGED parserVars,
           \A b \in ParserOwned : b \in Allocated' /\ heap'[b] = heap[b]
    PROVE  ParserInv' /\ ParserOwned' = ParserOwned
<1>1. /\ parserPc' = parserPc /\ packet' = packet /\ line' = line /\ work' = work
      /\ ret' = ret /\ chain' = chain /\ at' = at /\ callers' = callers
      /\ kept' = kept /\ gone' = gone
      /\ Range(kept)' = Range(kept) /\ Range(gone)' = Range(gone)
  BY DEF parserVars
<1>2. Packets' = Packets /\ ParserOwned' = ParserOwned
  BY <1>1 DEF Packets, ParserOwned
<1>3. \A b \in Packets : b \in Allocated' /\ heap'[b] = heap[b]
  BY DEF ParserOwned
<1>4. packet # Null => heap'[packet] = heap[packet]
  BY <1>3, ParserFacts
<1>5. ParserTypeOK'
  BY <1>1, <1>2, <1>3, ParserFacts DEF ParserInv, ParserTypeOK
<1>6. PacketsLinked'
  <2>1. \A i \in 1 .. Len(kept) : heap'[kept[i]] = heap[kept[i]]
    BY <1>3, ParserFacts
  <2>2. \A i \in 1 .. Len(gone) : heap'[gone[i]] = heap[gone[i]]
    BY <1>3, ParserFacts
  <2> QED BY <1>1, <2>1, <2>2 DEF ParserInv, PacketsLinked
<1>7. PacketsApart'
  BY <1>1, <1>2 DEF ParserInv, PacketsApart
<1>8. ParserPlaces'
  <2>1. work # Null => work \in Allocated'
    BY DEF ParserOwned
  <2> QED BY <1>1, <1>4, <2>1 DEF ParserInv, ParserPlaces
<1>9. ParserFields'
  BY <1>1, <1>4 DEF ParserInv, ParserPlaces, ParserFields
<1>10. ParsedFields'
  BY <1>1, <1>4 DEF ParserInv, ParserPlaces, ParsedFields
<1> QED BY <1>2, <1>5, <1>6, <1>7, <1>8, <1>9, <1>10 DEF ParserInv

\* A step that leaves both chains alone: it may write into the packet that is
\* parsed and into the line, free them or allocate them.
LEMMA PacketStep ==
    ASSUME ParserInv, HeapSafe, UNCHANGED <<chain, at, callers, kept, gone>>,
           parserPc # "free", parserPc' # "free",
           packet' \in {packet, Null} \cup Fresh, work' \in {work, Null} \cup Fresh,
           packet' # Null => heap'[packet'] \in PacketType /\ work' # packet',
           Allocated' = (Allocated \ {packet, work}) \cup ({packet', work'} \ {Null}),
           \A b \in Allocated \ {packet, work} : heap'[b] = heap[b],
           freedTwice' = FALSE
    PROVE  /\ ParserContract /\ PacketsLinked' /\ PacketsApart'
           /\ {packet', work', chain', at'} \subseteq Blocks \cup {Null}
           /\ {kept', gone', callers'} \subseteq Seq(Blocks)
           /\ \A b \in Packets' : b \in Allocated' /\ heap'[b] \in PacketType
           /\ work' # Null => work' \in Allocated'
<1> DEFINE K == Range(kept) \cup Range(gone)
<1>1. /\ chain' = chain /\ at' = at /\ callers' = callers /\ kept' = kept /\ gone' = gone
      /\ Range(kept)' = Range(kept) /\ Range(gone)' = Range(gone)
  OBVIOUS
<1>2. /\ K \subseteq Allocated /\ packet \notin K /\ work \notin K /\ Null \notin Allocated
      /\ K \cap Fresh = {}
  BY ParserFacts DEF ParserInv, PacketsApart, Packets, HeapSafe, Fresh
<1>3. \A b \in K : b \in Allocated' /\ heap'[b] = heap[b]
  BY <1>2
<1>4. packet' \notin K /\ work' \notin K
  BY <1>2
<1>5. Packets' = K \cup ({packet'} \ {Null})
  BY <1>1 DEF Packets
<1>6. /\ {packet', work', chain', at'} \subseteq Blocks \cup {Null}
      /\ {kept', gone', callers'} \subseteq Seq(Blocks)
  BY <1>1 DEF ParserInv, ParserTypeOK, Fresh
<1>7. \A b \in Packets' : b \in Allocated' /\ heap'[b] \in PacketType
  BY <1>3, <1>5, ParserFacts
<1>8. PacketsLinked'
  <2>1. \A i \in 1 .. Len(kept) : heap'[kept[i]] = heap[kept[i]]
    BY <1>3, ParserFacts
  <2>2. \A i \in 1 .. Len(gone) : heap'[gone[i]] = heap[gone[i]]
    BY <1>3, ParserFacts
  <2> QED BY <1>1, <2>1, <2>2 DEF ParserInv, PacketsLinked
<1>9. PacketsApart'
  <2>1. work' \notin Packets'
    BY <1>2, <1>4, <1>5
  <2> QED BY <1>1, <1>4, <2>1 DEF ParserInv, PacketsApart
<1>10. ParserContract
  <2>1. /\ ParserOwned = K \cup ({packet, work} \ {Null})
        /\ ParserOwned' = K \cup ({packet', work'} \ {Null})
    BY <1>5 DEF ParserOwned, Packets
  <2>2. KeepsOthers(ParserOwned)
    BY <1>2, <2>1 DEF KeepsOthers
  <2>3. ParserOwned' \subseteq ParserOwned \cup Fresh
    BY <2>1
  <2>4. Allocated' = (Allocated \ ParserOwned) \cup ParserOwned'
    BY <1>2, <2>1
  <2> QED BY <2>2, <2>3, <2>4 DEF ParserContract
<1>11. work' # Null => work' \in Allocated'
  OBVIOUS
<1> QED BY <1>6, <1>7, <1>8, <1>9, <1>10, <1>11

LEMMA NewPacketKeeps == ParserInv /\ HeapSafe /\ NewPacket => ParserInv' /\ ParserContract
<1> SUFFICES ASSUME ParserInv, HeapSafe, NewPacket PROVE ParserInv' /\ ParserContract
  OBVIOUS
<1>1. /\ parserPc = "none" /\ packet = Null
      /\ UNCHANGED <<parserPc, line, work, ret, chain, at, callers, kept, gone>>
  BY DEF NewPacket
<1>2. PICK b \in Fresh : /\ heap' = With(b, Cleared) /\ freedTwice' = freedTwice
                         /\ packet' = b
  BY DEF NewPacket, Malloc
<1>3. /\ b \in Blocks /\ b \notin Allocated /\ Allocated' = Allocated \cup {b}
      /\ heap'[b] = Cleared
      /\ \A c \in Allocated : heap'[c] = heap[c]
  BY <1>2, MallocFacts
<1>4. work = Null /\ Null \notin Allocated /\ freedTwice' = FALSE
  BY <1>1, <1>2 DEF ParserInv, ParserPlaces, HeapSafe
<1>5. heap'[b] \in PacketType /\ heap'[b].next = Null
  BY <1>3 DEF PacketType, Cleared, Field
<1>6. /\ ParserContract /\ PacketsLinked' /\ PacketsApart'
      /\ {packet', work', chain', at'} \subseteq Blocks \cup {Null}
      /\ {kept', gone', callers'} \subseteq Seq(Blocks)
      /\ \A c \in Packets' : c \in Allocated' /\ heap'[c] \in PacketType
  <2>1. /\ Allocated' = (Allocated \ {packet, work}) \cup ({packet', work'} \ {Null})
        /\ packet' # Null => heap'[packet'] \in PacketType /\ work' # packet'
    BY <1>1, <1>2, <1>3, <1>4, <1>5
  <2> QED BY <1>1, <1>2, <1>3, <1>4, <2>1, PacketStep
<1>7. ParserTypeOK'
  BY <1>1, <1>6 DEF ParserInv, ParserTypeOK
<1>8. ParserPlaces' /\ ParserFields' /\ ParsedFields'
  BY <1>1, <1>2, <1>4, <1>5 DEF ParserPlaces, ParserFields, ParsedFields
<1> QED BY <1>6, <1>7, <1>8 DEF ParserInv

LEMMA CallValidateKeeps ==
    ParserInv /\ HeapSafe /\ CallValidate => ParserInv' /\ ParserContract
<1> SUFFICES ASSUME ParserInv, HeapSafe, CallValidate PROVE ParserInv' /\ ParserContract
  OBVIOUS
<1>1. /\ parserPc = "none" /\ packet # Null /\ line' \in Lines /\ parserPc' = "validate"
      /\ UNCHANGED <<packet, ret, chain, at, callers, kept, gone>>
  BY DEF CallValidate
<1>2. PICK b \in Fresh : /\ heap' = With(b, Text(line')) /\ freedTwice' = freedTwice
                         /\ work' = b
  BY DEF CallValidate, Malloc
<1>3. /\ b \in Blocks /\ b \notin Allocated /\ Allocated' = Allocated \cup {b}
      /\ \A c \in Allocated : heap'[c] = heap[c]
  BY <1>2, MallocFacts
<1>4. work = Null /\ Null \notin Allocated /\ freedTwice' = FALSE
  BY <1>1, <1>2 DEF ParserInv, ParserPlaces, HeapSafe
<1>5. packet \in Allocated /\ heap'[packet] = heap[packet] /\ heap'[packet] \in PacketType
  BY <1>1, <1>3, ParserFacts
<1>6. /\ ParserContract /\ PacketsLinked' /\ PacketsApart'
      /\ {packet', work', chain', at'} \subseteq Blocks \cup {Null}
      /\ {kept', gone', callers'} \subseteq Seq(Blocks)
      /\ \A c \in Packets' : c \in Allocated' /\ heap'[c] \in PacketType
      /\ work' # Null => work' \in Allocated'
  <2>1. /\ Allocated' = (Allocated \ {packet, work}) \cup ({packet', work'} \ {Null})
        /\ packet' # Null => heap'[packet'] \in PacketType /\ work' # packet'
    BY <1>1, <1>2, <1>3, <1>4, <1>5
  <2> QED BY <1>1, <1>2, <1>3, <1>4, <2>1, PacketStep
<1>7. ParserTypeOK'
  BY <1>1, <1>6 DEF ParserInv, ParserTypeOK
<1>8. ParserPlaces' /\ ParserFields' /\ ParsedFields'
  BY <1>1, <1>2, <1>3, <1>5, <1>6, NullAssumption
     DEF ParserInv, ParserPlaces, ParserFields, ParsedFields
<1> QED BY <1>6, <1>7, <1>8 DEF ParserInv

\* A line is freed.
LEMMA LineFreed ==
    ASSUME ParserInv, HeapSafe, work # Null, Free({work}), work' = Null,
           UNCHANGED <<packet, line, chain, at, callers, kept, gone>>,
           packet # Null, parserPc # "free", parserPc' # "free", ret' \in {0, 1}
    PROVE  /\ ParserContract /\ PacketsLinked' /\ PacketsApart' /\ ParserTypeOK'
           /\ heap'[packet] = heap[packet]
<1>1. work \in Allocated /\ Null \notin Allocated
  BY DEF ParserInv, ParserPlaces, HeapSafe
<1>2. /\ Allocated' = Allocated \ {work} /\ freedTwice' = FALSE
      /\ \A c \in Allocated \ {work} : heap'[c] = heap[c]
  <2>1. {work} \subseteq Allocated
    BY <1>1
  <2> QED BY <2>1, FreeFacts DEF HeapSafe
<1>3. /\ packet \in Allocated /\ packet # work /\ heap'[packet] = heap[packet]
      /\ heap[packet] \in PacketType
  BY <1>2, ParserFacts DEF ParserInv, PacketsApart
<1>4. /\ ParserContract /\ PacketsLinked' /\ PacketsApart'
      /\ {packet', work', chain', at'} \subseteq Blocks \cup {Null}
      /\ {kept', gone', callers'} \subseteq Seq(Blocks)
      /\ \A c \in Packets' : c \in Allocated' /\ heap'[c] \in PacketType
  <2>1. /\ Allocated' = (Allocated \ {packet, work}) \cup ({packet', work'} \ {Null})
        /\ packet' # Null => heap'[packet'] \in PacketType /\ work' # packet'
    BY <1>1, <1>2, <1>3
  <2> QED BY <1>2, <2>1, PacketStep
<1>5. ParserTypeOK'
  BY <1>4 DEF ParserInv, ParserTypeOK
<1> QED BY <1>3, <1>4, <1>5

LEMMA ValidatedKeeps == ParserInv /\ HeapSafe /\ Validated => ParserInv' /\ ParserContract
<1> SUFFICES ASSUME ParserInv, HeapSafe, Validated PROVE ParserInv' /\ ParserContract
  OBVIOUS
<1>1. /\ parserPc = "validate" /\ parserPc' = "validated" /\ Free({work}) /\ work' = Null
      /\ ret' \in {0, 1}
      /\ UNCHANGED <<packet, line, chain, at, callers, kept, gone>>
  BY DEF Validated
<1>2. work # Null /\ packet # Null
  BY <1>1 DEF ParserInv, ParserPlaces
<1>3. /\ ParserContract /\ PacketsLinked' /\ PacketsApart' /\ ParserTypeOK'
      /\ heap'[packet] = heap[packet]
  BY <1>1, <1>2, LineFreed
<1>4. ParserPlaces' /\ ParserFields' /\ ParsedFields'
  BY <1>1, <1>2, <1>3 DEF ParserInv, ParserPlaces, ParserFields, ParsedFields
<1> QED BY <1>3, <1>4 DEF ParserInv

LEMMA FreeLineKeeps == ParserInv /\ HeapSafe /\ FreeLine => ParserInv' /\ ParserContract
<1> SUFFICES ASSUME ParserInv, HeapSafe, FreeLine PROVE ParserInv' /\ ParserContract
  OBVIOUS
<1>1. /\ parserPc = "free line" /\ parserPc' = "tokens" /\ Free({work}) /\ work' = Null
      /\ UNCHANGED <<packet, line, ret, chain, at, callers, kept, gone>>
  BY DEF FreeLine
<1>2. work # Null /\ packet # Null /\ ret' \in {0, 1}
  BY <1>1 DEF ParserInv, ParserPlaces, ParserTypeOK
<1>3. /\ ParserContract /\ PacketsLinked' /\ PacketsApart' /\ ParserTypeOK'
      /\ heap'[packet] = heap[packet]
  BY <1>1, <1>2, LineFreed
<1>4. ParserPlaces' /\ ParserFields' /\ ParsedFields'
  BY <1>1, <1>2, <1>3 DEF ParserInv, ParserPlaces, ParserFields, ParsedFields
<1> QED BY <1>3, <1>4 DEF ParserInv

\* Nothing is written but the packet that is parsed.
LEMMA PacketWritten ==
    ASSUME ParserInv, HeapSafe, packet # Null, work = Null,
           UNCHANGED <<packet, work, chain, at, callers, kept, gone>>,
           parserPc # "free", parserPc' # "free", line' \in Seq(Tokens), ret' \in {0, 1},
           Allocated' = Allocated, freedTwice' = FALSE, heap'[packet] \in PacketType,
           \A b \in Allocated \ {packet} : heap'[b] = heap[b]
    PROVE  ParserContract /\ PacketsLinked' /\ PacketsApart' /\ ParserTypeOK'
<1>1. packet \in Allocated /\ Null \notin Allocated
  BY ParserFacts DEF HeapSafe
<1>2. /\ ParserContract /\ PacketsLinked' /\ PacketsApart'
      /\ {packet', work', chain', at'} \subseteq Blocks \cup {Null}
      /\ {kept', gone', callers'} \subseteq Seq(Blocks)
      /\ \A c \in Packets' : c \in Allocated' /\ heap'[c] \in PacketType
  <2>1. /\ Allocated' = (Allocated \ {packet, work}) \cup ({packet', work'} \ {Null})
        /\ packet' # Null => heap'[packet'] \in PacketType /\ work' # packet'
    BY <1>1
  <2> QED BY <2>1, PacketStep
<1>3. ParserTypeOK'
  BY <1>2 DEF ParserTypeOK
<1> QED BY <1>2, <1>3

LEMMA CallParseKeeps == ParserInv /\ HeapSafe /\ CallParse => ParserInv' /\ ParserContract
<1> SUFFICES ASSUME ParserInv, HeapSafe, CallParse PROVE ParserInv' /\ ParserContract
  OBVIOUS
<1>1. /\ parserPc \in {"none", "validated"} /\ parserPc' = "split" /\ ret' = 0
      /\ line' \in Seq(Tokens)
      /\ UNCHANGED <<packet, work, chain, at, callers, kept, gone>>
  BY DEF CallParse, ParserInv, ParserTypeOK
<1>2. heap' = [heap EXCEPT ![packet] = Cleared] /\ freedTwice' = FALSE
  BY DEF CallParse, Store, HeapSafe
<1>3. packet # Null /\ work = Null
  BY <1>1 DEF CallParse, ParserInv, ParserPlaces
<1>4. packet \in Allocated
  BY <1>3, ParserFacts
<1>5. /\ Allocated' = Allocated /\ heap'[packet] = Cleared
      /\ \A c \in Allocated \ {packet} : heap'[c] = heap[c]
  BY <1>2, <1>4, StoreFacts
<1>6. Cleared \in PacketType /\ Cleared.next = Null
  BY DEF PacketType, Cleared, Field
<1>7. ParserContract /\ PacketsLinked' /\ PacketsApart' /\ ParserTypeOK'
  BY <1>1, <1>2, <1>3, <1>5, <1>6, PacketWritten
<1>8. ParserPlaces' /\ ParserFields' /\ ParsedFields'
  BY <1>1, <1>3, <1>5, <1>6 DEF ParserPlaces, ParserFields, ParsedFields
<1> QED BY <1>7, <1>8 DEF ParserInv

LEMMA SplitKeeps == ParserInv /\ HeapSafe /\ Split => ParserInv' /\ ParserContract
<1> SUFFICES ASSUME ParserInv, HeapSafe, Split PROVE ParserInv' /\ ParserContract
  OBVIOUS
<1>1. /\ parserPc = "split" /\ parserPc' = "free line"
      /\ UNCHANGED <<packet, line, ret, chain, at, callers, kept, gone>>
  BY DEF Split
<1>2. PICK b \in Fresh : /\ heap' = With(b, Text(line)) /\ freedTwice' = freedTwice
                         /\ work' = b
  BY DEF Split, Malloc
<1>3. /\ b \in Blocks /\ b \notin Allocated /\ Allocated' = Allocated \cup {b}
      /\ \A c \in Allocated : heap'[c] = heap[c]
  BY <1>2, MallocFacts
<1>4. work = Null /\ packet # Null /\ Null \notin Allocated /\ freedTwice' = FALSE
  BY <1>1, <1>2 DEF ParserInv, ParserPlaces, HeapSafe
<1>5. packet \in Allocated /\ heap'[packet] = heap[packet] /\ heap'[packet] \in PacketType
  BY <1>3, <1>4, ParserFacts
<1>6. /\ ParserContract /\ PacketsLinked' /\ PacketsApart'
      /\ {packet', work', chain', at'} \subseteq Blocks \cup {Null}
      /\ {kept', gone', callers'} \subseteq Seq(Blocks)
      /\ \A c \in Packets' : c \in Allocated' /\ heap'[c] \in PacketType
      /\ work' # Null => work' \in Allocated'
  <2>1. /\ Allocated' = (Allocated \ {packet, work}) \cup ({packet', work'} \ {Null})
        /\ packet' # Null => heap'[packet'] \in PacketType /\ work' # packet'
    BY <1>1, <1>2, <1>3, <1>4, <1>5
  <2> QED BY <1>1, <1>2, <1>3, <1>4, <2>1, PacketStep
<1>7. ParserTypeOK'
  BY <1>1, <1>6 DEF ParserInv, ParserTypeOK
<1>8. ParserPlaces' /\ ParserFields' /\ ParsedFields'
  BY <1>1, <1>2, <1>3, <1>4, <1>5, <1>6
     DEF ParserInv, ParserPlaces, ParserFields, ParsedFields
<1> QED BY <1>6, <1>7, <1>8 DEF ParserInv

\* Steps between the reads of the tokens: no block is written.
LEMMA ParserQuiet ==
    ASSUME ParserInv, HeapSafe, packet # Null, work = Null, heap' = heap,
           UNCHANGED <<freedTwice, packet, line, work, chain, at, callers, kept, gone>>,
           parserPc # "free", parserPc' # "free", ret' \in {0, 1}
    PROVE  ParserContract /\ PacketsLinked' /\ PacketsApart' /\ ParserTypeOK'
<1>1. Allocated' = Allocated /\ heap'[packet] \in PacketType /\ freedTwice' = FALSE
  BY ParserFacts DEF Allocated, HeapSafe
<1>2. line' \in Seq(Tokens)
  BY DEF ParserInv, ParserTypeOK
<1> QED BY <1>1, <1>2, PacketWritten

LEMMA SkipTokensKeeps ==
    ParserInv /\ HeapSafe /\ SkipTokens => ParserInv' /\ ParserContract
<1> SUFFICES ASSUME ParserInv, HeapSafe, SkipTokens PROVE ParserInv' /\ ParserContract
  OBVIOUS
<1>1. /\ parserPc = "tokens" /\ parserPc' = "clean" /\ ret' \in {0, 1}
      /\ line = <<>> \/ Len(line) > 3
      /\ heap' = heap
      /\ UNCHANGED <<freedTwice, packet, line, work, chain, at, callers, kept, gone>>
  BY DEF SkipTokens
<1>2. packet # Null /\ work = Null
  BY <1>1 DEF ParserInv, ParserPlaces
<1>3. ParserContract /\ PacketsLinked' /\ PacketsApart' /\ ParserTypeOK'
  BY <1>1, <1>2, ParserQuiet
<1>4. Len(line) \notin 1 .. 3
  <2>1. CASE line = <<>>
    BY <2>1
  <2>2. CASE Len(line) > 3
    <3>1. ASSUME NEW n, n > 3, n \in 1 .. 3 PROVE FALSE
      BY <3>1
    <3> QED BY <2>2, <3>1
  <2> QED BY <1>1, <2>1, <2>2
<1>5. ParserPlaces' /\ ParserFields' /\ ParsedFields'
  BY <1>1, <1>2, <1>4 DEF ParserInv, ParserPlaces, ParserFields, ParsedFields
<1> QED BY <1>3, <1>5 DEF ParserInv

LEMMA ParseSucceedsKeeps ==
    ParserInv /\ HeapSafe /\ ParseSucceeds => ParserInv' /\ ParserContract
<1> SUFFICES ASSUME ParserInv, HeapSafe, ParseSucceeds PROVE ParserInv' /\ ParserContract
  OBVIOUS
<1>1. /\ parserPc = "clean" /\ parserPc' = "parsed" /\ ret = 0 /\ ret' = 0
      /\ heap' = heap
      /\ UNCHANGED <<freedTwice, packet, line, work, chain, at, callers, kept, gone>>
  BY DEF ParseSucceeds, Failed
<1>2. packet # Null /\ work = Null
  BY <1>1 DEF ParserInv, ParserPlaces
<1>3. ParserContract /\ PacketsLinked' /\ PacketsApart' /\ ParserTypeOK'
  BY <1>1, <1>2, ParserQuiet
<1>4. ParserPlaces' /\ ParserFields' /\ ParsedFields'
  BY <1>1, <1>2 DEF ParserInv, ParserPlaces, ParserFields, ParsedFields
<1> QED BY <1>3, <1>4 DEF ParserInv

LEMMA SetFieldsKeeps == ParserInv /\ HeapSafe /\ SetFields => ParserInv' /\ ParserContract
<1> SUFFICES ASSUME ParserInv, HeapSafe, SetFields PROVE ParserInv' /\ ParserContract
  OBVIOUS
<1>1. /\ parserPc = "tokens" /\ parserPc' = "code" /\ ret' = 0 /\ Len(line) \in 1 .. 3
      /\ UNCHANGED <<packet, line, work, chain, at, callers, kept, gone>>
  BY DEF SetFields
<1>2. heap' = [heap EXCEPT ![packet] = Fields(heap[packet])] /\ freedTwice' = FALSE
  BY DEF SetFields, Store, HeapSafe
<1>3. packet # Null /\ work = Null /\ line' \in Seq(Tokens)
  BY <1>1 DEF ParserInv, ParserPlaces, ParserTypeOK
<1>4. packet \in Allocated /\ heap[packet] = Cleared
  BY <1>1, <1>3, ParserFacts DEF ParserInv, ParserFields
<1>5. /\ Allocated' = Allocated /\ heap'[packet] = Fields(Cleared)
      /\ \A c \in Allocated \ {packet} : heap'[c] = heap[c]
  BY <1>2, <1>4, StoreFacts
<1>6. /\ heap'[packet] \in PacketType /\ heap'[packet].next = Null
      /\ heap'[packet].hop_count = "unset"
  BY <1>5 DEF Fields, Cleared, PacketType, Field
<1>7. ParserContract /\ PacketsLinked' /\ PacketsApart' /\ ParserTypeOK'
  BY <1>1, <1>2, <1>3, <1>5, <1>6, PacketWritten
<1>8. ParserPlaces' /\ ParserFields' /\ ParsedFields'
  BY <1>1, <1>3, <1>6 DEF ParserPlaces, ParserFields, ParsedFields
<1> QED BY <1>7, <1>8 DEF ParserInv

LEMMA ReadCodeKeeps == ParserInv /\ HeapSafe /\ ReadCode => ParserInv' /\ ParserContract
<1> SUFFICES ASSUME ParserInv, HeapSafe, ReadCode PROVE ParserInv' /\ ParserContract
  OBVIOUS
<1>1. /\ parserPc = "code"
      /\ \/ ret' = 1 /\ parserPc' = "clean"
         \/ ret' = 0 /\ parserPc' = IF Len(line) > 1 THEN "hop" ELSE "clean"
      /\ UNCHANGED <<packet, line, work, chain, at, callers, kept, gone>>
  BY DEF ReadCode
<1>2. heap' = [heap EXCEPT ![packet] = [heap[packet] EXCEPT !.code = "read"]]
      /\ freedTwice' = FALSE
  BY DEF ReadCode, Store, HeapSafe
<1>3. /\ packet # Null /\ work = Null /\ line' \in Seq(Tokens)
      /\ Len(line) \in 1 .. 3 /\ heap[packet].hop_count = "unset"
      /\ heap[packet].next = Null
  BY <1>1 DEF ParserInv, ParserPlaces, ParserFields, ParserTypeOK
<1>4. packet \in Allocated /\ heap[packet] \in PacketType
  BY <1>3, ParserFacts
<1>5. /\ Allocated' = Allocated /\ heap'[packet] = [heap[packet] EXCEPT !.code = "read"]
      /\ \A c \in Allocated \ {packet} : heap'[c] = heap[c]
  BY <1>2, <1>4, StoreFacts
<1>6. /\ heap'[packet] \in PacketType /\ heap'[packet].next = Null
      /\ heap'[packet].code = "read" /\ heap'[packet].hop_count = "unset"
  BY <1>3, <1>4, <1>5 DEF PacketType, Field
<1>7. ParserContract /\ PacketsLinked' /\ PacketsApart' /\ ParserTypeOK'
  BY <1>1, <1>2, <1>3, <1>5, <1>6, PacketWritten
<1>8. CASE parserPc' = "hop"
  <2>1. Len(line) \in 2 .. 3
    <3>1. Len(line) > 1
      BY <1>1, <1>8
    <3>2. ASSUME NEW n, n > 1, n \in 1 .. 3 PROVE n \in 2 .. 3
      BY <3>2
    <3> QED BY <1>3, <3>1, <3>2
  <2>2. ParserPlaces' /\ ParserFields' /\ ParsedFields'
    BY <1>1, <1>3, <1>6, <1>8, <2>1 DEF ParserPlaces, ParserFields, ParsedFields
  <2> QED BY <1>7, <2>2 DEF ParserInv
<1>9. CASE parserPc' = "clean"
  <2>1. ret' = 0 => Len(line) = 1
    <3>1. ret' = 0 => ~(Len(line) > 1)
      BY <1>1, <1>9
    <3>2. ASSUME NEW n \in 1 .. 3, ~(n > 1) PROVE n = 1
      BY <3>2
    <3> QED BY <1>3, <3>1, <3>2
  <2>2. ParserPlaces' /\ ParserFields' /\ ParsedFields'
    BY <1>1, <1>3, <1>6, <1>9, <2>1 DEF ParserPlaces, ParserFields, ParsedFields
  <2> QED BY <1>7, <2>2 DEF ParserInv
<1> QED BY <1>1, <1>8, <1>9

LEMMA ReadHopKeeps == ParserInv /\ HeapSafe /\ ReadHop => ParserInv' /\ ParserContract
<1> SUFFICES ASSUME ParserInv, HeapSafe, ReadHop PROVE ParserInv' /\ ParserContract
  OBVIOUS
<1>1. /\ parserPc = "hop" /\ parserPc' = "clean" /\ ret' \in {0, 1}
      /\ UNCHANGED <<packet, line, work, chain, at, callers, kept, gone>>
  BY DEF ReadHop
<1>2. heap' = [heap EXCEPT ![packet] = [heap[packet] EXCEPT !.hop_count = "read"]]
      /\ freedTwice' = FALSE
  BY DEF ReadHop, Store, HeapSafe
<1>3. /\ packet # Null /\ work = Null /\ line' \in Seq(Tokens)
      /\ Len(line) \in 2 .. 3 /\ heap[packet].code = "read" /\ heap[packet].next = Null
  BY <1>1 DEF ParserInv, ParserPlaces, ParserFields, ParserTypeOK
<1>4. packet \in Allocated /\ heap[packet] \in PacketType
  BY <1>3, ParserFacts
<1>5. /\ Allocated' = Allocated
      /\ heap'[packet] = [heap[packet] EXCEPT !.hop_count = "read"]
      /\ \A c \in Allocated \ {packet} : heap'[c] = heap[c]
  BY <1>2, <1>4, StoreFacts
<1>6. /\ heap'[packet] \in PacketType /\ heap'[packet].next = Null
      /\ heap'[packet].code = "read" /\ heap'[packet].hop_count = "read"
  BY <1>3, <1>4, <1>5 DEF PacketType, Field
<1>7. ParserContract /\ PacketsLinked' /\ PacketsApart' /\ ParserTypeOK'
  BY <1>1, <1>2, <1>3, <1>5, <1>6, PacketWritten
<1>8. Len(line) \in 1 .. 3 /\ Len(line) # 1
  <2>1. ASSUME NEW n \in 2 .. 3 PROVE n \in 1 .. 3 /\ n # 1
    OBVIOUS
  <2> QED BY <1>3, <2>1
<1>9. ParserPlaces' /\ ParserFields' /\ ParsedFields'
  BY <1>1, <1>3, <1>6, <1>8 DEF ParserPlaces, ParserFields, ParsedFields
<1> QED BY <1>7, <1>9 DEF ParserInv

LEMMA ParsePacketKeeps ==
    ParserInv /\ HeapSafe /\ ParsePacket => ParserInv' /\ ParserContract
<1> SUFFICES ASSUME ParserInv, HeapSafe, ParsePacket PROVE ParserInv' /\ ParserContract
  OBVIOUS
<1> DEFINE Read == [code |-> "read", hop_count |-> "read", next |-> Null]
<1>1. /\ parserPc = "none" /\ packet = Null /\ line' \in Lines /\ parserPc' = "data"
      /\ UNCHANGED <<work, ret, chain, at, callers, kept, gone>>
  BY DEF ParsePacket
<1>2. PICK b \in Fresh : /\ heap' = With(b, Read) /\ freedTwice' = freedTwice
                         /\ packet' = b
  BY DEF ParsePacket, Malloc
<1>3. /\ b \in Blocks /\ b \notin Allocated /\ Allocated' = Allocated \cup {b}
      /\ heap'[b] = Read
      /\ \A c \in Allocated : heap'[c] = heap[c]
  BY <1>2, MallocFacts
<1>4. work = Null /\ Null \notin Allocated /\ freedTwice' = FALSE
  BY <1>1, <1>2 DEF ParserInv, ParserPlaces, HeapSafe
<1>5. heap'[b] \in PacketType /\ heap'[b].next = Null
  BY <1>3 DEF PacketType, Field
<1>6. /\ ParserContract /\ PacketsLinked' /\ PacketsApart'
      /\ {packet', work', chain', at'} \subseteq Blocks \cup {Null}
      /\ {kept', gone', callers'} \subseteq Seq(Blocks)
      /\ \A c \in Packets' : c \in Allocated' /\ heap'[c] \in PacketType
  <2>1. /\ Allocated' = (Allocated \ {packet, work}) \cup ({packet', work'} \ {Null})
        /\ packet' # Null => heap'[packet'] \in PacketType /\ work' # packet'
    BY <1>1, <1>2, <1>3, <1>4, <1>5
  <2> QED BY <1>1, <1>2, <1>3, <1>4, <2>1, PacketStep
<1>7. ParserTypeOK'
  BY <1>1, <1>6 DEF ParserInv, ParserTypeOK
<1>8. ParserPlaces' /\ ParserFields' /\ ParsedFields'
  BY <1>1, <1>2, <1>3, <1>4, <1>5 DEF ParserPlaces, ParserFields, ParsedFields
<1> QED BY <1>6, <1>7, <1>8 DEF ParserInv

LEMMA ParsePacketCrashesKeeps ==
    ParserInv /\ HeapSafe /\ ParsePacketCrashes => ParserInv' /\ ParserContract
<1> SUFFICES ASSUME ParserInv, HeapSafe, ParsePacketCrashes
             PROVE  ParserInv' /\ ParserContract
  OBVIOUS
<1>1. /\ parserPc = "none" /\ packet = Null /\ line' \in Lines /\ parserPc' = "crashed"
      /\ UNCHANGED <<heap, freedTwice, packet, work, ret, chain, at, callers, kept, gone>>
  BY DEF ParsePacketCrashes
<1>2. /\ work = Null /\ Null \notin Allocated /\ freedTwice' = FALSE
      /\ Allocated' = Allocated
  BY <1>1 DEF ParserInv, ParserPlaces, HeapSafe, Allocated
<1>3. /\ ParserContract /\ PacketsLinked' /\ PacketsApart'
      /\ {packet', work', chain', at'} \subseteq Blocks \cup {Null}
      /\ {kept', gone', callers'} \subseteq Seq(Blocks)
      /\ \A c \in Packets' : c \in Allocated' /\ heap'[c] \in PacketType
  <2>1. /\ Allocated' = (Allocated \ {packet, work}) \cup ({packet', work'} \ {Null})
        /\ packet' # Null => heap'[packet'] \in PacketType /\ work' # packet'
    BY <1>1, <1>2
  <2> QED BY <1>1, <1>2, <2>1, PacketStep
<1>4. ParserTypeOK'
  BY <1>1, <1>3 DEF ParserInv, ParserTypeOK
<1>5. ParserPlaces' /\ ParserFields' /\ ParsedFields'
  BY <1>1, <1>2 DEF ParserPlaces, ParserFields, ParsedFields
<1> QED BY <1>3, <1>4, <1>5 DEF ParserInv

LEMMA CopyDataKeeps == ParserInv /\ HeapSafe /\ CopyData => ParserInv' /\ ParserContract
<1> SUFFICES ASSUME ParserInv, HeapSafe, CopyData PROVE ParserInv' /\ ParserContract
  OBVIOUS
<1>1. /\ parserPc = "data" /\ parserPc' = "pack"
      /\ UNCHANGED <<packet, line, ret, chain, at, callers, kept, gone>>
  BY DEF CopyData
<1>2. /\ work = Null /\ packet # Null /\ Null \notin Allocated /\ freedTwice = FALSE
      /\ line' \in Seq(Tokens) /\ ret' \in {0, 1} /\ heap[packet].next = Null
  BY <1>1 DEF ParserInv, ParserPlaces, ParserTypeOK, HeapSafe
<1>3. packet \in Allocated /\ heap[packet] \in PacketType
  BY <1>2, ParserFacts
<1>4. CASE Len(line) > 2
  <2>1. PICK b \in Fresh : /\ heap' = With(b, Text(line[3])) /\ freedTwice' = freedTwice
                           /\ work' = b
    BY <1>4 DEF CopyData, Malloc
  <2>2. /\ b \in Blocks /\ b \notin Allocated /\ Allocated' = Allocated \cup {b}
        /\ \A c \in Allocated : heap'[c] = heap[c]
    BY <2>1, MallocFacts
  <2>3. /\ ParserContract /\ PacketsLinked' /\ PacketsApart'
        /\ {packet', work', chain', at'} \subseteq Blocks \cup {Null}
        /\ {kept', gone', callers'} \subseteq Seq(Blocks)
        /\ \A c \in Packets' : c \in Allocated' /\ heap'[c] \in PacketType
        /\ work' # Null => work' \in Allocated'
    <3>1. /\ Allocated' = (Allocated \ {packet, work}) \cup ({packet', work'} \ {Null})
          /\ packet' # Null => heap'[packet'] \in PacketType /\ work' # packet'
      BY <1>1, <1>2, <1>3, <2>1, <2>2
    <3> QED BY <1>1, <1>2, <2>1, <2>2, <3>1, PacketStep
  <2>4. ParserTypeOK'
    BY <1>2, <2>3 DEF ParserTypeOK
  <2>5. work' # Null /\ heap'[packet] = heap[packet] /\ Len(line') > 2
    BY <1>1, <1>3, <1>4, <2>1, <2>2, NullAssumption
  <2>6. ParserPlaces' /\ ParserFields' /\ ParsedFields'
    BY <1>1, <1>2, <2>3, <2>5 DEF ParserPlaces, ParserFields, ParsedFields
  <2> QED BY <2>3, <2>4, <2>6 DEF ParserInv
<1>5. CASE ~(Len(line) > 2)
  <2>1. heap' = heap /\ UNCHANGED <<freedTwice, work>>
    BY <1>5 DEF CopyData
  <2>2. ParserContract /\ PacketsLinked' /\ PacketsApart' /\ ParserTypeOK'
    BY <1>1, <1>2, <2>1, ParserQuiet
  <2>3. ParserPlaces' /\ ParserFields' /\ ParsedFields'
    BY <1>1, <1>2, <1>5, <2>1 DEF ParserPlaces, ParserFields, ParsedFields
  <2> QED BY <2>2, <2>3 DEF ParserInv
<1> QED BY <1>4, <1>5

LEMMA UsePackKeeps == ParserInv /\ HeapSafe /\ UsePack => ParserInv' /\ ParserContract
<1> SUFFICES ASSUME ParserInv, HeapSafe, UsePack PROVE ParserInv' /\ ParserContract
  OBVIOUS
<1>1. /\ parserPc = "pack" /\ parserPc' = "none" /\ Free({packet, work} \ {Null})
      /\ packet' = Null /\ work' = Null /\ line' = <<>>
      /\ UNCHANGED <<ret, chain, at, callers, kept, gone>>
  BY DEF UsePack
<1>2. /\ Allocated' = Allocated \ {packet, work} /\ freedTwice' = FALSE
      /\ \A c \in Allocated \ {packet, work} : heap'[c] = heap[c]
  <2>1. {packet, work} \ {Null} \subseteq Allocated
    BY ParserFacts DEF ParserInv, ParserPlaces
  <2>2. Null \notin Allocated
    BY DEF HeapSafe
  <2>3. /\ Allocated' = Allocated \ ({packet, work} \ {Null}) /\ freedTwice' = FALSE
        /\ \A c \in Allocated \ ({packet, work} \ {Null}) : heap'[c] = heap[c]
    BY <1>1, <2>1, FreeFacts DEF HeapSafe
  <2> QED BY <2>2, <2>3
<1>3. /\ ParserContract /\ PacketsLinked' /\ PacketsApart'
      /\ {packet', work', chain', at'} \subseteq Blocks \cup {Null}
      /\ {kept', gone', callers'} \subseteq Seq(Blocks)
      /\ \A c \in Packets' : c \in Allocated' /\ heap'[c] \in PacketType
  <2>1. Allocated' = (Allocated \ {packet, work}) \cup ({packet', work'} \ {Null})
    BY <1>1, <1>2
  <2> QED BY <1>1, <1>2, <2>1, PacketStep
<1>4. ParserTypeOK'
  BY <1>1, <1>3 DEF ParserInv, ParserTypeOK
<1>5. ParserPlaces' /\ ParserFields' /\ ParsedFields'
  BY <1>1 DEF ParserPlaces, ParserFields, ParsedFields
<1> QED BY <1>3, <1>4, <1>5 DEF ParserInv

\* While nothing is freed.
LEMMA NothingGone ==
    ASSUME ParserInv, parserPc # "free"
    PROVE  gone = <<>> /\ at = Null /\ callers = <<>> /\ Range(gone) = {} /\ Len(gone) = 0
  BY DEF ParserInv, PacketsLinked, Range

LEMMA ParseFailsKeeps ==
    ParserInv /\ HeapSafe /\ ParseFails => ParserInv' /\ ParserContract
<1> SUFFICES ASSUME ParserInv, HeapSafe, ParseFails PROVE ParserInv' /\ ParserContract
  OBVIOUS
<1>1. /\ parserPc = "clean" /\ parserPc' = "free" /\ at' = packet /\ gone' = <<packet>>
      /\ packet' = Null /\ line' = <<>> /\ ret' = 0
      /\ UNCHANGED <<heap, freedTwice, work, chain, callers, kept>>
  BY DEF ParseFails
<1>2. /\ packet # Null /\ work = Null /\ heap[packet].next = Null
      /\ Allocated' = Allocated /\ heap' = heap /\ freedTwice' = FALSE
  BY <1>1 DEF ParserInv, ParserPlaces, Allocated, HeapSafe
<1>3. gone = <<>> /\ callers = <<>> /\ Range(gone) = {}
  BY <1>1, NothingGone
<1>4. packet \in Packets /\ packet \in Blocks /\ Null \notin Packets
  BY <1>2, ParserFacts, NullAssumption
<1>5. /\ gone' \in Seq(Blocks) /\ Len(gone') = 1 /\ gone'[1] = packet /\ gone' # <<>>
      /\ Range(gone)' = {packet} /\ IsInjective(gone')
  BY <1>1, <1>4 DEF Range, IsInjective
<1>6. /\ Range(kept)' = Range(kept) /\ packet \notin Range(kept)
      /\ Packets' = Packets /\ ParserOwned' = ParserOwned
  <2>1. Packets = Range(kept) \cup {packet}
    BY <1>2, <1>3 DEF Packets
  <2>2. Packets' = Range(kept) \cup {packet}
    BY <1>1, <1>5 DEF Packets
  <2> QED BY <1>1, <2>1, <2>2 DEF ParserInv, PacketsApart, ParserOwned
<1>7. ParserTypeOK'
  <2>1. <<>> \in Seq(Tokens)
    OBVIOUS
  <2> QED BY <1>1, <1>2, <1>5, <1>6, <2>1 DEF ParserInv, ParserTypeOK
<1>8. PacketsLinked'
  <2>1. Len(callers') = 0 /\ \A i \in 1 .. Len(callers') : FALSE
    BY <1>1, <1>3
  <2> QED BY <1>1, <1>2, <1>5, <2>1 DEF ParserInv, PacketsLinked
<1>9. PacketsApart'
  BY <1>1, <1>2, <1>4, <1>5, <1>6, ParserFacts DEF ParserInv, PacketsApart
<1>10. ParserPlaces' /\ ParserFields' /\ ParsedFields'
  BY <1>1, <1>2 DEF ParserPlaces, ParserFields, ParsedFields
<1>11. ParserContract
  BY <1>2, <1>6, ParserFacts DEF ParserContract, KeepsOthers
<1> QED BY <1>7, <1>8, <1>9, <1>10, <1>11 DEF ParserInv

LEMMA KeepKeeps == ParserInv /\ HeapSafe /\ Keep => ParserInv' /\ ParserContract
<1> SUFFICES ASSUME ParserInv, HeapSafe, Keep PROVE ParserInv' /\ ParserContract
  OBVIOUS
<1>1. /\ parserPc = "parsed" /\ parserPc' = "none" /\ chain' = packet
      /\ kept' = <<packet>> \o kept /\ packet' = Null /\ line' = <<>> /\ ret' = 0
      /\ UNCHANGED <<work, at, callers, gone>>
  BY DEF Keep
<1>2. heap' = [heap EXCEPT ![packet] = [heap[packet] EXCEPT !.next = chain]]
      /\ freedTwice' = FALSE
  BY DEF Keep, Store, HeapSafe
<1>3. packet # Null /\ work = Null /\ chain \in Blocks \cup {Null}
  BY <1>1 DEF ParserInv, ParserPlaces, ParserTypeOK
<1>4. /\ packet \in Packets /\ packet \in Blocks /\ Null \notin Packets
      /\ packet \in Allocated /\ heap[packet] \in PacketType
  BY <1>3, ParserFacts, NullAssumption
<1>5. /\ Allocated' = Allocated /\ heap'[packet] = [heap[packet] EXCEPT !.next = chain]
      /\ \A c \in Allocated \ {packet} : heap'[c] = heap[c]
  BY <1>2, <1>4, StoreFacts
<1>6. heap'[packet] \in PacketType /\ heap'[packet].next = chain
  BY <1>3, <1>4, <1>5 DEF PacketType
<1>7. gone = <<>> /\ callers = <<>> /\ at = Null /\ Range(gone) = {}
  BY <1>1, NothingGone
<1>8. /\ packet \notin Range(kept) /\ IsInjective(kept)
      /\ chain = IF kept = <<>> THEN Null ELSE kept[1]
  BY DEF ParserInv, PacketsApart, PacketsLinked
<1>9. /\ kept' \in Seq(Blocks) /\ kept' # <<>> /\ Len(kept') = Len(kept) + 1
      /\ kept'[1] = packet
      /\ \A i \in 2 .. Len(kept) + 1 : kept'[i] = kept[i - 1]
      /\ Range(kept)' = Range(kept) \cup {packet} /\ IsInjective(kept')
  <2>1. kept \in Seq(Blocks)
    BY ParserFacts
  <2> QED BY <1>1, <1>4, <1>8, <2>1, ConsFresh
<1>10. Packets' = Packets /\ ParserOwned' = ParserOwned /\ Range(gone)' = {}
  <2>1. Packets = Range(kept) \cup {packet}
    BY <1>3, <1>7 DEF Packets
  <2>2. Range(gone)' = {}
    BY <1>1, <1>7
  <2>3. Packets' = Range(kept) \cup {packet}
    BY <1>1, <1>9, <2>2 DEF Packets
  <2> QED BY <1>1, <2>1, <2>2, <2>3 DEF ParserOwned
<1>11. ParserTypeOK'
  <2>1. <<>> \in Seq(Tokens)
    OBVIOUS
  <2>2. \A b \in Packets' : b \in Allocated' /\ heap'[b] \in PacketType
    BY <1>5, <1>6, <1>10, ParserFacts
  <2> QED BY <1>1, <1>4, <1>9, <2>1, <2>2 DEF ParserInv, ParserTypeOK
<1>12. PacketsLinked'
  <2>1. ASSUME NEW i \in 1 .. Len(kept')
        PROVE  heap'[kept'[i]].next = IF i = Len(kept') THEN Null ELSE kept'[i + 1]
    <3>0. Len(kept) \in Nat /\ (kept = <<>> <=> Len(kept) = 0)
      BY ParserFacts, RangeSeq
    <3>1. CASE i = 1
      <4>1. CASE kept = <<>>
        BY <1>6, <1>8, <1>9, <3>0, <3>1, <4>1
      <4>2. CASE kept # <<>>
        <5>1. 2 \in 2 .. Len(kept) + 1 /\ 1 # Len(kept) + 1
          BY <3>0, <4>2
        <5>2. kept'[2] = kept[1]
          BY <1>9, <5>1
        <5> QED BY <1>6, <1>8, <1>9, <3>1, <4>2, <5>1, <5>2
      <4> QED BY <4>1, <4>2
    <3>2. CASE i # 1
      <4>1. i \in 2 .. Len(kept) + 1 /\ i - 1 \in 1 .. Len(kept)
        BY <1>9, <3>0, <3>2
      <4>2. kept'[i] = kept[i - 1]
        BY <1>9, <4>1
      <4>3. kept[i - 1] \in Allocated \ {packet}
        BY <1>8, <4>1, ParserFacts
      <4>4. heap'[kept'[i]] = heap[kept[i - 1]]
        BY <1>5, <4>2, <4>3
      <4>5. heap[kept[i - 1]].next = IF i - 1 = Len(kept) THEN Null ELSE kept[(i - 1) + 1]
        BY <4>1 DEF ParserInv, PacketsLinked
      <4>6. i # Len(kept) + 1 => i + 1 \in 2 .. Len(kept) + 1 /\ (i + 1) - 1 = (i - 1) + 1
        BY <3>0, <4>1
      <4>7. i - 1 = Len(kept) <=> i = Len(kept')
        BY <1>9, <3>0, <4>1
      <4> QED BY <1>9, <4>4, <4>5, <4>6, <4>7
    <3> QED BY <3>1, <3>2
  <2>2. Len(gone') = 0 /\ \A i \in 1 .. Len(gone') : FALSE
    BY <1>1, <1>7
  <2> QED BY <1>1, <1>7, <1>9, <2>1, <2>2 DEF PacketsLinked
<1>13. PacketsApart'
  <2>1. IsInjective(gone')
    BY <1>1 DEF ParserInv, PacketsApart
  <2> QED BY <1>1, <1>3, <1>4, <1>9, <1>10, <2>1, ParserFacts DEF PacketsApart
<1>14. ParserPlaces' /\ ParserFields' /\ ParsedFields'
  BY <1>1, <1>3 DEF ParserPlaces, ParserFields, ParsedFields
<1>15. ParserContract
  BY <1>2, <1>4, <1>5, <1>10, ParserFacts DEF ParserContract, KeepsOthers, ParserOwned
<1> QED BY <1>11, <1>12, <1>13, <1>14, <1>15 DEF ParserInv

LEMMA CallFreePacketKeeps ==
    ParserInv /\ HeapSafe /\ CallFreePacket => ParserInv' /\ ParserContract
<1> SUFFICES ASSUME ParserInv, HeapSafe, CallFreePacket PROVE ParserInv' /\ ParserContract
  OBVIOUS
<1>1. /\ parserPc = "none" /\ parserPc' = "free" /\ packet = Null /\ chain # Null
      /\ at' = chain /\ gone' = kept /\ chain' = Null /\ kept' = <<>>
      /\ UNCHANGED <<heap, freedTwice, packet, line, work, ret, callers>>
  BY DEF CallFreePacket
<1>2. work = Null /\ Allocated' = Allocated /\ heap' = heap /\ freedTwice' = FALSE
  BY <1>1 DEF ParserInv, ParserPlaces, Allocated, HeapSafe
<1>3. gone = <<>> /\ callers = <<>> /\ Range(gone) = {}
  BY <1>1, NothingGone
<1>4. kept # <<>> /\ chain = kept[1]
  BY <1>1 DEF ParserInv, PacketsLinked
<1>5. Range(kept)' = {} /\ Range(gone)' = Range(kept)
  BY <1>1 DEF Range
<1>6. Packets' = Packets /\ ParserOwned' = ParserOwned
  BY <1>1, <1>3, <1>5 DEF Packets, ParserOwned
<1>7. ParserTypeOK'
  <2>1. <<>> \in Seq(Blocks)
    OBVIOUS
  <2> QED BY <1>1, <1>2, <1>6, <2>1 DEF ParserInv, ParserTypeOK
<1>8. PacketsLinked'
  <2>1. Len(callers') = 0 /\ \A i \in 1 .. Len(callers') : FALSE
    BY <1>1, <1>3
  <2>2. Len(kept') = 0 /\ \A i \in 1 .. Len(kept') : FALSE
    BY <1>1
  <2>3. 0 < Len(gone') /\ at' = gone'[0 + 1]
    BY <1>1, <1>4, ParserFacts
  <2> QED BY <1>1, <1>2, <1>4, <2>1, <2>2, <2>3 DEF ParserInv, PacketsLinked
<1>9. PacketsApart'
  <2>1. IsInjective(kept')
    BY <1>1 DEF IsInjective
  <2> QED BY <1>1, <1>5, <1>6, <2>1 DEF ParserInv, PacketsApart
<1>10. ParserPlaces' /\ ParserFields' /\ ParsedFields'
  BY <1>1, <1>2 DEF ParserPlaces, ParserFields, ParsedFields
<1>11. ParserContract
  BY <1>2, <1>6, ParserFacts DEF ParserContract, KeepsOthers
<1> QED BY <1>7, <1>8, <1>9, <1>10, <1>11 DEF ParserInv

\* Where epsp_packet_free is in the chain that it frees.
LEMMA InChain ==
    ASSUME ParserInv, HeapSafe, parserPc = "free"
    PROVE  /\ gone # <<>> /\ packet = Null /\ work = Null
           /\ Len(callers) + 1 \in 1 .. Len(gone) /\ at = gone[Len(callers) + 1]
           /\ at \in Range(gone) /\ at \in Packets /\ at \in Allocated
           /\ heap[at] \in PacketType
           /\ heap[at].next = IF Len(callers) + 1 = Len(gone) THEN Null
                              ELSE gone[(Len(callers) + 1) + 1]
           /\ Null \notin Packets
<1>1. gone # <<>> /\ packet = Null /\ work = Null
  BY DEF ParserInv, PacketsLinked, ParserPlaces
<1>2. Len(callers) < Len(gone) /\ at = gone[Len(callers) + 1]
  BY <1>1 DEF ParserInv, PacketsLinked
<1>3. Len(callers) + 1 \in 1 .. Len(gone)
  BY <1>2, ParserFacts
<1>4. at \in Range(gone) /\ at \in Packets /\ at \in Allocated /\ heap[at] \in PacketType
  BY <1>2, <1>3, ParserFacts
<1>5. heap[at].next = IF Len(callers) + 1 = Len(gone) THEN Null
                      ELSE gone[(Len(callers) + 1) + 1]
  BY <1>2, <1>3 DEF ParserInv, PacketsLinked
<1>6. Null \notin Packets
  BY ParserFacts, NullAssumption
<1> QED BY <1>1, <1>2, <1>3, <1>4, <1>5, <1>6

LEMMA FreeInnerKeeps == ParserInv /\ HeapSafe /\ FreeInner => ParserInv' /\ ParserContract
<1> SUFFICES ASSUME ParserInv, HeapSafe, FreeInner PROVE ParserInv' /\ ParserContract
  OBVIOUS
<1>1. /\ parserPc = "free" /\ heap[at].next # Null
      /\ callers' = Append(callers, at) /\ at' = heap[at].next
      /\ UNCHANGED <<parserPc, packet, line, work, ret, chain, kept, gone>>
  BY DEF FreeInner, HasNext
<1>2. /\ heap' = [heap EXCEPT ![at] = [heap[at] EXCEPT !.code = "zero", !.hop_count = "zero"]]
      /\ freedTwice' = FALSE
  BY DEF FreeInner, Store, HeapSafe
<1>3. /\ gone # <<>> /\ packet = Null /\ work = Null
      /\ Len(callers) + 1 \in 1 .. Len(gone) /\ at = gone[Len(callers) + 1]
      /\ at \in Range(gone) /\ at \in Packets /\ at \in Allocated
      /\ heap[at] \in PacketType
      /\ heap[at].next = IF Len(callers) + 1 = Len(gone) THEN Null
                         ELSE gone[(Len(callers) + 1) + 1]
      /\ Null \notin Packets
  BY <1>1, InChain
<1>4. /\ Allocated' = Allocated
      /\ heap'[at] = [heap[at] EXCEPT !.code = "zero", !.hop_count = "zero"]
      /\ \A c \in Allocated \ {at} : heap'[c] = heap[c]
  BY <1>2, <1>3, StoreFacts
<1>5. heap'[at] \in PacketType /\ heap'[at].next = heap[at].next
  BY <1>3, <1>4 DEF PacketType, Field
<1>6. \A b \in Packets : b \in Allocated' /\ heap'[b] \in PacketType
                         /\ heap'[b].next = heap[b].next
  BY <1>4, <1>5, ParserFacts
<1>7. /\ Range(kept)' = Range(kept) /\ Range(gone)' = Range(gone)
      /\ Packets' = Packets /\ ParserOwned' = ParserOwned
  BY <1>1 DEF Packets, ParserOwned
<1>8. at \in Blocks /\ heap[at].next \in Blocks
  BY <1>1, <1>3, ParserFacts DEF PacketType
<1>9. /\ callers' \in Seq(Blocks) /\ Len(callers') = Len(callers) + 1
      /\ \A i \in 1 .. Len(callers) : callers'[i] = callers[i]
      /\ callers'[Len(callers) + 1] = at
  <2>1. callers \in Seq(Blocks)
    BY ParserFacts
  <2> QED BY <1>1, <1>8, <2>1
<1>10. ParserTypeOK'
  BY <1>1, <1>6, <1>7, <1>8, <1>9 DEF ParserInv, ParserTypeOK
<1>11. PacketsLinked'
  <2>1. \A i \in 1 .. Len(kept) : heap'[kept[i]].next = heap[kept[i]].next
    BY <1>6, ParserFacts
  <2>2. \A i \in 1 .. Len(gone) : heap'[gone[i]].next = heap[gone[i]].next
    BY <1>6, ParserFacts
  <2>3. Len(callers) + 1 # Len(gone) /\ at' = gone[(Len(callers) + 1) + 1]
    BY <1>1, <1>3
  <2>4. Len(callers') < Len(gone) /\ at' = gone[Len(callers') + 1]
    BY <1>3, <1>9, <2>3, ParserFacts
  <2>5. ASSUME NEW i \in 1 .. Len(callers') PROVE callers'[i] = gone[i]
    <3>1. CASE i \in 1 .. Len(callers)
      <4>1. callers[i] = gone[i]
        BY <1>3, <3>1 DEF ParserInv, PacketsLinked
      <4> QED BY <1>9, <3>1, <4>1
    <3>2. CASE i = Len(callers) + 1
      BY <1>3, <1>9, <3>2
    <3> QED BY <1>9, <3>1, <3>2, ParserFacts
  <2> QED BY <1>1, <1>3, <2>1, <2>2, <2>4, <2>5 DEF ParserInv, PacketsLinked
<1>12. PacketsApart'
  BY <1>1, <1>7 DEF ParserInv, PacketsApart
<1>13. ParserPlaces' /\ ParserFields' /\ ParsedFields'
  BY <1>1, <1>3 DEF ParserPlaces, ParserFields, ParsedFields
<1>14. ParserContract
  BY <1>2, <1>3, <1>4, <1>7, ParserFacts DEF ParserContract, KeepsOthers, ParserOwned
<1> QED BY <1>10, <1>11, <1>12, <1>13, <1>14 DEF ParserInv

LEMMA FreePacketKeeps ==
    ParserInv /\ HeapSafe /\ FreePacket => ParserInv' /\ ParserContract
<1> SUFFICES ASSUME ParserInv, HeapSafe, FreePacket PROVE ParserInv' /\ ParserContract
  OBVIOUS
<1>1. /\ parserPc = "free" /\ heap[at].next = Null
      /\ gone' = SubSeq(gone, 1, Len(gone) - 1)
      /\ UNCHANGED <<packet, line, work, ret, chain, kept>>
  BY DEF FreePacket, HasNext
<1>2. /\ gone # <<>> /\ packet = Null /\ work = Null
      /\ Len(callers) + 1 \in 1 .. Len(gone) /\ at = gone[Len(callers) + 1]
      /\ at \in Range(gone) /\ at \in Packets /\ at \in Allocated
      /\ heap[at] \in PacketType
      /\ heap[at].next = IF Len(callers) + 1 = Len(gone) THEN Null
                         ELSE gone[(Len(callers) + 1) + 1]
      /\ Null \notin Packets
  BY <1>1, InChain
<1>3. Len(callers) + 1 = Len(gone)
  <2>1. Len(callers) + 1 # Len(gone) => (Len(callers) + 1) + 1 \in 1 .. Len(gone)
    BY <1>2, ParserFacts
  <2> QED BY <1>1, <1>2, <2>1, ParserFacts
<1>3a. /\ at = gone[Len(gone)] /\ Len(gone) \in 1 .. Len(gone)
       /\ \A i \in 1 .. Len(gone) - 1 : gone[i] # at /\ i \in 1 .. Len(gone)
       /\ \A i, j \in 1 .. Len(gone) : gone[i] = gone[j] => i = j
  <2>1. at = gone[Len(gone)] /\ Len(gone) \in 1 .. Len(gone)
    BY <1>2, <1>3
  <2>2. \A i, j \in 1 .. Len(gone) : gone[i] = gone[j] => i = j
    <3>1. IsInjective(gone) /\ DOMAIN gone = 1 .. Len(gone)
      BY ParserFacts DEF ParserInv, PacketsApart
    <3> QED BY <3>1 DEF IsInjective
  <2>3. \A i \in 1 .. Len(gone) - 1 : i \in 1 .. Len(gone) /\ i # Len(gone)
    BY ParserFacts
  <2> QED BY <2>1, <2>2, <2>3
<1>4. /\ gone' \in Seq(Blocks) /\ Len(gone') = Len(gone) - 1
      /\ \A i \in 1 .. Len(gone) - 1 : gone'[i] = gone[i]
      /\ Range(gone)' = Range(gone) \ {at} /\ IsInjective(gone')
  <2>1. gone \in Seq(Blocks) /\ IsInjective(gone)
    BY ParserFacts DEF ParserInv, PacketsApart
  <2> QED BY <1>1, <1>2, <1>3, <2>1, FrontOf
<1>5. /\ Range(kept)' = Range(kept) /\ Packets' = Packets \ {at}
      /\ ParserOwned' = ParserOwned \ {at}
  <2>1. at \notin Range(kept)
    BY <1>2 DEF ParserInv, PacketsApart
  <2>2. Range(kept)' = Range(kept)
    BY <1>1
  <2>3. Packets = Range(kept) \cup Range(gone) /\ Packets' = Range(kept) \cup (Range(gone) \ {at})
    BY <1>1, <1>2, <1>4, <2>2 DEF Packets
  <2>4. Packets' = Packets \ {at}
    BY <2>1, <2>3
  <2>5. ParserOwned = Packets /\ ParserOwned' = Packets'
    BY <1>1, <1>2 DEF ParserOwned
  <2> QED BY <2>2, <2>4, <2>5
<1>6. \A i \in 1 .. Len(callers) : i \in 1 .. Len(gone) - 1 /\ callers[i] = gone[i]
  <2>1. \A i \in 1 .. Len(callers) : callers[i] = gone[i]
    BY <1>2 DEF ParserInv, PacketsLinked
  <2> QED BY <1>3, <2>1, ParserFacts
<1>7. /\ PacketsApart'
      /\ parserPc' \in {"none", "free"} => ParserPlaces'
  <2>1. PacketsApart'
    BY <1>1, <1>4, <1>5 DEF ParserInv, PacketsApart
  <2>2. packet' = Null /\ work' = Null
    BY <1>1, <1>2
  <2> QED BY <2>1, <2>2 DEF ParserPlaces
<1>8. CASE callers = <<>>
  <2>1. Free({at}) /\ at' = Null /\ parserPc' = "none" /\ callers' = callers
    BY <1>8 DEF FreePacket
  <2>2. /\ Allocated' = Allocated \ {at} /\ freedTwice' = FALSE
        /\ \A c \in Allocated \ {at} : heap'[c] = heap[c]
    <3>1. {at} \subseteq Allocated
      BY <1>2
    <3> QED BY <2>1, <3>1, FreeFacts DEF HeapSafe
  <2>3. \A b \in Packets' : b \in Allocated' /\ heap'[b] = heap[b]
    BY <1>5, <2>2, ParserFacts
  <2>4. gone' = <<>> /\ Len(gone') = 0
    <3>1. Len(callers) = 0
      BY <1>8
    <3>2. Len(gone') = 0
      BY <1>3, <1>4, <3>1
    <3> QED BY <1>4, <3>2, RangeSeq
  <2>5. ParserTypeOK'
    <3>1. \A b \in Packets' : b \in Allocated' /\ heap'[b] \in PacketType
      BY <1>5, <2>3, ParserFacts
    <3>2. {packet', work', chain', at'} \subseteq Blocks \cup {Null}
      BY <1>1, <2>1 DEF ParserInv, ParserTypeOK
    <3>3. line' \in Seq(Tokens) /\ ret' \in {0, 1}
      BY <1>1 DEF ParserInv, ParserTypeOK
    <3>4. {kept', gone', callers'} \subseteq Seq(Blocks)
      BY <1>1, <1>4, <2>1, ParserFacts
    <3> QED BY <3>1, <3>2, <3>3, <3>4 DEF ParserTypeOK
  <2>6. PacketsLinked'
    <3>1. \A i \in 1 .. Len(kept) : heap'[kept[i]] = heap[kept[i]]
      BY <1>1, <2>3, ParserFacts DEF Packets
    <3>2. \A i \in 1 .. Len(gone') : FALSE
      BY <2>4
    <3> QED BY <1>1, <1>8, <2>1, <2>4, <3>1, <3>2 DEF ParserInv, PacketsLinked
  <2>7. ParserPlaces' /\ ParserFields' /\ ParsedFields'
    BY <1>7, <2>1 DEF ParserFields, ParsedFields
  <2>8. ParserContract
    BY <1>2, <1>5, <2>2, ParserFacts DEF ParserContract, KeepsOthers, ParserOwned
  <2> QED BY <1>7, <2>5, <2>6, <2>7, <2>8 DEF ParserInv
<1>9. CASE callers # <<>>
  <2> DEFINE n == Len(callers)
             caller == callers[n]
  <2>1. /\ heap' = [Restrict(heap, Allocated \ {at}) EXCEPT ![caller].next = Null]
        /\ freedTwice' = (freedTwice \/ at \notin Allocated)
        /\ at' = caller /\ callers' = SubSeq(callers, 1, n - 1) /\ parserPc' = parserPc
    BY <1>9 DEF FreePacket
  <2>2. n \in Nat /\ n \in 1 .. n /\ n \in 1 .. Len(gone) - 1 /\ n + 1 = Len(gone)
    <3>1. n \in Nat /\ n # 0
      BY <1>9, ParserFacts, RangeSeq
    <3>2. n \in 1 .. n
      BY <3>1
    <3> QED BY <1>3, <1>6, <3>1, <3>2
  <2> HIDE DEF n
  <2>3. caller = gone[n] /\ caller = gone'[n] /\ n \in 1 .. Len(gone)
    BY <1>4, <1>6, <2>2 DEF n
  <2>4. caller # at /\ caller \in Packets /\ caller \in Allocated /\ heap[caller] \in PacketType
    <3>1. caller # at
      BY <1>3a, <2>2, <2>3
    <3> QED BY <2>3, <3>1, ParserFacts
  <2> HIDE DEF caller
  <2>5. /\ Allocated' = Allocated \ {at} /\ freedTwice' = FALSE
        /\ heap'[caller] = [heap[caller] EXCEPT !.next = Null]
        /\ \A c \in Allocated \ {at, caller} : heap'[c] = heap[c]
    BY <1>2, <2>1, <2>4 DEF Restrict, Allocated, HeapSafe
  <2>6. heap'[caller] \in PacketType /\ heap'[caller].next = Null
    BY <2>4, <2>5 DEF PacketType
  <2>7. \A b \in Packets' : b \in Allocated' /\ heap'[b] \in PacketType
                            /\ (b # caller => heap'[b] = heap[b])
    BY <1>5, <2>5, <2>6, ParserFacts
  <2>8. callers' \in Seq(Blocks) /\ Len(callers') = n - 1
        /\ \A i \in 1 .. n - 1 : callers'[i] = callers[i]
    <3>1. callers \in Seq(Blocks)
      BY ParserFacts
    <3>2. /\ Len(SubSeq(callers, 1, Len(callers) - 1)) = Len(callers) - 1
          /\ \A i \in 1 .. Len(callers) - 1 :
                SubSeq(callers, 1, Len(callers) - 1)[i] = callers[i]
      BY <1>9, <3>1, FrontSeq
    <3>3. SubSeq(callers, 1, Len(callers) - 1) \in Seq(Blocks)
      BY <1>9, <3>1, FrontSeq
    <3> QED BY <2>1, <3>2, <3>3 DEF n
  <2>9. ParserTypeOK'
    <3>1. caller \in Blocks
      BY <2>4, ParserFacts
    <3>2. {packet', work', chain', at'} \subseteq Blocks \cup {Null}
      BY <1>1, <2>1, <3>1 DEF ParserInv, ParserTypeOK
    <3>3. line' \in Seq(Tokens) /\ ret' \in {0, 1}
      BY <1>1 DEF ParserInv, ParserTypeOK
    <3>4. {kept', gone', callers'} \subseteq Seq(Blocks)
      BY <1>1, <1>4, <2>8, ParserFacts
    <3> QED BY <2>7, <3>2, <3>3, <3>4 DEF ParserTypeOK
  <2>10. PacketsLinked'
    <3>1. ASSUME NEW i \in 1 .. Len(kept) PROVE heap'[kept[i]] = heap[kept[i]]
      <4>1. kept[i] \in Range(kept) /\ kept[i] # caller /\ kept[i] # at
        BY <1>2, <2>3, ParserFacts DEF ParserInv, PacketsApart
      <4> QED BY <2>5, <4>1, ParserFacts
    <3>2. ASSUME NEW i \in 1 .. Len(gone')
          PROVE  heap'[gone'[i]].next = IF i = Len(gone') THEN Null ELSE gone'[i + 1]
      <4>0. i \in 1 .. Len(gone) - 1 /\ i \in 1 .. Len(gone) /\ Len(gone') = n
        BY <1>4, <2>2
      <4>1. CASE i = n
        BY <2>3, <2>6, <4>0, <4>1
      <4>2. CASE i # n
        <5>1. gone[i] # caller /\ gone[i] # at
          BY <1>3a, <2>3, <4>0, <4>2
        <5>2. heap'[gone'[i]] = heap[gone[i]]
          BY <1>4, <2>5, <4>0, <5>1, ParserFacts
        <5>3. heap[gone[i]].next = IF i = Len(gone) THEN Null ELSE gone[i + 1]
          BY <4>0 DEF ParserInv, PacketsLinked
        <5>4. i + 1 \in 1 .. Len(gone) - 1 /\ i # Len(gone) /\ i # Len(gone')
          BY <2>2, <4>0, <4>2
        <5> QED BY <1>4, <5>2, <5>3, <5>4
      <4> QED BY <4>1, <4>2
    <3>3. gone' # <<>>
      BY <1>4, <2>2
    <3>4. Len(callers') < Len(gone') /\ at' = gone'[Len(callers') + 1]
      <4>1. Len(gone') = n /\ (n - 1) + 1 = n /\ n - 1 < n
        BY <1>4, <2>2
      <4> QED BY <2>1, <2>3, <2>8, <4>1
    <3>5. ASSUME NEW i \in 1 .. Len(callers') PROVE callers'[i] = gone'[i]
      <4>1. i \in 1 .. n - 1 /\ i \in 1 .. n
        BY <2>2, <2>8
      <4> QED BY <1>4, <1>6, <2>8, <4>1 DEF n
    <3>6. /\ chain' = IF kept' = <<>> THEN Null ELSE kept'[1]
          /\ \A i \in 1 .. Len(kept') :
                heap'[kept'[i]].next = IF i = Len(kept') THEN Null ELSE kept'[i + 1]
      BY <1>1, <3>1 DEF ParserInv, PacketsLinked
    <3>7. parserPc' = "free" <=> gone' # <<>>
      BY <1>1, <2>1, <3>3
    <3> QED BY <3>2, <3>3, <3>4, <3>5, <3>6, <3>7 DEF PacketsLinked
  <2>11. ParserPlaces' /\ ParserFields' /\ ParsedFields'
    BY <1>1, <1>7, <2>1 DEF ParserFields, ParsedFields
  <2>12. ParserContract
    BY <1>2, <1>5, <2>4, <2>5, ParserFacts DEF ParserContract, KeepsOthers, ParserOwned
  <2> QED BY <1>7, <2>9, <2>10, <2>11, <2>12 DEF ParserInv
<1> QED BY <1>8, <1>9

\* A step of the thread that parses.
LEMMA ParserKeeps == ParserInv /\ HeapSafe /\ ParserNext => ParserInv' /\ ParserContract
  BY NewPacketKeeps, CallValidateKeeps, ValidatedKeeps, CallParseKeeps, SplitKeeps,
     FreeLineKeeps, SkipTokensKeeps, SetFieldsKeeps, ReadCodeKeeps, ReadHopKeeps,
     ParseFailsKeeps, ParseSucceedsKeeps, KeepKeeps, ParsePacketKeeps,
     ParsePacketCrashesKeeps, CopyDataKeeps, UsePackKeeps, CallFreePacketKeeps,
     FreeInnerKeeps, FreePacketKeeps DEF ParserNext

-----------------------------------------------------------------------------
(* Both threads *)

LEMMA InitIInv == Init => IInv
<1> SUFFICES ASSUME Init PROVE IInv
  OBVIOUS
<1>1. /\ heap = <<>> /\ freedTwice = FALSE
      /\ list = Null /\ listPc = "none" /\ item = Null /\ tmp = Null
      /\ count = 0 /\ seen = <<>> /\ copy = Null /\ nodes = <<>>
      /\ parserPc = "none" /\ packet = Null /\ line = <<>> /\ work = Null /\ ret = 0
      /\ chain = Null /\ at = Null /\ callers = <<>> /\ kept = <<>> /\ gone = <<>>
  BY DEF Init, ListInit, ParserInit
<1>2. Allocated = {} /\ \A S : <<>> \in Seq(S)
  BY <1>1 DEF Allocated
<1>3. /\ Range(nodes) = {} /\ Range(kept) = {} /\ Range(gone) = {}
      /\ Len(nodes) = 0 /\ Len(kept) = 0 /\ Len(gone) = 0 /\ Len(callers) = 0
      /\ IsInjective(nodes) /\ IsInjective(kept) /\ IsInjective(gone)
  BY <1>1 DEF Range, IsInjective
<1>4. ~Freeing /\ Texted = {} /\ Strings = {} /\ ListOwned = {}
  BY <1>1, <1>3 DEF Freeing, Texted, Strings, ListOwned
<1>5. Packets = {} /\ ParserOwned = {}
  BY <1>1, <1>3 DEF Packets, ParserOwned
<1>6. HeapInv
  BY <1>1, <1>2, <1>4, <1>5 DEF HeapInv, HeapSafe
<1>7. ListInv
  <2>1. ListTypeOK
    BY <1>1, <1>2, <1>3 DEF ListTypeOK
  <2>2. ListLinked
    BY <1>1, <1>3, <1>4 DEF ListLinked
  <2>3. ListApart /\ TextsThere /\ ListPlaces
    BY <1>1, <1>3, <1>4 DEF ListApart, TextsThere, ListPlaces
  <2> QED BY <2>1, <2>2, <2>3 DEF ListInv
<1>8. ParserInv
  <2>1. ParserTypeOK
    BY <1>1, <1>2, <1>5 DEF ParserTypeOK
  <2>2. PacketsLinked
    BY <1>1, <1>3 DEF PacketsLinked
  <2>3. PacketsApart
    BY <1>1, <1>3, <1>5 DEF PacketsApart
  <2>4. ParserPlaces /\ ParserFields /\ ParsedFields
    BY <1>1 DEF ParserPlaces, ParserFields, ParsedFields
  <2> QED BY <2>1, <2>2, <2>3, <2>4 DEF ParserInv
<1> QED BY <1>6, <1>7, <1>8 DEF IInv

\* What one thread does to its own blocks leaves those of the other as they are.
LEMMA ListStepKeeps ==
    ASSUME IInv, ListNext, UNCHANGED parserVars
    PROVE  IInv'
<1>1. ListInv' /\ ListContract
  BY ListKeeps DEF IInv, HeapInv
<1>2. \A b \in ParserOwned : b \in Allocated' /\ heap'[b] = heap[b]
  BY <1>1, ParserFacts DEF IInv, HeapInv, ListContract, KeepsOthers
<1>3. ParserInv' /\ ParserOwned' = ParserOwned
  BY <1>2, ParserFrame DEF IInv
<1>4. /\ Allocated' = (Allocated \ ListOwned) \cup ListOwned'
      /\ ListOwned' \subseteq ListOwned \cup Fresh /\ freedTwice' = FALSE
  BY <1>1 DEF ListContract
<1>5. /\ Allocated = ListOwned \cup ParserOwned /\ ListOwned \cap ParserOwned = {}
      /\ Allocated \subseteq Blocks
  BY DEF IInv, HeapInv, HeapSafe
<1>6. Allocated' = ListOwned' \cup ParserOwned'
  BY <1>3, <1>4, <1>5
<1>7. ListOwned' \cap ParserOwned' = {}
  BY <1>3, <1>4, <1>5 DEF Fresh
<1>8. Allocated' \subseteq Blocks
  BY <1>4, <1>5 DEF Fresh
<1> QED BY <1>1, <1>3, <1>4, <1>6, <1>7, <1>8 DEF IInv, HeapInv, HeapSafe

LEMMA ParserStepKeeps ==
    ASSUME IInv, ParserNext, UNCHANGED listVars
    PROVE  IInv' /\ Contents' = Contents
<1>1. ParserInv' /\ ParserContract
  BY ParserKeeps DEF IInv, HeapInv
<1>2. \A b \in ListOwned : b \in Allocated' /\ heap'[b] = heap[b]
  BY <1>1, ListFacts DEF IInv, HeapInv, ParserContract, KeepsOthers
<1>3. ListInv' /\ ListOwned' = ListOwned /\ Contents' = Contents
  BY <1>2, ListFrame DEF IInv
<1>4. /\ Allocated' = (Allocated \ ParserOwned) \cup ParserOwned'
      /\ ParserOwned' \subseteq ParserOwned \cup Fresh /\ freedTwice' = FALSE
  BY <1>1 DEF ParserContract
<1>5. /\ Allocated = ListOwned \cup ParserOwned /\ ListOwned \cap ParserOwned = {}
      /\ Allocated \subseteq Blocks
  BY DEF IInv, HeapInv, HeapSafe
<1>6. Allocated' = ListOwned' \cup ParserOwned'
  BY <1>3, <1>4, <1>5
<1>7. ListOwned' \cap ParserOwned' = {}
  BY <1>3, <1>4, <1>5 DEF Fresh
<1>8. Allocated' \subseteq Blocks
  BY <1>4, <1>5 DEF Fresh
<1> QED BY <1>1, <1>3, <1>4, <1>6, <1>7, <1>8 DEF IInv, HeapInv, HeapSafe

LEMMA StutterKeeps ==
    ASSUME IInv, UNCHANGED vars
    PROVE  IInv' /\ Contents' = Contents
<1>1. UNCHANGED listVars /\ UNCHANGED parserVars /\ heap' = heap /\ freedTwice' = freedTwice
  BY DEF vars
<1>2. Allocated' = Allocated
  BY <1>1 DEF Allocated
<1>3. ListInv' /\ ListOwned' = ListOwned /\ Contents' = Contents
  BY <1>1, <1>2, ListFacts, ListFrame DEF IInv
<1>4. ParserInv' /\ ParserOwned' = ParserOwned
  BY <1>1, <1>2, ParserFacts, ParserFrame DEF IInv
<1> QED BY <1>1, <1>2, <1>3, <1>4 DEF IInv, HeapInv, HeapSafe

LEMMA NextIInv == IInv /\ [Next]_vars => IInv'
<1> SUFFICES ASSUME IInv, [Next]_vars PROVE IInv'
  OBVIOUS
<1>1. CASE ListStep
  BY <1>1, ListStepKeeps DEF ListStep
<1>2. CASE ParserStep
  BY <1>2, ParserStepKeeps DEF ParserStep
<1>3. CASE UNCHANGED vars
  BY <1>3, StutterKeeps
<1> QED BY <1>1, <1>2, <1>3 DEF Next

LEMMA Invariance == Spec => []IInv
  BY InitIInv, NextIInv, PTL DEF Spec

\* What is in every variable, node, text and packet has its type: the pointers
\* that string-list.c and epsp-parser.c follow lead to blocks of the right kind.
THEOREM TypeCorrect == Spec => []TypeOK
<1>1. IInv => TypeOK
  BY DEF IInv, HeapInv, HeapSafe, ListInv, ParserInv, TypeOK
<1> QED BY <1>1, Invariance, PTL

\* Every allocated block has one owner at every step of string-list.c and of
\* epsp-parser.c, whatever the other thread does: no leak, no double free, no
\* block of two threads, no two nodes with one text.
THEOREM OneOwnerCorrect == Spec => []OneOwner
<1>1. IInv => OneOwner
  BY DEF IInv, HeapInv, HeapSafe, ListInv, ParserInv, OneOwner
<1> QED BY <1>1, Invariance, PTL

\* A packet that epsp_packet_parse has parsed has no field that is unset, but for
\* the hop count of a line that has none; parsePacket keeps the data of a line.
THEOREM ParsedFieldsCorrect == Spec => []ParsedFields
<1>1. IInv => ParsedFields
  BY DEF IInv, ParserInv
<1> QED BY <1>1, Invariance, PTL

-----------------------------------------------------------------------------
(* The list implements a sequence *)

SequenceStep == Sequence!Next \/ UNCHANGED Sequence!sequenceVars

\* What the list holds is a sequence of the texts.
LEMMA ContentsFacts ==
    ASSUME ListInv
    PROVE  /\ Length \in Nat
           /\ Contents \in Seq(Items) /\ Len(Contents) = Length
           /\ \A i \in 1 .. Length : Contents[i] = heap[heap[nodes[i]].str].text
<1>1. Length \in Nat
  <2>1. CASE Freeing
    BY <2>1 DEF Length
  <2>2. CASE ~Freeing /\ listPc = "string"
    <3>1. Len(nodes) \in Nat /\ Len(nodes) # 0
      BY <2>2, ListFacts, RangeSeq DEF ListInv, ListPlaces
    <3>2. ASSUME NEW n \in Nat, n # 0 PROVE n - 1 \in Nat
      BY <3>2
    <3> QED BY <2>2, <3>1, <3>2 DEF Length
  <2>3. CASE ~Freeing /\ listPc # "string"
    BY <2>3, ListFacts DEF Length
  <2> QED BY <2>1, <2>2, <2>3
<1>2. \A i \in 1 .. Length : heap[heap[nodes[i]].str].text \in Items
  <2>1. CASE Freeing
    BY <2>1 DEF Length
  <2>2. CASE ~Freeing
    BY <2>2, ToldTexted, ListFacts DEF Texts
  <2> QED BY <2>1, <2>2
<1>3. Contents = [i \in 1 .. Length |-> heap[heap[nodes[i]].str].text]
  BY DEF Contents
<1> QED BY <1>1, <1>2, <1>3

\* A step that tells nothing.
LEMMA TellsNothing ==
    ASSUME Contents' = Contents, UNCHANGED <<count, seen>>,
           \/ UNCHANGED listPc
           \/ {listPc, listPc'} \cap {"size", "foreach"} = {}
    PROVE  SequenceStep
<1>1. CASE UNCHANGED listPc
  BY <1>1 DEF SequenceStep, Sequence!sequenceVars
<1>2. CASE {listPc, listPc'} \cap {"size", "foreach"} = {}
  BY <1>2 DEF SequenceStep, Sequence!sequenceVars
<1> QED BY <1>1, <1>2

LEMMA AddStringTells ==
    ASSUME ListInv, HeapSafe, AddString, ListInv'
    PROVE  SequenceStep
<1>1. /\ listPc = "string" /\ listPc' = "none"
      /\ UNCHANGED <<list, count, seen, copy, nodes>>
  BY DEF AddString
<1>2. PICK b \in Fresh : heap' = [With(b, Text(item)) EXCEPT ![tmp].str = b]
  BY DEF AddString
<1>3. nodes # <<>> /\ tmp = nodes[Len(nodes)] /\ item \in Items
  BY <1>1 DEF ListInv, ListPlaces
<1>4. /\ Length = Len(nodes) - 1 /\ Length' = Len(nodes) /\ Length \in Nat /\ ~Freeing
      /\ Length' = Length + 1
  <2>1. Length = Len(nodes) - 1 /\ Length' = Len(nodes) /\ ~Freeing
    BY <1>1 DEF Length, Freeing
  <2>2. Length \in Nat
    BY ContentsFacts
  <2> QED BY <2>1, <2>2, ListFacts
<1>5. tmp \in Range(nodes) /\ tmp \in Allocated /\ heap[tmp] \in Nodes
  <2>1. Len(nodes) \in 1 .. Len(nodes)
    BY <1>4, ListFacts
  <2> QED BY <1>3, <2>1, ListFacts
<1>6. /\ b \notin Allocated
      /\ heap'[b].text = item /\ heap'[tmp].str = b
      /\ \A c \in Allocated \ {tmp} : heap'[c] = heap[c]
  <2>1. b \notin Allocated /\ tmp # b
    BY <1>5 DEF Fresh
  <2>2. /\ heap'[b] = Text(item)
        /\ heap'[tmp] = [heap[tmp] EXCEPT !.str = b]
        /\ \A c \in Allocated \ {tmp} : heap'[c] = heap[c]
    BY <1>2, <1>5, <2>1 DEF With, Allocated
  <2> QED BY <1>5, <2>1, <2>2 DEF Nodes, Text
<1>7. ASSUME NEW i \in 1 .. Length
      PROVE  heap'[heap'[nodes'[i]].str] = heap[heap[nodes[i]].str]
  <2>1. nodes[i] \in Texted /\ nodes[i] # tmp
    <3>1. nodes[i] \in Texted
      BY <1>4, <1>7, ToldTexted
    <3> QED BY <1>1, <3>1 DEF Texted
  <2>2. heap[nodes[i]].str \in Strings /\ tmp \notin Strings
    BY <1>5, <2>1, ListFacts DEF ListInv, ListApart
  <2> QED BY <1>1, <1>6, <2>1, <2>2, ListFacts
<1>8. heap'[heap'[nodes'[Length + 1]].str].text = item
  <2>1. Length + 1 = Len(nodes)
    BY <1>4
  <2> QED BY <1>1, <1>3, <1>6, <2>1
<1>9. Contents' = Append(Contents, item)
  <2>1. /\ Contents \in Seq(Items) /\ Len(Contents) = Length
        /\ \A i \in 1 .. Length : Contents[i] = heap[heap[nodes[i]].str].text
    BY ContentsFacts
  <2>2. Append(Contents, item) =
          [i \in 1 .. Length + 1 |-> IF i = Length + 1 THEN item ELSE Contents[i]]
    BY <1>3, <1>4, <2>1, AppendAsFunction
  <2>3. Contents' = [i \in 1 .. Length + 1 |-> heap'[heap'[nodes'[i]].str].text]
    BY <1>4 DEF Contents
  <2>4. \A i \in 1 .. Length + 1 : heap'[heap'[nodes'[i]].str].text
                                     = IF i = Length + 1 THEN item ELSE Contents[i]
    BY <1>4, <1>7, <1>8, <2>1
  <2> QED BY <2>2, <2>3, <2>4
<1> QED BY <1>1, <1>3, <1>9 DEF SequenceStep, Sequence!Next, Sequence!Add

LEMMA AddNodeTells ==
    ASSUME ListInv, HeapSafe, AddFirst \/ AddLast, ListInv'
    PROVE  SequenceStep
<1>1. listPc = "add" /\ listPc' = "string" /\ UNCHANGED <<count, seen>>
  BY DEF AddFirst, AddLast
<1>2. Length = Len(nodes) /\ Length' = Len(nodes') - 1 /\ ~Freeing
  BY <1>1 DEF Length, Freeing
<1>3. CASE AddFirst
  <2>1. nodes' = <<tmp'>> /\ tmp = Null
    BY <1>3 DEF AddFirst
  <2>2. nodes = <<>>
    BY <1>1, <2>1, ListFacts, NullAssumption DEF ListInv, ListPlaces
  <2>3. Length = 0 /\ Length' = 0
    BY <1>2, <2>1, <2>2
  <2>4. Contents' = Contents
    BY <2>3 DEF Contents
  <2> QED BY <1>1, <2>4, TellsNothing
<1>4. CASE AddLast
  <2>1. PICK b \in Fresh : /\ heap' = [With(b, Node(Null)) EXCEPT ![tmp].next = b]
                           /\ tmp' = b /\ nodes' = Append(nodes, b)
    BY <1>4 DEF AddLast
  <2>2. tmp \in Range(nodes) /\ tmp \in Allocated /\ heap[tmp] \in Nodes
    <3>1. tmp # Null
      BY <1>4 DEF AddLast
    <3> QED BY <1>1, <3>1, ListFacts DEF ListInv, ListPlaces
  <2>3. /\ heap'[tmp].str = heap[tmp].str
        /\ \A c \in Allocated \ {tmp} : heap'[c] = heap[c]
    <3>1. b \notin Allocated /\ tmp # b
      BY <2>2 DEF Fresh
    <3>2. /\ heap'[tmp] = [heap[tmp] EXCEPT !.next = b]
          /\ \A c \in Allocated \ {tmp} : heap'[c] = heap[c]
      BY <2>1, <2>2, <3>1 DEF With, Allocated
    <3> QED BY <2>2, <3>2 DEF Nodes
  <2>4. /\ nodes \in Seq(Blocks) /\ Len(nodes) \in Nat /\ Len(nodes') = Len(nodes) + 1
        /\ \A i \in 1 .. Len(nodes) : nodes'[i] = nodes[i]
    <3>1. nodes \in Seq(Blocks) /\ Len(nodes) \in Nat /\ b \in Blocks
      BY ListFacts DEF Fresh
    <3> QED BY <2>1, <3>1
  <2>5. Length' = Length
    BY <1>2, <2>4
  <2>6. ASSUME NEW i \in 1 .. Length
        PROVE  heap'[heap'[nodes'[i]].str] = heap[heap[nodes[i]].str]
    <3>1. nodes[i] \in Texted /\ nodes'[i] = nodes[i]
      BY <1>2, <2>4, <2>6, ToldTexted
    <3>2. heap[nodes[i]].str \in Strings /\ tmp \notin Strings
      BY <2>2, <3>1, ListFacts DEF ListInv, ListApart
    <3>3. heap'[nodes[i]].str = heap[nodes[i]].str
      BY <2>3, <3>1, ListFacts
    <3> QED BY <2>3, <3>1, <3>2, <3>3, ListFacts
  <2>7. Contents' = Contents
    BY <2>5, <2>6 DEF Contents
  <2> QED BY <1>1, <2>7, TellsNothing
<1> QED BY <1>3, <1>4

\* Calls forget what was told before.
LEMMA CallTells ==
    ASSUME ListInv, HeapSafe, CallAdd \/ CallWalk \/ CallElement
    PROVE  SequenceStep
<1>1. listPc = "none" /\ count' = 0 /\ seen' = <<>> /\ UNCHANGED <<list, nodes>>
  BY DEF CallAdd, CallWalk, CallElement, Forget
<1>2. Contents' = Contents
  <2>1. CASE CallAdd \/ CallWalk
    <3>1. /\ listPc' \notin {"free", "free node", "string"}
          /\ UNCHANGED <<heap, freedTwice, list, copy, nodes>>
      BY <2>1 DEF CallAdd, CallWalk
    <3>2. ~Freeing /\ ~Freeing' /\ listPc # "string" /\ listPc' # "string"
      BY <1>1, <3>1 DEF Freeing
    <3> QED BY <3>1, <3>2, ListQuiet
  <2>2. CASE CallElement
    <3>1. PICK b \in Fresh : heap' = With(b, heap[heap[list].str])
      BY <2>2 DEF CallElement, Malloc
    <3>2. \A c \in Allocated : heap'[c] = heap[c]
      BY <3>1, MallocFacts
    <3>3. listPc' = listPc /\ Length' = Length /\ ~Freeing
      BY <1>1, <2>2 DEF CallElement, Length, Freeing
    <3>4. ASSUME NEW i \in 1 .. Length
          PROVE  heap'[heap'[nodes'[i]].str] = heap[heap[nodes[i]].str]
      BY <1>1, <3>2, <3>3, <3>4, ToldTexted, ListFacts
    <3> QED BY <3>3, <3>4 DEF Contents
  <2> QED BY <2>1, <2>2
<1>3. /\ (IF listPc' = "foreach" THEN <<>> ELSE seen') = <<>>
      /\ (IF listPc' = "size" THEN 0 ELSE count') = 0
  BY <1>1
<1> QED BY <1>2, <1>3 DEF SequenceStep, Sequence!Next, Sequence!Ask, Sequence!Forget

LEMMA WalkTells ==
    ASSUME ListInv, HeapSafe, GetLastNode \/ WalkOn \/ WalkEnd
    PROVE  SequenceStep
<1>1. /\ listPc \in {"add", "size", "foreach"} /\ listPc' \in {listPc, "none"}
      /\ UNCHANGED <<heap, freedTwice, list, copy, nodes>>
  BY DEF GetLastNode, WalkOn, WalkEnd
<1>2. ~Freeing /\ ~Freeing' /\ listPc # "string" /\ listPc' # "string"
  BY <1>1 DEF Freeing
<1>3. Contents' = Contents
  BY <1>1, <1>2, ListQuiet
<1>4. CASE GetLastNode
  BY <1>3, <1>4, TellsNothing DEF GetLastNode
<1>5. CASE WalkOn
  <2>1. UNCHANGED listPc
    BY <1>5 DEF WalkOn
  <2>2. CASE listPc = "size"
    BY <1>3, <1>5, <2>1, <2>2 DEF WalkOn, SequenceStep, Sequence!sequenceVars
  <2>3. CASE listPc = "foreach"
    BY <1>3, <1>5, <2>1, <2>3 DEF WalkOn, SequenceStep, Sequence!sequenceVars
  <2> QED BY <1>5, <2>2, <2>3 DEF WalkOn
<1>6. CASE WalkEnd
  <2>1. /\ listPc \in {"size", "foreach"} /\ tmp = Null /\ listPc' = "none"
        /\ count' = count /\ seen' = seen
    BY <1>6 DEF WalkEnd
  <2>2. /\ Length = Len(nodes) /\ Len(nodes) \in Nat /\ Contents \in Seq(Items)
        /\ Len(Contents) = Length
    BY <2>1, ContentsFacts, ListFacts DEF Length, Freeing
  <2>3. \A i \in 1 .. Len(nodes) : nodes[i] # Null
    BY ListFacts, NullAssumption
  <2>4. CASE listPc = "size"
    <3>1. count \in Nat /\ count <= Len(nodes)
      BY DEF ListInv, ListTypeOK
    <3>2. count # Len(nodes) => count + 1 \in 1 .. Len(nodes)
      BY <2>2, <3>1
    <3>3. count = Len(Contents)
      BY <2>1, <2>2, <2>3, <2>4, <3>2 DEF ListInv, ListPlaces
    <3>4. /\ (IF listPc' = "foreach" THEN <<>> ELSE seen') = seen
          /\ (IF listPc = "foreach" THEN <<>> ELSE seen) = seen
          /\ (IF listPc' = "size" THEN 0 ELSE count') = Len(Contents)
      BY <2>1, <2>4, <3>3
    <3> QED BY <1>3, <3>4 DEF SequenceStep, Sequence!Next, Sequence!TellSize
  <2>5. CASE listPc = "foreach"
    <3>1. seen \in Seq(Items)
      BY DEF ListInv, ListTypeOK
    <3>2. Len(seen) \in Nat
      BY <3>1
    <3>3. /\ Len(seen) <= Len(nodes)
          /\ \A i \in 1 .. Len(seen) : seen[i] = heap[heap[nodes[i]].str].text
          /\ tmp = IF Len(seen) = Len(nodes) THEN Null ELSE nodes[Len(seen) + 1]
      BY <2>5 DEF ListInv, ListPlaces
    <3>4. Len(seen) # Len(nodes) => Len(seen) + 1 \in 1 .. Len(nodes)
      BY <2>2, <3>2, <3>3
    <3>5. Len(seen) = Len(nodes)
      <4> SUFFICES ASSUME Len(seen) # Len(nodes) PROVE FALSE
        OBVIOUS
      <4>1. nodes[Len(seen) + 1] # Null
        BY <2>3, <3>4
      <4>2. tmp = nodes[Len(seen) + 1]
        BY <3>3
      <4> QED BY <2>1, <4>1, <4>2
    <3>6. \A i \in 1 .. Len(seen) : seen[i] = Contents[i]
      BY <2>2, <3>3, <3>5, ContentsFacts
    <3>7. seen = Contents
      BY <2>2, <3>1, <3>5, <3>6, SeqEqual
    <3>8. /\ (IF listPc' = "foreach" THEN <<>> ELSE seen') = Contents
          /\ (IF listPc' = "size" THEN 0 ELSE count') = count
          /\ (IF listPc = "size" THEN 0 ELSE count) = count
      BY <2>1, <2>5, <3>7
    <3> QED BY <1>3, <3>8 DEF SequenceStep, Sequence!Next, Sequence!TellAll
  <2> QED BY <2>1, <2>4, <2>5
<1> QED BY <1>4, <1>5, <1>6

LEMMA UseElementTells ==
    ASSUME ListInv, HeapSafe, UseElement
    PROVE  SequenceStep
<1>1. /\ listPc = "none" /\ copy # Null /\ seen' = <<heap[copy].text>> /\ Free({copy})
      /\ UNCHANGED <<list, listPc, item, tmp, count, nodes>>
  BY DEF UseElement
<1>2. copy \in Allocated /\ copy \notin Range(nodes) \cup Strings
  BY <1>1 DEF ListInv, TextsThere, ListApart
<1>3. \A c \in Allocated \ {copy} : heap'[c] = heap[c]
  <2>1. {copy} \subseteq Allocated
    BY <1>2
  <2> QED BY <1>1, <2>1, FreeFacts DEF HeapSafe
<1>4. Length' = Length /\ ~Freeing
  BY <1>1 DEF Length, Freeing
<1>5. ASSUME NEW i \in 1 .. Length
      PROVE  heap'[heap'[nodes'[i]].str] = heap[heap[nodes[i]].str]
  BY <1>1, <1>2, <1>3, <1>4, <1>5, ToldTexted, ListFacts
<1>6. Contents' = Contents
  BY <1>4, <1>5 DEF Contents
<1>7. Length > 0 /\ heap[copy].text = heap[heap[nodes[1]].str].text
  BY <1>1 DEF ListInv, ListPlaces
<1>8. Contents # <<>> /\ Head(Contents) = heap[copy].text
  <2>1. /\ Contents \in Seq(Items) /\ Len(Contents) = Length /\ Length \in Nat
        /\ \A i \in 1 .. Length : Contents[i] = heap[heap[nodes[i]].str].text
    BY ContentsFacts
  <2>2. 1 \in 1 .. Length
    BY <1>7, <2>1
  <2>3. Contents # <<>> /\ Head(Contents) = Contents[1]
    BY <1>7, <2>1
  <2> QED BY <1>7, <2>1, <2>2, <2>3
<1>9. (IF listPc' = "foreach" THEN <<>> ELSE seen') = <<Head(Contents)>>
  BY <1>1, <1>8
<1> QED BY <1>1, <1>6, <1>8, <1>9 DEF SequenceStep, Sequence!Next, Sequence!TellFirst

LEMMA FreeTells ==
    ASSUME ListInv, HeapSafe, CallFree \/ FreeString \/ FreeNode \/ FreeEnd
    PROVE  SequenceStep
<1>1. CASE CallFree
  <2>1. listPc' = "free" /\ count' = 0 /\ seen' = <<>>
    BY <1>1 DEF CallFree, Forget
  <2>2. Length' = 0
    BY <2>1 DEF Length, Freeing
  <2>3. Contents' = <<>>
    BY <2>2 DEF Contents
  <2> QED BY <2>1, <2>3 DEF SequenceStep, Sequence!Next, Sequence!Empty, Sequence!Forget
<1>2. CASE FreeString \/ FreeNode \/ FreeEnd
  <2>1. /\ listPc \in {"free", "free node"} /\ listPc' \in {"free", "free node", "none"}
        /\ UNCHANGED <<count, seen>>
    BY <1>2 DEF FreeString, FreeNode, FreeEnd
  <2>2. Length = 0
    BY <2>1 DEF Length, Freeing
  <2>3. Length' = 0
    <3>1. CASE listPc' = "none"
      <4>1. listPc = "free" /\ tmp = Null /\ nodes' = nodes
        BY <1>2, <3>1 DEF FreeString, FreeNode, FreeEnd
      <4>2. Freeing
        BY <4>1 DEF Freeing
      <4>3. nodes = <<>>
        BY <4>1, <4>2, ListFacts, NullAssumption DEF ListInv, ListLinked
      <4> QED BY <3>1, <4>1, <4>3 DEF Length, Freeing
    <3>2. CASE listPc' # "none"
      BY <2>1, <3>2 DEF Length, Freeing
    <3> QED BY <3>1, <3>2
  <2>4. Contents' = Contents
    BY <2>2, <2>3 DEF Contents
  <2> QED BY <2>1, <2>4, TellsNothing
<1> QED BY <1>1, <1>2

LEMMA SequenceNext == IInv /\ [Next]_vars => SequenceStep
<1> SUFFICES ASSUME IInv, [Next]_vars PROVE SequenceStep
  OBVIOUS
<1>1. ListInv /\ HeapSafe
  BY DEF IInv, HeapInv
<1>2. CASE ListStep
  <2>1. ListNext
    BY <1>2 DEF ListStep
  <2>2. ListInv'
    BY <1>1, <2>1, ListKeeps
  <2> QED BY <1>1, <2>1, <2>2, CallTells, AddNodeTells, AddStringTells, WalkTells,
             UseElementTells, FreeTells DEF ListNext
<1>3. CASE ParserStep
  <2>1. Contents' = Contents /\ UNCHANGED <<listPc, count, seen>>
    BY <1>3, ParserStepKeeps DEF ParserStep, listVars
  <2> QED BY <2>1, TellsNothing
<1>4. CASE UNCHANGED vars
  <2>1. Contents' = Contents /\ UNCHANGED <<listPc, count, seen>>
    BY <1>4, StutterKeeps DEF vars, listVars
  <2> QED BY <2>1, TellsNothing
<1> QED BY <1>2, <1>3, <1>4 DEF Next

\* string-list.c implements a sequence of texts, for lists of any length and
\* whatever the other thread does with the heap.
THEOREM ListIsASequence == Spec => ImplementsSequence
<1>1. Init => Sequence!Init
  <2> SUFFICES ASSUME Init PROVE Sequence!Init
    OBVIOUS
  <2>1. listPc = "none" /\ nodes = <<>> /\ count = 0 /\ seen = <<>>
    BY DEF Init, ListInit
  <2>2. Length = 0
    BY <2>1 DEF Length, Freeing
  <2>3. Contents = <<>>
    BY <2>2 DEF Contents
  <2> QED BY <2>1, <2>3 DEF Sequence!Init
<1>2. IInv /\ [Next]_vars => [Sequence!Next]_(Sequence!sequenceVars)
  BY SequenceNext DEF SequenceStep
<1> QED BY <1>1, <1>2, Invariance, PTL DEF Spec, ImplementsSequence, Sequence!Spec
=============================================================================
