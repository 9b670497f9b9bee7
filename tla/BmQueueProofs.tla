--------------------------- MODULE BmQueueProofs ---------------------------
(***************************************************************************)
(* Proofs about BmQueue, for any number of threads, nodes and data: its    *)
(* invariants, and that it is the queue of FifoQueue.                      *)
(***************************************************************************)
EXTENDS BmQueue, FiniteSetTheorems, SequenceTheorems, TLAPS

\* A thread is past an acquisition only while it owns the mutex.
LockInv == \A t \in Threads : pc[t] \in Critical(t) => mutex = t

\* queue_destroy runs alone, and to the end of the list.
JoinInv ==
    /\ pc[Owner] # "running" =>
        /\ \A p \in Producers : pc[p] = "stopped"
        /\ \A c \in Consumers : pc[c] = "closed"
    /\ pc[Owner] \in {"unlock", "destroyed"} => curr = NULL

\* What a consumer holds, by where it is.
ResultInv ==
    \A c \in Consumers :
        /\ pc[c] \in {"lock", "test", "wait", "woken"} => result[c] = NULL
        /\ pc[c] \in {"free", "unlock"} => result[c] \in Data
        /\ pc[c] = "idle" => result[c] \in Data \cup {NULL}
        /\ pc[c] \in {"unlockRefused", "closed"} => result[c] = Refused

\* Nodes carry data from the moment queue_push has filled them, and a node
\* that is not linked yet already ends the list.
DataInv ==
    /\ \A i \in 1..Len(chain) : data[chain[i]] \in Data
    /\ \A p \in Unlinked : /\ data[new_node[p]] \in Data
                           /\ next[new_node[p]] = NULL

IInv ==
    /\ TypeOK
    /\ LockInv
    /\ JoinInv
    /\ ResultInv
    /\ DataInv
    /\ ListInv
    /\ HeapInv

USE ThreadsAssumption, ValuesAssumption DEF Workers, Threads

LEMMA InitIInv == Init => IInv
<1> SUFFICES ASSUME Init PROVE IInv
  OBVIOUS
<1>1. TypeOK
  <2>1. chain \in Seq(Nodes)
    BY DEF Init
  <2>2. pc \in [Threads -> ProducerPc \cup ConsumerPc \cup OwnerPc]
    BY DEF Init, ProducerPc, ConsumerPc, OwnerPc
  <2>3. /\ \A p \in Producers : pc[p] \in ProducerPc
        /\ \A c \in Consumers : pc[c] \in ConsumerPc
        /\ pc[Owner] \in OwnerPc
    BY DEF Init, ProducerPc, ConsumerPc, OwnerPc
  <2> QED
    BY <2>1, <2>2, <2>3 DEF Init, TypeOK
<1>2. LockInv
  BY DEF Init, LockInv, Critical
<1>3. JoinInv
  BY DEF Init, JoinInv
<1>4. ResultInv
  BY DEF Init, ResultInv
<1>5. DataInv
  BY DEF Init, DataInv, Unlinked
<1>6. ListInv
  BY DEF Init, ListInv, First, ChainHead, ChainLast
<1>7. HeapInv
  <2>1. Linked = {} /\ Unlinked = {} /\ Taking = {}
    BY DEF Init, Linked, Unlinked, Taking
  <2> QED
    BY <2>1 DEF Init, HeapInv, OwnedOnce
<1> QED
  BY <1>1, <1>2, <1>3, <1>4, <1>5, <1>6, <1>7 DEF IInv

-----------------------------------------------------------------------------
\* Sequences: what the two operations the code performs on the list do.

LEMMA TailFacts ==
  ASSUME NEW s \in Seq(Nodes), s # <<>>
  PROVE  /\ Tail(s) \in Seq(Nodes)
         /\ Len(s) \in Nat \ {0}
         /\ Len(Tail(s)) = Len(s) - 1
         /\ (Tail(s) = <<>>) <=> (Len(s) = 1)
         /\ \A i \in 1..(Len(s) - 1) : Tail(s)[i] = s[i + 1]
         /\ s[1] \in Nodes
<1>1. Len(s) \in Nat \ {0} /\ Tail(s) \in Seq(Nodes) /\ Len(Tail(s)) = Len(s) - 1
  OBVIOUS
<1>2. (Tail(s) = <<>>) <=> (Len(Tail(s)) = 0)
  BY <1>1
<1>3. s[1] \in Nodes /\ \A i \in 1..(Len(s) - 1) : Tail(s)[i] = s[i + 1]
  BY <1>1
<1> QED
  BY <1>1, <1>2, <1>3

LEMMA AppendFacts ==
  ASSUME NEW s \in Seq(Nodes), NEW n \in Nodes
  PROVE  /\ Append(s, n) \in Seq(Nodes)
         /\ Append(s, n) # <<>>
         /\ Len(s) \in Nat
         /\ Len(Append(s, n)) = Len(s) + 1
         /\ \A i \in 1..Len(s) : Append(s, n)[i] = s[i] /\ s[i] \in Nodes
         /\ Append(s, n)[Len(s) + 1] = n
  OBVIOUS

LEMMA LinkedAppend ==
  ASSUME chain \in Seq(Nodes), NEW n \in Nodes, chain' = Append(chain, n)
  PROVE  Linked' = Linked \cup {n}
<1>1. \A i \in 1..Len(chain') : i \in 1..Len(chain) \/ i = Len(chain) + 1
  BY AppendFacts
<1>2. \A i \in 1..Len(chain) : i \in 1..Len(chain') /\ chain'[i] = chain[i]
  BY AppendFacts
<1>3. Len(chain) + 1 \in 1..Len(chain') /\ chain'[Len(chain) + 1] = n
  BY AppendFacts
<1> QED
  BY <1>1, <1>2, <1>3 DEF Linked

LEMMA LinkedTail ==
  ASSUME chain \in Seq(Nodes), chain # <<>>, chain' = Tail(chain),
         \A i, j \in 1..Len(chain) : chain[i] = chain[j] => i = j
  PROVE  Linked' = Linked \ {chain[1]}
<1>1. \A i \in 1..Len(chain') :
        i + 1 \in 1..Len(chain) /\ chain'[i] = chain[i + 1] /\ i + 1 # 1
  BY TailFacts
<1>2. \A i \in 1..Len(chain) :
        i = 1 \/ (i - 1 \in 1..Len(chain') /\ chain'[i - 1] = chain[i])
  BY TailFacts
<1>3. 1 \in 1..Len(chain)
  BY TailFacts
<1> QED
  BY <1>1, <1>2, <1>3 DEF Linked

-----------------------------------------------------------------------------
\* What a thread may rely on at the decisions of the code.

\* While a worker is at work queue_destroy has not begun, so head and tail
\* are the ends of the list.
LEMMA AtWork ==
  ASSUME IInv, NEW t \in Workers, pc[t] \notin {"stopped", "closed"}
  PROVE  /\ pc[Owner] = "running"
         /\ head = ChainHead
         /\ tail = ChainLast
  BY DEF IInv, JoinInv, ListInv, First

\* The node a producer is about to link is a filled one of its own.
LEMMA NewNode ==
  ASSUME IInv, NEW p \in Producers, pc[p] \in {"lock", "link"}
  PROVE  /\ new_node[p] \in Nodes
         /\ new_node[p] \in allocated
         /\ new_node[p] \notin Linked
         /\ data[new_node[p]] \in Data
         /\ next[new_node[p]] = NULL
<1>1. p \in Unlinked
  BY DEF Unlinked
<1> QED
  BY <1>1 DEF IInv, HeapInv, OwnedOnce, DataInv

\* A pop that neither waits nor is refused has a node to take.
LEMMA HeadTaken ==
  ASSUME IInv, NEW c \in Consumers, pc[c] = "test", ~MustWait, ~MustRefuse
  PROVE  /\ chain # <<>>
         /\ head = chain[1]
         /\ head \in Nodes
         /\ data[head] \in Data
         /\ next[head] = IF Len(chain) = 1 THEN NULL ELSE chain[2]
<1>1. head # NULL
  BY DEF MustWait, MustRefuse, IInv, TypeOK
<1>2. head = ChainHead
  BY AtWork
<1>3. chain # <<>> /\ head = chain[1]
  BY <1>1, <1>2 DEF ChainHead
<1>4. 1 \in 1..Len(chain)
  BY <1>3, TailFacts DEF IInv, TypeOK
<1>5. head \in Nodes /\ data[head] \in Data
  BY <1>3, <1>4, TailFacts DEF IInv, TypeOK, DataInv
<1>6. next[chain[1]] = IF 1 = Len(chain) THEN NULL ELSE chain[1 + 1]
  BY <1>4 DEF IInv, ListInv
<1> QED
  BY <1>3, <1>5, <1>6

\* The loop of queue_destroy frees the first node of what is left.
LEMMA CurrFreed ==
  ASSUME IInv, pc[Owner] = "free", curr # NULL
  PROVE  /\ chain # <<>>
         /\ curr = chain[1]
         /\ curr \in Nodes
         /\ next[curr] = IF Len(chain) = 1 THEN NULL ELSE chain[2]
<1>1. chain # <<>> /\ curr = chain[1]
  BY DEF IInv, ListInv, First, ChainHead
<1>2. 1 \in 1..Len(chain)
  BY <1>1, TailFacts DEF IInv, TypeOK
<1>3. curr \in Nodes
  BY <1>1, <1>2, TailFacts DEF IInv, TypeOK
<1>4. next[chain[1]] = IF 1 = Len(chain) THEN NULL ELSE chain[1 + 1]
  BY <1>2 DEF IInv, ListInv
<1> QED
  BY <1>1, <1>3, <1>4

-----------------------------------------------------------------------------
LEMMA TypeStep == IInv /\ [Next]_vars => TypeOK'
<1> SUFFICES ASSUME IInv, [Next]_vars PROVE TypeOK'
  OBVIOUS
<1> USE DEF IInv
<1>1. ASSUME NEW p \in Producers, NEW d \in Data, PushAlloc(p, d)
      PROVE  TypeOK'
  BY <1>1 DEF PushAlloc, TypeOK, Goto, Fresh, ProducerPc
<1>2. ASSUME NEW p \in Producers, PushLock(p)
      PROVE  TypeOK'
  BY <1>2 DEF PushLock, TypeOK, Goto, Acquire, list, locals, ProducerPc
<1>3. ASSUME NEW p \in Producers, PushLink(p)
      PROVE  TypeOK'
  <2>1. new_node[p] \in Nodes
    BY <1>3, NewNode DEF PushLink
  <2>2. Append(chain, new_node[p]) \in Seq(Nodes)
    BY <2>1, AppendFacts DEF TypeOK
  <2> QED
    BY <1>3, <2>1, <2>2 DEF PushLink, TypeOK, Goto, locals, ProducerPc, OwnerPc
<1>4. ASSUME NEW p \in Producers, PushSignal(p)
      PROVE  TypeOK'
  <2>1. pc' \in [Threads -> ProducerPc \cup ConsumerPc \cup OwnerPc]
    BY <1>4 DEF PushSignal, TypeOK, ProducerPc, ConsumerPc
  <2>2. PICK W \in SUBSET Waiting :
          pc' = [t \in Threads |-> IF t = p THEN "unlock"
                                   ELSE IF t \in W THEN "woken" ELSE pc[t]]
    BY <1>4 DEF PushSignal
  <2>3. /\ \A q \in Producers : pc'[q] \in ProducerPc
        /\ \A c \in Consumers : pc'[c] \in ConsumerPc
        /\ pc'[Owner] \in OwnerPc
    BY <2>2 DEF Waiting, TypeOK, ProducerPc, ConsumerPc
  <2> QED
    BY <1>4, <2>1, <2>3 DEF PushSignal, TypeOK, list, locals
<1>5. ASSUME NEW p \in Producers, PushUnlock(p)
      PROVE  TypeOK'
  BY <1>5 DEF PushUnlock, TypeOK, Goto, Leave, list, locals, ProducerPc
<1>6. ASSUME NEW p \in Producers, Stop(p)
      PROVE  TypeOK'
  BY <1>6 DEF Stop, TypeOK, Goto, list, locals, ProducerPc
<1>7. ASSUME NEW c \in Consumers, PopCall(c)
      PROVE  TypeOK'
  BY <1>7 DEF PopCall, TypeOK, Goto, list, ConsumerPc
<1>8. ASSUME NEW c \in Consumers, PopLock(c)
      PROVE  TypeOK'
  BY <1>8 DEF PopLock, TypeOK, Goto, Acquire, list, locals, ConsumerPc
<1>9. ASSUME NEW c \in Consumers, PopWait(c)
      PROVE  TypeOK'
  BY <1>9 DEF PopWait, TypeOK, Goto, Leave, list, locals, ConsumerPc
<1>10. ASSUME NEW c \in Consumers, SpuriousWake(c)
      PROVE  TypeOK'
  BY <1>10 DEF SpuriousWake, TypeOK, Goto, list, locals, ConsumerPc
<1>11. ASSUME NEW c \in Consumers, PopReacquire(c)
      PROVE  TypeOK'
  BY <1>11 DEF PopReacquire, TypeOK, Goto, Acquire, list, locals, ConsumerPc
<1>12. ASSUME NEW c \in Consumers, PopRefuse(c)
      PROVE  TypeOK'
  BY <1>12 DEF PopRefuse, TypeOK, Goto, list, ConsumerPc
<1>13. ASSUME NEW c \in Consumers, PopTake(c)
      PROVE  TypeOK'
  <2>1. chain # <<>> /\ head \in Nodes /\ data[head] \in Data
    BY <1>13, HeadTaken DEF PopTake
  <2>2. Tail(chain) \in Seq(Nodes)
    BY <2>1, TailFacts DEF TypeOK
  <2>3. tail' \in Nodes \cup {NULL}
    BY <1>13 DEF PopTake, TailAfterTake, TypeOK
  <2>4. result' \in [Consumers -> Data \cup {Refused, NULL}]
    BY <1>13, <2>1 DEF PopTake, OutData, TypeOK
  <2> QED
    BY <1>13, <2>1, <2>2, <2>3, <2>4 DEF PopTake, TypeOK, Goto, ConsumerPc
<1>14. ASSUME NEW c \in Consumers, PopFree(c)
      PROVE  TypeOK'
  BY <1>14 DEF PopFree, TypeOK, Goto, Free, list, locals, ConsumerPc
<1>15. ASSUME NEW c \in Consumers, PopUnlock(c)
      PROVE  TypeOK'
  BY <1>15 DEF PopUnlock, TypeOK, Goto, Leave, list, locals, ConsumerPc
<1>16. CASE Close
  <2>1. pc' \in [Threads -> ProducerPc \cup ConsumerPc \cup OwnerPc]
    BY <1>16 DEF Close, TypeOK, ConsumerPc
  <2>2. /\ \A q \in Producers : pc'[q] \in ProducerPc
        /\ \A c \in Consumers : pc'[c] \in ConsumerPc
        /\ pc'[Owner] \in OwnerPc
    BY <1>16 DEF Close, Waiting, TypeOK, ConsumerPc
  <2> QED
    BY <1>16, <2>1, <2>2 DEF Close, TypeOK, list, locals
<1>17. CASE DestroyCall
  BY <1>17 DEF DestroyCall, TypeOK, Goto, list, locals, OwnerPc
<1>18. CASE DestroyLock
  BY <1>18 DEF DestroyLock, TypeOK, Goto, Acquire, list, OwnerPc
<1>19. CASE DestroyFree
  <2>1. chain # <<>> /\ curr \in Nodes
    BY <1>19, CurrFreed DEF DestroyFree
  <2>2. Tail(chain) \in Seq(Nodes)
    BY <2>1, TailFacts DEF TypeOK
  <2> QED
    BY <1>19, <2>1, <2>2 DEF DestroyFree, TypeOK, Free
<1>20. CASE DestroyEnd
  BY <1>20 DEF DestroyEnd, TypeOK, Goto, list, locals, OwnerPc
<1>21. CASE DestroyUnlock
  BY <1>21 DEF DestroyUnlock, TypeOK, Goto, Leave, list, locals, OwnerPc
<1>22. CASE UNCHANGED vars
  BY <1>22 DEF vars, TypeOK
<1> QED
  BY <1>1, <1>2, <1>3, <1>4, <1>5, <1>6, <1>7, <1>8, <1>9, <1>10, <1>11, <1>12,
     <1>13, <1>14, <1>15, <1>16, <1>17, <1>18, <1>19, <1>20, <1>21, <1>22
  DEF Next, Push, Pop, Destroy, Finished

LEMMA LockStep == IInv /\ [Next]_vars => LockInv'
<1> SUFFICES ASSUME IInv, [Next]_vars PROVE LockInv'
  OBVIOUS
<1> USE DEF IInv
<1>1. ASSUME NEW p \in Producers, NEW d \in Data, PushAlloc(p, d)
      PROVE  LockInv'
  BY <1>1 DEF PushAlloc, LockInv, Critical, Goto
<1>2. ASSUME NEW p \in Producers, PushLock(p)
      PROVE  LockInv'
  BY <1>2 DEF PushLock, LockInv, Goto, Acquire
<1>3. ASSUME NEW p \in Producers, PushLink(p)
      PROVE  LockInv'
  BY <1>3 DEF PushLink, LockInv, Critical, Goto
<1>4. ASSUME NEW p \in Producers, PushSignal(p)
      PROVE  LockInv'
  BY <1>4 DEF PushSignal, LockInv, Critical
<1>5. ASSUME NEW p \in Producers, PushUnlock(p)
      PROVE  LockInv'
  BY <1>5 DEF PushUnlock, TypeOK, LockInv, Critical, Goto, Leave
<1>6. ASSUME NEW p \in Producers, Stop(p)
      PROVE  LockInv'
  BY <1>6 DEF Stop, LockInv, Critical, Goto
<1>7. ASSUME NEW c \in Consumers, PopCall(c)
      PROVE  LockInv'
  BY <1>7 DEF PopCall, LockInv, Critical, Goto
<1>8. ASSUME NEW c \in Consumers, PopLock(c)
      PROVE  LockInv'
  BY <1>8 DEF PopLock, LockInv, Goto, Acquire
<1>9. ASSUME NEW c \in Consumers, PopWait(c)
      PROVE  LockInv'
  BY <1>9 DEF PopWait, TypeOK, LockInv, Critical, Goto, Leave
<1>10. ASSUME NEW c \in Consumers, SpuriousWake(c)
      PROVE  LockInv'
  BY <1>10 DEF SpuriousWake, LockInv, Critical, Goto
<1>11. ASSUME NEW c \in Consumers, PopReacquire(c)
      PROVE  LockInv'
  BY <1>11 DEF PopReacquire, LockInv, Goto, Acquire
<1>12. ASSUME NEW c \in Consumers, PopRefuse(c)
      PROVE  LockInv'
  BY <1>12 DEF PopRefuse, LockInv, Critical, Goto
<1>13. ASSUME NEW c \in Consumers, PopTake(c)
      PROVE  LockInv'
  BY <1>13 DEF PopTake, LockInv, Critical, Goto
<1>14. ASSUME NEW c \in Consumers, PopFree(c)
      PROVE  LockInv'
  BY <1>14 DEF PopFree, LockInv, Critical, Goto
<1>15. ASSUME NEW c \in Consumers, PopUnlock(c)
      PROVE  LockInv'
  BY <1>15 DEF PopUnlock, TypeOK, LockInv, Critical, Goto, Leave
<1>16. CASE Close
  BY <1>16 DEF Close, LockInv, Critical
<1>17. CASE DestroyCall
  BY <1>17 DEF DestroyCall, LockInv, Critical, Goto
<1>18. CASE DestroyLock
  BY <1>18 DEF DestroyLock, LockInv, Goto, Acquire
<1>19. CASE DestroyFree
  BY <1>19 DEF DestroyFree, LockInv
<1>20. CASE DestroyEnd
  BY <1>20 DEF DestroyEnd, LockInv, Critical, Goto
<1>21. CASE DestroyUnlock
  BY <1>21 DEF DestroyUnlock, TypeOK, LockInv, Critical, Goto, Leave
<1>22. CASE UNCHANGED vars
  BY <1>22 DEF vars, LockInv
<1> QED
  BY <1>1, <1>2, <1>3, <1>4, <1>5, <1>6, <1>7, <1>8, <1>9, <1>10, <1>11, <1>12,
     <1>13, <1>14, <1>15, <1>16, <1>17, <1>18, <1>19, <1>20, <1>21, <1>22
  DEF Next, Push, Pop, Destroy, Finished

LEMMA JoinStep == IInv /\ [Next]_vars => JoinInv'
<1> SUFFICES ASSUME IInv, [Next]_vars PROVE JoinInv'
  OBVIOUS
<1> USE DEF IInv
<1>1. ASSUME NEW p \in Producers, NEW d \in Data, PushAlloc(p, d)
      PROVE  JoinInv'
  BY <1>1 DEF PushAlloc, TypeOK, JoinInv, Goto
<1>2. ASSUME NEW p \in Producers, PushLock(p)
      PROVE  JoinInv'
  BY <1>2 DEF PushLock, JoinInv, Goto, Acquire
<1>3. ASSUME NEW p \in Producers, PushLink(p)
      PROVE  JoinInv'
  BY <1>3 DEF PushLink, JoinInv, Goto
<1>4. ASSUME NEW p \in Producers, PushSignal(p)
      PROVE  JoinInv'
  BY <1>4 DEF PushSignal, JoinInv, Waiting
<1>5. ASSUME NEW p \in Producers, PushUnlock(p)
      PROVE  JoinInv'
  BY <1>5 DEF PushUnlock, JoinInv, Goto, Leave
<1>6. ASSUME NEW p \in Producers, Stop(p)
      PROVE  JoinInv'
  BY <1>6 DEF Stop, JoinInv, Goto
<1>7. ASSUME NEW c \in Consumers, PopCall(c)
      PROVE  JoinInv'
  BY <1>7 DEF PopCall, JoinInv, Goto
<1>8. ASSUME NEW c \in Consumers, PopLock(c)
      PROVE  JoinInv'
  BY <1>8 DEF PopLock, JoinInv, Goto, Acquire
<1>9. ASSUME NEW c \in Consumers, PopWait(c)
      PROVE  JoinInv'
  BY <1>9 DEF PopWait, JoinInv, Goto, Leave
<1>10. ASSUME NEW c \in Consumers, SpuriousWake(c)
      PROVE  JoinInv'
  BY <1>10 DEF SpuriousWake, JoinInv, Goto
<1>11. ASSUME NEW c \in Consumers, PopReacquire(c)
      PROVE  JoinInv'
  BY <1>11 DEF PopReacquire, JoinInv, Goto, Acquire
<1>12. ASSUME NEW c \in Consumers, PopRefuse(c)
      PROVE  JoinInv'
  BY <1>12 DEF PopRefuse, JoinInv, Goto
<1>13. ASSUME NEW c \in Consumers, PopTake(c)
      PROVE  JoinInv'
  BY <1>13 DEF PopTake, JoinInv, Goto
<1>14. ASSUME NEW c \in Consumers, PopFree(c)
      PROVE  JoinInv'
  BY <1>14 DEF PopFree, JoinInv, Goto
<1>15. ASSUME NEW c \in Consumers, PopUnlock(c)
      PROVE  JoinInv'
  BY <1>15 DEF PopUnlock, TypeOK, JoinInv, Goto, Leave
<1>16. CASE Close
  BY <1>16 DEF Close, JoinInv, Waiting, locals
<1>17. CASE DestroyCall
  BY <1>17 DEF DestroyCall, JoinInv, Goto
<1>18. CASE DestroyLock
  BY <1>18 DEF DestroyLock, JoinInv, Goto, Acquire
<1>19. CASE DestroyFree
  BY <1>19 DEF DestroyFree, JoinInv
<1>20. CASE DestroyEnd
  BY <1>20 DEF DestroyEnd, JoinInv, Goto, locals
<1>21. CASE DestroyUnlock
  BY <1>21 DEF DestroyUnlock, JoinInv, Goto, Leave, locals
<1>22. CASE UNCHANGED vars
  BY <1>22 DEF vars, JoinInv
<1> QED
  BY <1>1, <1>2, <1>3, <1>4, <1>5, <1>6, <1>7, <1>8, <1>9, <1>10, <1>11, <1>12,
     <1>13, <1>14, <1>15, <1>16, <1>17, <1>18, <1>19, <1>20, <1>21, <1>22
  DEF Next, Push, Pop, Destroy, Finished

LEMMA ResultStep == IInv /\ [Next]_vars => ResultInv'
<1> SUFFICES ASSUME IInv, [Next]_vars PROVE ResultInv'
  OBVIOUS
<1> USE DEF IInv
<1>1. ASSUME NEW p \in Producers, NEW d \in Data, PushAlloc(p, d)
      PROVE  ResultInv'
  BY <1>1 DEF PushAlloc, TypeOK, ResultInv, Goto
<1>2. ASSUME NEW p \in Producers, PushLock(p)
      PROVE  ResultInv'
  BY <1>2 DEF PushLock, ResultInv, Goto, Acquire, locals
<1>3. ASSUME NEW p \in Producers, PushLink(p)
      PROVE  ResultInv'
  BY <1>3 DEF PushLink, ResultInv, Goto, locals
<1>4. ASSUME NEW p \in Producers, PushSignal(p)
      PROVE  ResultInv'
  BY <1>4 DEF PushSignal, ResultInv, Waiting, locals
<1>5. ASSUME NEW p \in Producers, PushUnlock(p)
      PROVE  ResultInv'
  BY <1>5 DEF PushUnlock, ResultInv, Goto, Leave, locals
<1>6. ASSUME NEW p \in Producers, Stop(p)
      PROVE  ResultInv'
  BY <1>6 DEF Stop, ResultInv, Goto, locals
<1>7. ASSUME NEW c \in Consumers, PopCall(c)
      PROVE  ResultInv'
  BY <1>7 DEF PopCall, TypeOK, ResultInv, Goto
<1>8. ASSUME NEW c \in Consumers, PopLock(c)
      PROVE  ResultInv'
  BY <1>8 DEF PopLock, ResultInv, Goto, Acquire, locals
<1>9. ASSUME NEW c \in Consumers, PopWait(c)
      PROVE  ResultInv'
  BY <1>9 DEF PopWait, ResultInv, Goto, Leave, locals
<1>10. ASSUME NEW c \in Consumers, SpuriousWake(c)
      PROVE  ResultInv'
  BY <1>10 DEF SpuriousWake, ResultInv, Goto, locals
<1>11. ASSUME NEW c \in Consumers, PopReacquire(c)
      PROVE  ResultInv'
  BY <1>11 DEF PopReacquire, ResultInv, Goto, Acquire, locals
<1>12. ASSUME NEW c \in Consumers, PopRefuse(c)
      PROVE  ResultInv'
  BY <1>12 DEF PopRefuse, TypeOK, ResultInv, Goto
<1>13. ASSUME NEW c \in Consumers, PopTake(c)
      PROVE  ResultInv'
  <2>1. data[head] \in Data
    BY <1>13, HeadTaken DEF PopTake
  <2> QED
    BY <1>13, <2>1 DEF PopTake, OutData, TypeOK, ResultInv, Goto
<1>14. ASSUME NEW c \in Consumers, PopFree(c)
      PROVE  ResultInv'
  BY <1>14 DEF PopFree, ResultInv, Goto, locals
<1>15. ASSUME NEW c \in Consumers, PopUnlock(c)
      PROVE  ResultInv'
  BY <1>15 DEF PopUnlock, TypeOK, ResultInv, Goto, Leave, locals
<1>16. CASE Close
  BY <1>16 DEF Close, ResultInv, Waiting, locals
<1>17. CASE DestroyCall
  BY <1>17 DEF DestroyCall, ResultInv, Goto, locals
<1>18. CASE DestroyLock
  BY <1>18 DEF DestroyLock, ResultInv, Goto, Acquire
<1>19. CASE DestroyFree
  BY <1>19 DEF DestroyFree, ResultInv
<1>20. CASE DestroyEnd
  BY <1>20 DEF DestroyEnd, ResultInv, Goto, locals
<1>21. CASE DestroyUnlock
  BY <1>21 DEF DestroyUnlock, ResultInv, Goto, Leave, locals
<1>22. CASE UNCHANGED vars
  BY <1>22 DEF vars, ResultInv
<1> QED
  BY <1>1, <1>2, <1>3, <1>4, <1>5, <1>6, <1>7, <1>8, <1>9, <1>10, <1>11, <1>12,
     <1>13, <1>14, <1>15, <1>16, <1>17, <1>18, <1>19, <1>20, <1>21, <1>22
  DEF Next, Push, Pop, Destroy, Finished

LEMMA DataStep == IInv /\ [Next]_vars => DataInv'
<1> SUFFICES ASSUME IInv, [Next]_vars PROVE DataInv'
  OBVIOUS
<1> USE DEF IInv
<1>1. ASSUME NEW p \in Producers, NEW d \in Data, PushAlloc(p, d)
      PROVE  DataInv'
  <2>1. PICK n \in Fresh :
          /\ data' = [data EXCEPT ![n] = d]
          /\ next' = [next EXCEPT ![n] = NULL]
          /\ new_node' = [new_node EXCEPT ![p] = n]
    BY <1>1 DEF PushAlloc
  <2>2. /\ \A i \in 1..Len(chain) : chain[i] \in allocated
        /\ \A q \in Unlinked : new_node[q] \in allocated
    BY DEF HeapInv, OwnedOnce, Linked
  <2>3. n \in Nodes /\ n \notin allocated
    BY DEF Fresh
  <2>4. Unlinked' \subseteq Unlinked \cup {p}
    BY <1>1 DEF PushAlloc, Goto, Unlinked, TypeOK
  <2>5. /\ \A i \in 1..Len(chain) : data'[chain[i]] = data[chain[i]]
        /\ \A q \in Unlinked : q # p => data'[new_node'[q]] = data[new_node[q]]
        /\ data'[new_node'[p]] = d
    BY <2>1, <2>2, <2>3 DEF TypeOK
  <2>6. /\ \A q \in Unlinked : q # p => next'[new_node'[q]] = next[new_node[q]]
        /\ next'[new_node'[p]] = NULL
    BY <2>1, <2>2, <2>3 DEF TypeOK
  <2>7. chain' = chain
    BY <1>1 DEF PushAlloc
  <2> QED
    BY <2>4, <2>5, <2>6, <2>7 DEF DataInv
<1>2. ASSUME NEW p \in Producers, PushLock(p)
      PROVE  DataInv'
  BY <1>2 DEF PushLock, DataInv, Goto, Acquire, list, locals, Unlinked
<1>3. ASSUME NEW p \in Producers, PushLink(p)
      PROVE  DataInv'
  <2> DEFINE n == new_node[p]
  <2>1. n \in Nodes /\ data[n] \in Data
    BY <1>3, NewNode DEF PushLink
  <2>2. chain' = Append(chain, n) /\ chain \in Seq(Nodes) /\ data' = data
    BY <1>3 DEF PushLink, TypeOK
  <2>3. \A i \in 1..Len(chain') : data'[chain'[i]] \in Data
    BY <2>1, <2>2, AppendFacts DEF DataInv
  <2>4. Unlinked' = Unlinked \ {p}
    BY <1>3 DEF PushLink, Goto, Unlinked, TypeOK
  <2>5. \A q \in Unlinked' : next'[new_node[q]] = next[new_node[q]]
    <3> TAKE q \in Unlinked'
    <3>1. q \in Unlinked
      BY <2>4
    <3>2. new_node[q] \in Nodes \ Linked
      BY <3>1 DEF HeapInv, OwnedOnce
    <3>3. ASSUME ~LinksAsHead PROVE tail \in Linked
      <4>1. tail = ChainLast /\ tail # NULL
        BY <1>3, <3>3, AtWork DEF PushLink, LinksAsHead
      <4>2. chain # <<>> /\ tail = chain[Len(chain)]
        BY <4>1 DEF ChainLast
      <4>3. Len(chain) \in 1..Len(chain)
        BY <2>2, <4>2, TailFacts
      <4> QED
        BY <4>2, <4>3 DEF Linked
    <3> QED
      BY <1>3, <3>2, <3>3 DEF PushLink, TypeOK
  <2> QED
    BY <1>3, <2>3, <2>4, <2>5 DEF PushLink, DataInv, locals
<1>4. ASSUME NEW p \in Producers, PushSignal(p)
      PROVE  DataInv'
  BY <1>4 DEF PushSignal, DataInv, list, locals, Unlinked
<1>5. ASSUME NEW p \in Producers, PushUnlock(p)
      PROVE  DataInv'
  BY <1>5 DEF PushUnlock, DataInv, Goto, Leave, list, locals, Unlinked
<1>6. ASSUME NEW p \in Producers, Stop(p)
      PROVE  DataInv'
  BY <1>6 DEF Stop, DataInv, Goto, list, locals, Unlinked
<1>7. ASSUME NEW c \in Consumers, PopCall(c)
      PROVE  DataInv'
  BY <1>7 DEF PopCall, DataInv, Goto, list, Unlinked
<1>8. ASSUME NEW c \in Consumers, PopLock(c)
      PROVE  DataInv'
  BY <1>8 DEF PopLock, DataInv, Goto, Acquire, list, locals, Unlinked
<1>9. ASSUME NEW c \in Consumers, PopWait(c)
      PROVE  DataInv'
  BY <1>9 DEF PopWait, DataInv, Goto, Leave, list, locals, Unlinked
<1>10. ASSUME NEW c \in Consumers, SpuriousWake(c)
      PROVE  DataInv'
  BY <1>10 DEF SpuriousWake, DataInv, Goto, list, locals, Unlinked
<1>11. ASSUME NEW c \in Consumers, PopReacquire(c)
      PROVE  DataInv'
  BY <1>11 DEF PopReacquire, DataInv, Goto, Acquire, list, locals, Unlinked
<1>12. ASSUME NEW c \in Consumers, PopRefuse(c)
      PROVE  DataInv'
  BY <1>12 DEF PopRefuse, DataInv, Goto, list, Unlinked
<1>13. ASSUME NEW c \in Consumers, PopTake(c)
      PROVE  DataInv'
  BY <1>13 DEF PopTake, DataInv, Goto, Unlinked
<1>14. ASSUME NEW c \in Consumers, PopFree(c)
      PROVE  DataInv'
  BY <1>14 DEF PopFree, DataInv, Goto, list, locals, Unlinked
<1>15. ASSUME NEW c \in Consumers, PopUnlock(c)
      PROVE  DataInv'
  BY <1>15 DEF PopUnlock, TypeOK, DataInv, Goto, Leave, list, locals, Unlinked
<1>16. CASE Close
  BY <1>16 DEF Close, DataInv, list, locals, Unlinked
<1>17. CASE DestroyCall
  BY <1>17 DEF DestroyCall, DataInv, Goto, list, Unlinked
<1>18. CASE DestroyLock
  BY <1>18 DEF DestroyLock, DataInv, Goto, Acquire, list, Unlinked
<1>19. CASE DestroyFree
  BY <1>19 DEF DestroyFree, DataInv, Unlinked
<1>20. CASE DestroyEnd
  BY <1>20 DEF DestroyEnd, DataInv, Goto, list, locals, Unlinked
<1>21. CASE DestroyUnlock
  BY <1>21 DEF DestroyUnlock, DataInv, Goto, Leave, list, locals, Unlinked
<1>22. CASE UNCHANGED vars
  BY <1>22 DEF vars, DataInv, Unlinked
<1> QED
  BY <1>1, <1>2, <1>3, <1>4, <1>5, <1>6, <1>7, <1>8, <1>9, <1>10, <1>11, <1>12,
     <1>13, <1>14, <1>15, <1>16, <1>17, <1>18, <1>19, <1>20, <1>21, <1>22
  DEF Next, Push, Pop, Destroy, Finished

LEMMA ListStep == IInv /\ [Next]_vars => ListInv'
<1> SUFFICES ASSUME IInv, [Next]_vars PROVE ListInv'
  OBVIOUS
<1> USE DEF IInv
<1>1. ASSUME NEW p \in Producers, NEW d \in Data, PushAlloc(p, d)
      PROVE  ListInv'
  <2>1. PICK n \in Fresh : next' = [next EXCEPT ![n] = NULL]
    BY <1>1 DEF PushAlloc
  <2>2. \A i \in 1..Len(chain) : chain[i] \in allocated
    BY DEF HeapInv, OwnedOnce, Linked
  <2>3. \A i \in 1..Len(chain) : next'[chain[i]] = next[chain[i]]
    BY <2>1, <2>2 DEF Fresh, TypeOK
  <2> QED
    BY <1>1, <2>3 DEF PushAlloc, Goto, ListInv, First, ChainHead, ChainLast
<1>2. ASSUME NEW p \in Producers, PushLock(p)
      PROVE  ListInv'
  BY <1>2
  DEF PushLock, ListInv, Goto, Acquire, list, locals, First, ChainHead, ChainLast
<1>3. ASSUME NEW p \in Producers, PushLink(p)
      PROVE  ListInv'
  <2> DEFINE n == new_node[p]
  <2>1. /\ n \in Nodes /\ n \notin Linked
        /\ pc[Owner] = "running" /\ head = ChainHead /\ tail = ChainLast
    BY <1>3, NewNode, AtWork DEF PushLink
  <2>2. chain \in Seq(Nodes) /\ chain' = Append(chain, n) /\ tail' = n
    BY <1>3 DEF PushLink, TypeOK
  <2>3. /\ Len(chain) \in Nat
        /\ Len(chain') = Len(chain) + 1
        /\ \A i \in 1..Len(chain) : chain'[i] = chain[i] /\ chain[i] \in Nodes
        /\ chain'[Len(chain')] = n
    BY <2>1, <2>2, AppendFacts
  <2>4. pc'[Owner] = "running"
    BY <1>3, <2>1 DEF PushLink, Goto, TypeOK
  <2>5. First' = ChainHead'
    <3>1. chain # <<>> => ~LinksAsHead /\ chain'[1] = chain[1]
      BY <2>1, <2>3 DEF LinksAsHead, ChainLast, ListInv, TypeOK
    <3>2. chain = <<>> => LinksAsHead /\ chain'[1] = n
      BY <2>1, <2>3 DEF LinksAsHead, ChainLast
    <3>3. chain' # <<>>
      BY <2>1, <2>2, AppendFacts
    <3> QED
      BY <1>3, <2>1, <2>4, <3>1, <3>2, <3>3
      DEF PushLink, First, ChainHead
  <2>6. tail' = ChainLast'
    BY <2>1, <2>2, <2>3, AppendFacts DEF ChainLast
  <2>7. \A i \in 1..Len(chain') :
          next'[chain'[i]] = IF i = Len(chain') THEN NULL ELSE chain'[i + 1]
    <3>1. CASE chain = <<>>
      <4>1. LinksAsHead /\ Len(chain) = 0
        BY <2>1, <3>1 DEF LinksAsHead, ChainLast
      <4>2. next' = next /\ next[n] = NULL
        BY <1>3, <4>1, NewNode DEF PushLink
      <4> QED
        BY <2>3, <4>1, <4>2
    <3>2. CASE chain # <<>>
      <4> DEFINE last == Len(chain)
      <4>1. last \in 1..last /\ tail = chain[last] /\ ~LinksAsHead
        BY <2>1, <2>3, <3>2 DEF ChainLast, LinksAsHead, TypeOK
      <4>2. next' = [next EXCEPT ![chain[last]] = n]
        BY <1>3, <4>1 DEF PushLink
      <4>3. \A i \in 1..last : chain[i] # n
        BY <2>1 DEF Linked
      <4>4. next'[n] = NULL
        BY <1>3, <2>1, <2>3, <4>1, <4>2, <4>3, NewNode DEF PushLink, TypeOK
      <4>5. next'[chain[last]] = n
        BY <2>3, <4>1, <4>2 DEF TypeOK
      <4>6. \A i \in 1..last : i # last => next'[chain[i]] = chain[i + 1]
        BY <2>3, <4>1, <4>2 DEF TypeOK, ListInv
      <4> QED
        BY <2>2, <2>3, <4>1, <4>4, <4>5, <4>6
    <3> QED
      BY <3>1, <3>2
  <2>8. \A i, j \in 1..Len(chain') : chain'[i] = chain'[j] => i = j
    BY <2>1, <2>3 DEF ListInv, Linked
  <2> QED
    BY <2>5, <2>6, <2>7, <2>8 DEF ListInv
<1>4. ASSUME NEW p \in Producers, PushSignal(p)
      PROVE  ListInv'
  BY <1>4
  DEF PushSignal, ListInv, Waiting, list, locals, First, ChainHead, ChainLast
<1>5. ASSUME NEW p \in Producers, PushUnlock(p)
      PROVE  ListInv'
  BY <1>5
  DEF PushUnlock, ListInv, Goto, Leave, list, locals, First, ChainHead, ChainLast
<1>6. ASSUME NEW p \in Producers, Stop(p)
      PROVE  ListInv'
  BY <1>6 DEF Stop, ListInv, Goto, list, locals, First, ChainHead, ChainLast
<1>7. ASSUME NEW c \in Consumers, PopCall(c)
      PROVE  ListInv'
  BY <1>7 DEF PopCall, ListInv, Goto, list, First, ChainHead, ChainLast
<1>8. ASSUME NEW c \in Consumers, PopLock(c)
      PROVE  ListInv'
  BY <1>8
  DEF PopLock, ListInv, Goto, Acquire, list, locals, First, ChainHead, ChainLast
<1>9. ASSUME NEW c \in Consumers, PopWait(c)
      PROVE  ListInv'
  BY <1>9
  DEF PopWait, ListInv, Goto, Leave, list, locals, First, ChainHead, ChainLast
<1>10. ASSUME NEW c \in Consumers, SpuriousWake(c)
      PROVE  ListInv'
  BY <1>10
  DEF SpuriousWake, ListInv, Goto, list, locals, First, ChainHead, ChainLast
<1>11. ASSUME NEW c \in Consumers, PopReacquire(c)
      PROVE  ListInv'
  BY <1>11
  DEF PopReacquire, ListInv, Goto, Acquire, list, locals, First, ChainHead,
      ChainLast
<1>12. ASSUME NEW c \in Consumers, PopRefuse(c)
      PROVE  ListInv'
  BY <1>12 DEF PopRefuse, ListInv, Goto, list, First, ChainHead, ChainLast
<1>13. ASSUME NEW c \in Consumers, PopTake(c)
      PROVE  ListInv'
  <2>1. /\ chain # <<>> /\ head = chain[1] /\ chain' = Tail(chain)
        /\ next[head] = IF Len(chain) = 1 THEN NULL ELSE chain[2]
        /\ pc[Owner] = "running" /\ tail = ChainLast
    BY <1>13, HeadTaken, AtWork DEF PopTake
  <2>2. /\ Len(chain) \in Nat \ {0}
        /\ Len(chain') = Len(chain) - 1
        /\ \A i \in 1..Len(chain') : chain'[i] = chain[i + 1] /\ i + 1 \in 1..Len(chain)
        /\ \A i \in 1..Len(chain) : chain[i] \in Nodes
    BY <2>1, TailFacts DEF TypeOK
  <2>3. chain' = <<>> <=> Len(chain) = 1
    BY <2>1, TailFacts DEF TypeOK
  <2>4. pc'[Owner] = "running"
    BY <1>13, <2>1 DEF PopTake, Goto, TypeOK
  <2>5. First' = ChainHead'
    BY <1>13, <2>1, <2>2, <2>3, <2>4 DEF PopTake, First, ChainHead
  <2>6. tail' = ChainLast'
    BY <1>13, <2>1, <2>2, <2>3 DEF PopTake, TailAfterTake, ChainLast
  <2>7. \A i \in 1..Len(chain') :
          next'[chain'[i]] = IF i = Len(chain') THEN NULL ELSE chain'[i + 1]
    <3> TAKE i \in 1..Len(chain')
    <3>1. next'[chain'[i]] = next[chain[i + 1]]
      BY <1>13, <2>2 DEF PopTake
    <3>2. next[chain[i + 1]]
            = IF i + 1 = Len(chain) THEN NULL ELSE chain[(i + 1) + 1]
      BY <2>2 DEF ListInv
    <3>3. i + 1 = Len(chain) <=> i = Len(chain')
      BY <2>2
    <3>4. i # Len(chain') => chain'[i + 1] = chain[(i + 1) + 1]
      BY <2>2
    <3> QED
      BY <3>1, <3>2, <3>3, <3>4
  <2>8. \A i, j \in 1..Len(chain') : chain'[i] = chain'[j] => i = j
    BY <2>2 DEF ListInv
  <2> QED
    BY <2>5, <2>6, <2>7, <2>8 DEF ListInv
<1>14. ASSUME NEW c \in Consumers, PopFree(c)
      PROVE  ListInv'
  BY <1>14 DEF PopFree, ListInv, Goto, list, locals, First, ChainHead, ChainLast
<1>15. ASSUME NEW c \in Consumers, PopUnlock(c)
      PROVE  ListInv'
  BY <1>15
  DEF PopUnlock, TypeOK, ListInv, Goto, Leave, list, locals, First, ChainHead,
      ChainLast
<1>16. CASE Close
  BY <1>16 DEF Close, ListInv, Waiting, list, locals, First, ChainHead, ChainLast
<1>17. CASE DestroyCall
  BY <1>17 DEF DestroyCall, ListInv, Goto, list, First, ChainHead, ChainLast
<1>18. CASE DestroyLock
  BY <1>18 DEF DestroyLock, ListInv, Acquire, list, First, ChainHead, ChainLast
<1>19. CASE DestroyFree
  <2>1. /\ chain # <<>> /\ curr = chain[1] /\ chain' = Tail(chain)
        /\ next[curr] = IF Len(chain) = 1 THEN NULL ELSE chain[2]
    BY <1>19, CurrFreed DEF DestroyFree
  <2>2. /\ Len(chain) \in Nat \ {0}
        /\ Len(chain') = Len(chain) - 1
        /\ \A i \in 1..Len(chain') : chain'[i] = chain[i + 1] /\ i + 1 \in 1..Len(chain)
        /\ \A i \in 1..Len(chain) : chain[i] \in Nodes
    BY <2>1, TailFacts DEF TypeOK
  <2>3. chain' = <<>> <=> Len(chain) = 1
    BY <2>1, TailFacts DEF TypeOK
  <2>4. First' = ChainHead'
    BY <1>19, <2>1, <2>2, <2>3 DEF DestroyFree, First, ChainHead
  <2>5. \A i \in 1..Len(chain') :
          next'[chain'[i]] = IF i = Len(chain') THEN NULL ELSE chain'[i + 1]
    <3> TAKE i \in 1..Len(chain')
    <3>1. next'[chain'[i]] = next[chain[i + 1]]
      BY <1>19, <2>2 DEF DestroyFree
    <3>2. next[chain[i + 1]]
            = IF i + 1 = Len(chain) THEN NULL ELSE chain[(i + 1) + 1]
      BY <2>2 DEF ListInv
    <3>3. i + 1 = Len(chain) <=> i = Len(chain')
      BY <2>2
    <3>4. i # Len(chain') => chain'[i + 1] = chain[(i + 1) + 1]
      BY <2>2
    <3> QED
      BY <3>1, <3>2, <3>3, <3>4
  <2>6. \A i, j \in 1..Len(chain') : chain'[i] = chain'[j] => i = j
    BY <2>2 DEF ListInv
  <2> QED
    BY <1>19, <2>4, <2>5, <2>6 DEF ListInv, DestroyFree
<1>20. CASE DestroyEnd
  BY <1>20 DEF DestroyEnd, ListInv, Goto, list, locals, First, ChainHead
<1>21. CASE DestroyUnlock
  BY <1>21 DEF DestroyUnlock, ListInv, Goto, Leave, list, locals, First, ChainHead
<1>22. CASE UNCHANGED vars
  BY <1>22 DEF vars, ListInv, First, ChainHead, ChainLast
<1> QED
  BY <1>1, <1>2, <1>3, <1>4, <1>5, <1>6, <1>7, <1>8, <1>9, <1>10, <1>11, <1>12,
     <1>13, <1>14, <1>15, <1>16, <1>17, <1>18, <1>19, <1>20, <1>21, <1>22
  DEF Next, Push, Pop, Destroy, Finished

-----------------------------------------------------------------------------
\* The heap

LEMMA OwnedFrame ==
  ASSUME OwnedOnce, UNCHANGED <<chain, allocated, new_node, temp>>,
         Unlinked' = Unlinked, Taking' = Taking
  PROVE  OwnedOnce'
  BY DEF OwnedOnce, Linked

LEMMA OwnedStep == IInv /\ [Next]_vars => OwnedOnce'
<1> SUFFICES ASSUME IInv, [Next]_vars PROVE OwnedOnce'
  OBVIOUS
<1> USE DEF IInv, HeapInv
<1>1. ASSUME NEW p \in Producers, NEW d \in Data, PushAlloc(p, d)
      PROVE  OwnedOnce'
  <2>1. PICK n \in Fresh :
          /\ allocated' = allocated \cup {n}
          /\ new_node' = [new_node EXCEPT ![p] = n]
    BY <1>1 DEF PushAlloc
  <2>2. n \in Nodes /\ n \notin allocated
    BY DEF Fresh
  <2>3. Unlinked' = Unlinked \cup {p} /\ p \notin Unlinked /\ Taking' = Taking
    BY <1>1 DEF PushAlloc, Goto, Unlinked, Taking, TypeOK
  <2>4. Linked' = Linked /\ temp' = temp
    BY <1>1 DEF PushAlloc, Linked
  <2>5. new_node'[p] = n /\ \A q \in Unlinked : new_node'[q] = new_node[q]
    BY <2>1, <2>3 DEF TypeOK, Unlinked
  <2>6. {new_node'[q] : q \in Unlinked'} = {new_node[q] : q \in Unlinked} \cup {n}
    BY <2>3, <2>5
  <2> QED
    BY <2>1, <2>2, <2>3, <2>4, <2>5, <2>6 DEF OwnedOnce
<1>2. ASSUME NEW p \in Producers, PushLock(p)
      PROVE  OwnedOnce'
  <2>1. Unlinked' = Unlinked /\ Taking' = Taking
    BY <1>2 DEF PushLock, Goto, Acquire, Unlinked, Taking
  <2> QED
    BY <1>2, <2>1, OwnedFrame DEF PushLock, list, locals
<1>3. ASSUME NEW p \in Producers, PushLink(p)
      PROVE  OwnedOnce'
  <2> DEFINE n == new_node[p]
  <2>1. n \in Nodes /\ p \in Unlinked
    BY <1>3, NewNode DEF PushLink, Unlinked
  <2>2. Linked' = Linked \cup {n}
    BY <1>3, <2>1, LinkedAppend DEF PushLink, TypeOK
  <2>3. Unlinked' = Unlinked \ {p} /\ Taking' = Taking
    BY <1>3 DEF PushLink, Goto, Unlinked, Taking, TypeOK
  <2>4. new_node' = new_node /\ temp' = temp /\ allocated' = allocated
    BY <1>3 DEF PushLink, locals
  <2> QED
    BY <2>1, <2>2, <2>3, <2>4 DEF OwnedOnce
<1>4. ASSUME NEW p \in Producers, PushSignal(p)
      PROVE  OwnedOnce'
  <2>1. Unlinked' = Unlinked /\ Taking' = Taking
    BY <1>4 DEF PushSignal, Waiting, Unlinked, Taking
  <2> QED
    BY <1>4, <2>1, OwnedFrame DEF PushSignal, list, locals
<1>5. ASSUME NEW p \in Producers, PushUnlock(p)
      PROVE  OwnedOnce'
  <2>1. Unlinked' = Unlinked /\ Taking' = Taking
    BY <1>5 DEF PushUnlock, Goto, Leave, Unlinked, Taking
  <2> QED
    BY <1>5, <2>1, OwnedFrame DEF PushUnlock, list, locals
<1>6. ASSUME NEW p \in Producers, Stop(p)
      PROVE  OwnedOnce'
  <2>1. Unlinked' = Unlinked /\ Taking' = Taking
    BY <1>6 DEF Stop, Goto, Unlinked, Taking
  <2> QED
    BY <1>6, <2>1, OwnedFrame DEF Stop, list, locals
<1>7. ASSUME NEW c \in Consumers, PopCall(c)
      PROVE  OwnedOnce'
  <2>1. Unlinked' = Unlinked /\ Taking' = Taking
    BY <1>7 DEF PopCall, Goto, Unlinked, Taking
  <2> QED
    BY <1>7, <2>1, OwnedFrame DEF PopCall, list, locals
<1>8. ASSUME NEW c \in Consumers, PopLock(c)
      PROVE  OwnedOnce'
  <2>1. Unlinked' = Unlinked /\ Taking' = Taking
    BY <1>8 DEF PopLock, Goto, Acquire, Unlinked, Taking
  <2> QED
    BY <1>8, <2>1, OwnedFrame DEF PopLock, list, locals
<1>9. ASSUME NEW c \in Consumers, PopWait(c)
      PROVE  OwnedOnce'
  <2>1. Unlinked' = Unlinked /\ Taking' = Taking
    BY <1>9 DEF PopWait, Goto, Leave, Unlinked, Taking
  <2> QED
    BY <1>9, <2>1, OwnedFrame DEF PopWait, list, locals
<1>10. ASSUME NEW c \in Consumers, SpuriousWake(c)
      PROVE  OwnedOnce'
  <2>1. Unlinked' = Unlinked /\ Taking' = Taking
    BY <1>10 DEF SpuriousWake, Goto, Unlinked, Taking
  <2> QED
    BY <1>10, <2>1, OwnedFrame DEF SpuriousWake, list, locals
<1>11. ASSUME NEW c \in Consumers, PopReacquire(c)
      PROVE  OwnedOnce'
  <2>1. Unlinked' = Unlinked /\ Taking' = Taking
    BY <1>11 DEF PopReacquire, Goto, Acquire, Unlinked, Taking
  <2> QED
    BY <1>11, <2>1, OwnedFrame DEF PopReacquire, list, locals
<1>12. ASSUME NEW c \in Consumers, PopRefuse(c)
      PROVE  OwnedOnce'
  <2>1. Unlinked' = Unlinked /\ Taking' = Taking
    BY <1>12 DEF PopRefuse, Goto, Unlinked, Taking
  <2> QED
    BY <1>12, <2>1, OwnedFrame DEF PopRefuse, list, locals
<1>13. ASSUME NEW c \in Consumers, PopTake(c)
      PROVE  OwnedOnce'
  <2>1. chain # <<>> /\ head = chain[1] /\ head \in Nodes
    BY <1>13, HeadTaken DEF PopTake
  <2>2. Linked' = Linked \ {head}
    BY <1>13, <2>1, LinkedTail DEF PopTake, TypeOK, ListInv
  <2>3. head \in Linked
    BY <2>1, TailFacts DEF Linked, TypeOK
  <2>4. Taking' = Taking \cup {c} /\ c \notin Taking /\ Unlinked' = Unlinked
    BY <1>13 DEF PopTake, Goto, Unlinked, Taking, TypeOK
  <2>5. temp'[c] = head /\ \A x \in Taking : temp'[x] = temp[x]
    BY <1>13, <2>4 DEF PopTake, Taking, TypeOK
  <2>6. {temp'[x] : x \in Taking'} = {temp[x] : x \in Taking} \cup {head}
    BY <2>4, <2>5
  <2>7. new_node' = new_node /\ allocated' = allocated
    BY <1>13 DEF PopTake
  <2> QED
    BY <2>1, <2>2, <2>3, <2>4, <2>5, <2>6, <2>7 DEF OwnedOnce
<1>14. ASSUME NEW c \in Consumers, PopFree(c)
      PROVE  OwnedOnce'
  <2>1. Taking = {c}
    BY <1>14 DEF PopFree, Taking, LockInv, Critical
  <2>2. Taking' = {} /\ Unlinked' = Unlinked
    BY <1>14, <2>1 DEF PopFree, Goto, Unlinked, Taking, TypeOK
  <2>3. /\ allocated' = allocated \ {temp[c]}
        /\ Linked' = Linked /\ new_node' = new_node /\ temp' = temp
    BY <1>14 DEF PopFree, Free, list, locals, Linked
  <2> QED
    BY <2>1, <2>2, <2>3 DEF OwnedOnce
<1>15. ASSUME NEW c \in Consumers, PopUnlock(c)
      PROVE  OwnedOnce'
  <2>1. Unlinked' = Unlinked /\ Taking' = Taking
    BY <1>15 DEF PopUnlock, TypeOK, Goto, Leave, Unlinked, Taking
  <2> QED
    BY <1>15, <2>1, OwnedFrame DEF PopUnlock, list, locals
<1>16. CASE Close
  <2>1. Unlinked' = Unlinked /\ Taking' = Taking
    BY <1>16 DEF Close, Waiting, Unlinked, Taking
  <2> QED
    BY <1>16, <2>1, OwnedFrame DEF Close, list, locals
<1>17. CASE DestroyCall
  <2>1. Unlinked' = Unlinked /\ Taking' = Taking
    BY <1>17 DEF DestroyCall, Goto, Unlinked, Taking
  <2> QED
    BY <1>17, <2>1, OwnedFrame DEF DestroyCall, list, locals
<1>18. CASE DestroyLock
  <2>1. Unlinked' = Unlinked /\ Taking' = Taking
    BY <1>18 DEF DestroyLock, Goto, Acquire, Unlinked, Taking
  <2> QED
    BY <1>18, <2>1, OwnedFrame DEF DestroyLock, list, locals
<1>19. CASE DestroyFree
  <2>1. chain # <<>> /\ curr = chain[1]
    BY <1>19, CurrFreed DEF DestroyFree
  <2>2. Linked' = Linked \ {curr}
    BY <1>19, <2>1, LinkedTail DEF DestroyFree, TypeOK, ListInv
  <2>3. Unlinked = {} /\ Taking = {}
    BY <1>19 DEF DestroyFree, JoinInv, Unlinked, Taking
  <2>4. Unlinked' = {} /\ Taking' = {} /\ allocated' = allocated \ {curr}
    BY <1>19, <2>3 DEF DestroyFree, Free, Unlinked, Taking
  <2> QED
    BY <2>2, <2>3, <2>4 DEF OwnedOnce
<1>20. CASE DestroyEnd
  <2>1. Unlinked' = Unlinked /\ Taking' = Taking
    BY <1>20 DEF DestroyEnd, Goto, Unlinked, Taking
  <2> QED
    BY <1>20, <2>1, OwnedFrame DEF DestroyEnd, list, locals
<1>21. CASE DestroyUnlock
  <2>1. Unlinked' = Unlinked /\ Taking' = Taking
    BY <1>21 DEF DestroyUnlock, Goto, Leave, Unlinked, Taking
  <2> QED
    BY <1>21, <2>1, OwnedFrame DEF DestroyUnlock, list, locals
<1>22. CASE UNCHANGED vars
  BY <1>22, OwnedFrame DEF vars, Unlinked, Taking
<1> QED
  BY <1>1, <1>2, <1>3, <1>4, <1>5, <1>6, <1>7, <1>8, <1>9, <1>10, <1>11, <1>12,
     <1>13, <1>14, <1>15, <1>16, <1>17, <1>18, <1>19, <1>20, <1>21, <1>22
  DEF Next, Push, Pop, Destroy, Finished

\* queue_destroy ends when nothing is left on the list and, being alone, no
\* thread holds a node: then nothing is allocated.
LEMMA HeapStep == IInv /\ [Next]_vars => HeapInv'
<1> SUFFICES ASSUME IInv, [Next]_vars, (pc[Owner] = "destroyed")'
             PROVE  (allocated = {})'
  BY OwnedStep DEF HeapInv
<1>1. TypeOK' /\ JoinInv' /\ ListInv' /\ OwnedOnce'
  BY TypeStep, JoinStep, ListStep, OwnedStep
<1>2. Unlinked' = {} /\ Taking' = {}
  BY <1>1 DEF JoinInv, Unlinked, Taking
<1>3. curr' = NULL
  BY <1>1 DEF JoinInv
<1>4. chain' = <<>>
  BY <1>1, <1>3, TailFacts DEF ListInv, First, ChainHead, TypeOK
<1> QED
  BY <1>1, <1>2, <1>4 DEF OwnedOnce, Linked

\* The strengthening of the invariants is preserved by every step of every thread.
THEOREM Invariance == Spec => []IInv
<1>1. IInv /\ [Next]_vars => IInv'
  BY TypeStep, LockStep, JoinStep, ResultStep, DataStep, ListStep, HeapStep
  DEF IInv
<1> QED
  BY InitIInv, <1>1, PTL DEF Spec

\* The variables keep their types.
THEOREM TypeCorrect == Spec => []TypeOK
  BY Invariance, PTL DEF IInv

\* The pointers always mirror the queue.
THEOREM ListCorrect == Spec => []ListInv
  BY Invariance, PTL DEF IInv

\* No node leaks or is freed twice, and queue_destroy leaves nothing behind.
THEOREM HeapCorrect == Spec => []HeapInv
  BY Invariance, PTL DEF IInv

-----------------------------------------------------------------------------
\* Signals

LEMMA AttentiveFinite == IsFiniteSet(Attentive) /\ Cardinality(Attentive) \in Nat
  BY FS_Subset, FS_CardinalityType DEF Attentive

LEMMA LenChain == IInv => Len(chain) \in Nat
  BY DEF IInv, TypeOK

LEMMA NoneLinked == Len(<<>>) = 0 /\ Cardinality(Attentive)' \in Nat
  <1>1. IsFiniteSet(Attentive')
    BY FS_Subset DEF Attentive
  <1> QED
    BY <1>1, FS_CardinalityType

LEMMA NoLostStep == IInv /\ NoLostWakeup /\ [Next]_vars => NoLostWakeup'
<1> SUFFICES ASSUME IInv, NoLostWakeup, [Next]_vars
             PROVE  NoLostWakeup'
  OBVIOUS
<1> USE DEF IInv
<1>1. ASSUME NEW p \in Producers, NEW d \in Data, PushAlloc(p, d)
      PROVE  NoLostWakeup'
  <2>1. Attentive' = Attentive /\ Waiting' \subseteq Waiting /\ chain' = chain
    BY <1>1 DEF PushAlloc, Goto, Waiting, Attentive
  <2> QED
    BY <2>1 DEF NoLostWakeup
<1>2. ASSUME NEW p \in Producers, PushLock(p)
      PROVE  NoLostWakeup'
  <2>1. Attentive' = Attentive /\ Waiting' \subseteq Waiting /\ chain' = chain
    BY <1>2 DEF PushLock, Goto, Acquire, Waiting, Attentive, list
  <2> QED
    BY <2>1 DEF NoLostWakeup
<1>3. ASSUME NEW p \in Producers, PushLink(p)
      PROVE  NoLostWakeup'
  <2>1. Attentive' = Attentive \cup {p} /\ p \notin Attentive
    BY <1>3 DEF PushLink, TypeOK, Goto, Attentive
  <2>2. Cardinality(Attentive') = Cardinality(Attentive) + 1
    BY <2>1, AttentiveFinite, FS_AddElement
  <2>3. Waiting' = Waiting
    BY <1>3 DEF PushLink, TypeOK, Goto, Waiting
  <2>4. Len(chain') = Len(chain) + 1
    BY <1>3, NewNode, AppendFacts DEF PushLink, TypeOK
  <2> QED
    BY <2>2, <2>3, <2>4, AttentiveFinite, LenChain DEF NoLostWakeup
<1>4. ASSUME NEW p \in Producers, PushSignal(p)
      PROVE  NoLostWakeup'
  <2>1. PICK W \in SUBSET Waiting :
          /\ Signalled(W)
          /\ pc' = [t \in Threads |-> IF t = p THEN "unlock"
                                      ELSE IF t \in W THEN "woken" ELSE pc[t]]
    BY <1>4 DEF PushSignal
  <2>2. chain' = chain
    BY <1>4 DEF PushSignal, list
  <2>3. CASE Waiting = {}
    <3>1. Waiting' = {}
      BY <2>1, <2>3 DEF Waiting, TypeOK
    <3> QED
      BY <3>1 DEF NoLostWakeup
  <2>4. CASE Waiting # {}
    <3>1. PICK w \in Waiting : W = {w}
      BY <2>1, <2>4 DEF Signalled
    <3>2. p \in Attentive /\ w \notin Attentive
      BY <1>4 DEF PushSignal, Attentive, Waiting
    <3>3. Attentive' = (Attentive \ {p}) \cup {w}
      BY <1>4, <2>1, <3>1 DEF PushSignal, Attentive, Waiting, TypeOK
    <3>4. /\ IsFiniteSet(Attentive \ {p})
          /\ Cardinality(Attentive \ {p}) = Cardinality(Attentive) - 1
      BY <3>2, AttentiveFinite, FS_RemoveElement
    <3>5. Cardinality(Attentive') = Cardinality(Attentive \ {p}) + 1
      BY <3>2, <3>3, <3>4, FS_AddElement
    <3> QED
      BY <2>2, <2>4, <3>4, <3>5, AttentiveFinite DEF NoLostWakeup
  <2> QED
    BY <2>3, <2>4
<1>5. ASSUME NEW p \in Producers, PushUnlock(p)
      PROVE  NoLostWakeup'
  <2>1. Attentive' = Attentive /\ Waiting' \subseteq Waiting /\ chain' = chain
    BY <1>5 DEF PushUnlock, Goto, Leave, Waiting, Attentive, list
  <2> QED
    BY <2>1 DEF NoLostWakeup
<1>6. ASSUME NEW p \in Producers, Stop(p)
      PROVE  NoLostWakeup'
  <2>1. Attentive' = Attentive /\ Waiting' \subseteq Waiting /\ chain' = chain
    BY <1>6 DEF Stop, Goto, Waiting, Attentive, list
  <2> QED
    BY <2>1 DEF NoLostWakeup
<1>7. ASSUME NEW c \in Consumers, PopCall(c)
      PROVE  NoLostWakeup'
  <2>1. Attentive' = Attentive /\ Waiting' \subseteq Waiting /\ chain' = chain
    BY <1>7 DEF PopCall, Goto, Waiting, Attentive, list
  <2> QED
    BY <2>1 DEF NoLostWakeup
<1>8. ASSUME NEW c \in Consumers, PopLock(c)
      PROVE  NoLostWakeup'
  <2>1. Attentive' = Attentive \cup {c}
    BY <1>8 DEF PopLock, TypeOK, Goto, Acquire, Attentive
  <2>2. Cardinality(Attentive') \in {Cardinality(Attentive), Cardinality(Attentive) + 1}
    BY <2>1, AttentiveFinite, FS_AddElement
  <2>3. Waiting' \subseteq Waiting /\ chain' = chain
    BY <1>8 DEF PopLock, Goto, Acquire, Waiting, list
  <2> QED
    BY <2>2, <2>3, AttentiveFinite, LenChain DEF NoLostWakeup
<1>9. ASSUME NEW c \in Consumers, PopWait(c)
      PROVE  NoLostWakeup'
  <2>1. head = NULL /\ chain' = chain
    BY <1>9 DEF PopWait, MustWait, MustRefuse, list
  <2>2. chain = <<>>
    BY <1>9, <2>1, AtWork, TailFacts DEF PopWait, Leave, ChainHead, TypeOK
  <2> QED
    BY <2>1, <2>2, NoneLinked DEF NoLostWakeup
<1>10. ASSUME NEW c \in Consumers, SpuriousWake(c)
      PROVE  NoLostWakeup'
  <2>1. Attentive' = Attentive \cup {c}
    BY <1>10 DEF SpuriousWake, TypeOK, Goto, Attentive
  <2>2. Cardinality(Attentive') \in {Cardinality(Attentive), Cardinality(Attentive) + 1}
    BY <2>1, AttentiveFinite, FS_AddElement
  <2>3. Waiting' \subseteq Waiting /\ chain' = chain
    BY <1>10 DEF SpuriousWake, Goto, Waiting, list
  <2> QED
    BY <2>2, <2>3, AttentiveFinite, LenChain DEF NoLostWakeup
<1>11. ASSUME NEW c \in Consumers, PopReacquire(c)
      PROVE  NoLostWakeup'
  <2>1. Attentive' = Attentive /\ Waiting' \subseteq Waiting /\ chain' = chain
    BY <1>11 DEF PopReacquire, Goto, Acquire, Waiting, Attentive, list
  <2> QED
    BY <2>1 DEF NoLostWakeup
<1>12. ASSUME NEW c \in Consumers, PopRefuse(c)
      PROVE  NoLostWakeup'
  <2>1. head = NULL /\ chain' = chain
    BY <1>12 DEF PopRefuse, MustWait, MustRefuse, list
  <2>2. chain = <<>>
    BY <1>12, <2>1, AtWork, TailFacts DEF PopRefuse, Leave, ChainHead, TypeOK
  <2> QED
    BY <2>1, <2>2, NoneLinked DEF NoLostWakeup
<1>13. ASSUME NEW c \in Consumers, PopTake(c)
      PROVE  NoLostWakeup'
  <2>1. Attentive' = Attentive \ {c} /\ c \in Attentive
    BY <1>13 DEF PopTake, TypeOK, Goto, Attentive
  <2>2. Cardinality(Attentive') = Cardinality(Attentive) - 1
    BY <2>1, AttentiveFinite, FS_RemoveElement
  <2>3. Waiting' = Waiting
    BY <1>13 DEF PopTake, TypeOK, Goto, Waiting
  <2>4. Len(chain') = Len(chain) - 1
    BY <1>13, HeadTaken, TailFacts DEF PopTake, TypeOK
  <2> QED
    BY <2>2, <2>3, <2>4, AttentiveFinite, LenChain DEF NoLostWakeup
<1>14. ASSUME NEW c \in Consumers, PopFree(c)
      PROVE  NoLostWakeup'
  <2>1. Attentive' = Attentive /\ Waiting' \subseteq Waiting /\ chain' = chain
    BY <1>14 DEF PopFree, Goto, Waiting, Attentive, list
  <2> QED
    BY <2>1 DEF NoLostWakeup
<1>15. ASSUME NEW c \in Consumers, PopUnlock(c)
      PROVE  NoLostWakeup'
  <2>1. Attentive' = Attentive /\ Waiting' \subseteq Waiting /\ chain' = chain
    BY <1>15 DEF PopUnlock, TypeOK, Goto, Leave, Waiting, Attentive, list
  <2> QED
    BY <2>1 DEF NoLostWakeup
<1>16. CASE Close
  <2>1. chain' = chain
    BY <1>16 DEF Close, list
  <2>2. CASE CloserWakes
    <3>1. Waiting' = {}
      BY <1>16, <2>2 DEF Close, Waiting, TypeOK
    <3> QED
      BY <3>1 DEF NoLostWakeup
  <2>3. CASE ~CloserWakes
    <3>1. pc' = pc
      BY <1>16, <2>3 DEF Close, TypeOK
    <3> QED
      BY <2>1, <3>1 DEF NoLostWakeup, Attentive, Waiting
  <2> QED
    BY <2>2, <2>3
<1>17. CASE DestroyCall
  <2>1. Waiting' = {}
    BY <1>17 DEF DestroyCall, Goto, Waiting
  <2> QED
    BY <2>1 DEF NoLostWakeup
<1>18. CASE DestroyLock
  <2>1. Waiting' = {}
    BY <1>18 DEF DestroyLock, JoinInv, Goto, Acquire, Waiting
  <2> QED
    BY <2>1 DEF NoLostWakeup
<1>19. CASE DestroyFree
  <2>1. Waiting' = {}
    BY <1>19 DEF DestroyFree, JoinInv, Waiting
  <2> QED
    BY <2>1 DEF NoLostWakeup
<1>20. CASE DestroyEnd
  <2>1. Waiting' = {}
    BY <1>20 DEF DestroyEnd, JoinInv, Goto, Waiting
  <2> QED
    BY <2>1 DEF NoLostWakeup
<1>21. CASE DestroyUnlock
  <2>1. Waiting' = {}
    BY <1>21 DEF DestroyUnlock, JoinInv, Goto, Leave, Waiting
  <2> QED
    BY <2>1 DEF NoLostWakeup
<1>22. CASE UNCHANGED vars
  BY <1>22 DEF vars, NoLostWakeup, Attentive, Waiting
<1> QED
  BY <1>1, <1>2, <1>3, <1>4, <1>5, <1>6, <1>7, <1>8, <1>9, <1>10, <1>11, <1>12,
     <1>13, <1>14, <1>15, <1>16, <1>17, <1>18, <1>19, <1>20, <1>21, <1>22
  DEF Next, Push, Pop, Destroy, Finished

\* For any number of threads, no signal is lost.
THEOREM NoLostWakeupCorrect == Spec => []NoLostWakeup
<1>1. Init => NoLostWakeup
  <2> SUFFICES ASSUME Init PROVE Waiting = {}
    BY DEF NoLostWakeup
  <2> QED
    BY DEF Init, Waiting
<1> QED
  BY <1>1, NoLostStep, Invariance, PTL DEF Spec

-----------------------------------------------------------------------------
(* The refinement.  Every behaviour of BmQueue is one of FifoQueue: linking  *)
(* a node enqueues, taking one dequeues, every other step of a pusher or     *)
(* popper changes nothing a caller can see.                                  *)

USE ThreadsAssumption, ValuesAssumption DEF Workers, Threads

Items == [i \in 1..Len(chain) |-> data[chain[i]]]

LEMMA ItemsType ==
  ASSUME IInv
  PROVE  /\ Items \in Seq(Data)
         /\ Len(Items) = Len(chain)
         /\ (Items = <<>>) <=> (chain = <<>>)
<1>1. Len(chain) \in Nat /\ \A i \in 1..Len(chain) : data[chain[i]] \in Data
  BY DEF IInv, TypeOK, DataInv
<1>2. Items \in Seq(Data) /\ Len(Items) = Len(chain)
  BY <1>1 DEF Items
<1>3. (chain = <<>>) <=> (Len(chain) = 0)
  BY DEF IInv, TypeOK
<1> QED
  BY <1>2, <1>3

\* Unlinking the first node is dequeuing the first item.
LEMMA ItemsTail ==
  ASSUME IInv, chain # <<>>, chain' = Tail(chain), data' = data
  PROVE  Items' = Tail(Items) /\ Items[1] = data[chain[1]]
<1>1. /\ Len(chain) \in Nat \ {0}
      /\ Len(chain') = Len(chain) - 1
      /\ \A i \in 1..(Len(chain) - 1) : chain'[i] = chain[i + 1]
  BY TailFacts DEF IInv, TypeOK
<1>2. Items \in Seq(Data) /\ Len(Items) = Len(chain)
  BY ItemsType
<1>3. /\ Tail(Items) \in Seq(Data)
      /\ Len(Tail(Items)) = Len(chain) - 1
      /\ \A i \in 1..(Len(chain) - 1) : Tail(Items)[i] = Items[i + 1]
  BY <1>2, ItemsType, HeadTailProperties
<1>4. Items' = [i \in 1..(Len(chain) - 1) |-> data[chain[i + 1]]]
  BY <1>1 DEF Items
<1>5. \A i \in 1..(Len(chain) - 1) : Items[i + 1] = data[chain[i + 1]]
  BY <1>1 DEF Items
<1>6. \A i \in 1..(Len(chain) - 1) : data[chain[i + 1]] \in Data
  BY <1>1 DEF IInv, DataInv
<1>7. Items' \in Seq(Data) /\ Len(Items') = Len(chain) - 1
  BY <1>1, <1>4, <1>6
<1>8. Items' = Tail(Items)
  BY <1>3, <1>4, <1>5, <1>7, SeqEqual
<1> QED
  BY <1>1, <1>8 DEF Items

\* Linking a node at the end is enqueuing its datum.
LEMMA ItemsAppend ==
  ASSUME IInv, NEW n \in Nodes, data[n] \in Data,
         chain' = Append(chain, n), data' = data
  PROVE  Items' = Append(Items, data[n])
<1>1. /\ Len(chain) \in Nat
      /\ Len(chain') = Len(chain) + 1
      /\ \A i \in 1..Len(chain) : chain'[i] = chain[i]
      /\ chain'[Len(chain) + 1] = n
  BY AppendFacts DEF IInv, TypeOK
<1>2. Items \in Seq(Data) /\ Len(Items) = Len(chain)
  BY ItemsType
<1>3. Append(Items, data[n]) = [i \in 1..(Len(chain) + 1) |->
                                  IF i = Len(chain) + 1 THEN data[n] ELSE Items[i]]
  BY <1>1, <1>2
<1>4. Items' = [i \in 1..(Len(chain) + 1) |->
                   IF i = Len(chain) + 1 THEN data[n] ELSE Items[i]]
  BY <1>1 DEF Items
<1> QED
  BY <1>3, <1>4

\* A node that is not linked may be filled without changing the items.
LEMMA ItemsSame ==
  ASSUME chain' = chain,
         \A i \in 1..Len(chain) : data'[chain[i]] = data[chain[i]]
  PROVE  Items' = Items
  BY DEF Items

LEMMA FifoStep == IInv /\ [Next]_vars => [Fifo!Next]_(Fifo!absVars)
<1> SUFFICES ASSUME IInv, [Next]_vars
             PROVE  [Fifo!Next]_(Fifo!absVars)
  OBVIOUS
<1>1. ASSUME NEW p \in Producers, NEW d \in Data, PushAlloc(p, d)
      PROVE  [Fifo!Next]_(Fifo!absVars)
  <2>1. UNCHANGED <<chain, shutdown, result>>
    BY <1>1 DEF PushAlloc
  <2>2. PICK n \in Fresh : data' = [data EXCEPT ![n] = d]
    BY <1>1 DEF PushAlloc
  <2>3. \A i \in 1..Len(chain) : chain[i] \in allocated
    BY DEF IInv, HeapInv, OwnedOnce, Linked
  <2>4. \A i \in 1..Len(chain) : data'[chain[i]] = data[chain[i]]
    BY <2>2, <2>3 DEF Fresh, IInv, TypeOK
  <2> QED
    BY <2>1, <2>4, ItemsSame DEF Fifo!absVars, Items
<1>2. ASSUME NEW p \in Producers, PushLock(p)
      PROVE  [Fifo!Next]_(Fifo!absVars)
  <2>1. UNCHANGED <<chain, data, shutdown, result>>
    BY <1>2 DEF PushLock, list, locals
  <2> QED
    BY <2>1 DEF Fifo!absVars, Items
<1>3. ASSUME NEW p \in Producers, PushLink(p)
      PROVE  [Fifo!Next]_(Fifo!absVars)
  <2>1. Items' = Append(Items, data[new_node[p]]) /\ data[new_node[p]] \in Data
    BY <1>3, NewNode, ItemsAppend DEF PushLink
  <2>2. UNCHANGED <<shutdown, result>>
    BY <1>3 DEF PushLink, locals
  <2>3. Fifo!Enqueue
    BY <2>1, <2>2 DEF Fifo!Enqueue, Items
  <2> QED
    BY <2>3 DEF Fifo!Next
<1>4. ASSUME NEW p \in Producers, PushSignal(p)
      PROVE  [Fifo!Next]_(Fifo!absVars)
  <2>1. UNCHANGED <<chain, data, shutdown, result>>
    BY <1>4 DEF PushSignal, list, locals
  <2> QED
    BY <2>1 DEF Fifo!absVars, Items
<1>5. ASSUME NEW p \in Producers, PushUnlock(p)
      PROVE  [Fifo!Next]_(Fifo!absVars)
  <2>1. UNCHANGED <<chain, data, shutdown, result>>
    BY <1>5 DEF PushUnlock, list, locals
  <2> QED
    BY <2>1 DEF Fifo!absVars, Items
<1>6. ASSUME NEW p \in Producers, Stop(p)
      PROVE  [Fifo!Next]_(Fifo!absVars)
  <2>1. UNCHANGED <<chain, data, shutdown, result>>
    BY <1>6 DEF Stop, list, locals
  <2> QED
    BY <2>1 DEF Fifo!absVars, Items
<1>7. ASSUME NEW c \in Consumers, PopCall(c)
      PROVE  [Fifo!Next]_(Fifo!absVars)
  <2>1. result[c] \in Data \cup {NULL}
    BY <1>7 DEF PopCall, IInv, ResultInv
  <2>2. UNCHANGED <<Items, shutdown>>
    BY <1>7 DEF PopCall, list, Items
  <2>3. CASE result[c] \in Data
    BY <1>7, <2>2, <2>3 DEF PopCall, Fifo!Next, Fifo!Ask, Items
  <2>4. CASE result[c] = NULL
    <3>1. result' = result
      BY <1>7, <2>4 DEF PopCall, IInv, TypeOK
    <3> QED
      BY <2>2, <3>1 DEF Fifo!absVars, Items
  <2> QED
    BY <2>1, <2>3, <2>4
<1>8. ASSUME NEW c \in Consumers, PopLock(c)
      PROVE  [Fifo!Next]_(Fifo!absVars)
  <2>1. UNCHANGED <<chain, data, shutdown, result>>
    BY <1>8 DEF PopLock, list, locals
  <2> QED
    BY <2>1 DEF Fifo!absVars, Items
<1>9. ASSUME NEW c \in Consumers, PopWait(c)
      PROVE  [Fifo!Next]_(Fifo!absVars)
  <2>1. UNCHANGED <<chain, data, shutdown, result>>
    BY <1>9 DEF PopWait, list, locals
  <2> QED
    BY <2>1 DEF Fifo!absVars, Items
<1>10. ASSUME NEW c \in Consumers, SpuriousWake(c)
      PROVE  [Fifo!Next]_(Fifo!absVars)
  <2>1. UNCHANGED <<chain, data, shutdown, result>>
    BY <1>10 DEF SpuriousWake, list, locals
  <2> QED
    BY <2>1 DEF Fifo!absVars, Items
<1>11. ASSUME NEW c \in Consumers, PopReacquire(c)
      PROVE  [Fifo!Next]_(Fifo!absVars)
  <2>1. UNCHANGED <<chain, data, shutdown, result>>
    BY <1>11 DEF PopReacquire, list, locals
  <2> QED
    BY <2>1 DEF Fifo!absVars, Items
<1>12. ASSUME NEW c \in Consumers, PopRefuse(c)
      PROVE  [Fifo!Next]_(Fifo!absVars)
  <2>1. chain = <<>> /\ shutdown
    <3>1. pc[c] = "test" /\ head = NULL /\ shutdown
      BY <1>12 DEF PopRefuse, MustRefuse
    <3>2. head = ChainHead
      BY <3>1, AtWork
    <3>3. chain # <<>> => chain[1] \in Nodes
      BY TailFacts DEF IInv, TypeOK
    <3> QED
      BY <3>1, <3>2, <3>3 DEF ChainHead
  <2>2. Items = <<>>
    BY <2>1, ItemsType
  <2>3. result[c] = NULL
    BY <1>12 DEF PopRefuse, IInv, ResultInv
  <2>4. UNCHANGED <<Items, shutdown>>
    BY <1>12 DEF PopRefuse, list, Items
  <2>5. Fifo!Refuse(c)
    BY <1>12, <2>1, <2>2, <2>3, <2>4 DEF PopRefuse, Fifo!Refuse, Items
  <2> QED
    BY <2>5 DEF Fifo!Next
<1>13. ASSUME NEW c \in Consumers, PopTake(c)
      PROVE  [Fifo!Next]_(Fifo!absVars)
  <2>1. /\ chain # <<>> /\ head = chain[1]
        /\ chain' = Tail(chain) /\ data' = data
    BY <1>13, HeadTaken DEF PopTake
  <2>2. Items' = Tail(Items) /\ Items # <<>> /\ Head(Items) = data[head]
    BY <2>1, ItemsTail, ItemsType
  <2>3. result[c] = NULL
    BY <1>13 DEF PopTake, IInv, ResultInv
  <2>4. Fifo!Dequeue(c)
    BY <1>13, <2>2, <2>3 DEF PopTake, OutData, Fifo!Dequeue, Items
  <2> QED
    BY <2>4 DEF Fifo!Next
<1>14. ASSUME NEW c \in Consumers, PopFree(c)
      PROVE  [Fifo!Next]_(Fifo!absVars)
  <2>1. UNCHANGED <<chain, data, shutdown, result>>
    BY <1>14 DEF PopFree, list, locals
  <2> QED
    BY <2>1 DEF Fifo!absVars, Items
<1>15. ASSUME NEW c \in Consumers, PopUnlock(c)
      PROVE  [Fifo!Next]_(Fifo!absVars)
  <2>1. UNCHANGED <<chain, data, shutdown, result>>
    BY <1>15 DEF PopUnlock, list, locals
  <2> QED
    BY <2>1 DEF Fifo!absVars, Items
<1>16. CASE Close
  <2>1. UNCHANGED <<Items, result>> /\ shutdown' = TRUE
    BY <1>16 DEF Close, list, locals, Items
  <2> QED
    BY <2>1 DEF Fifo!Next, Fifo!Close, Items
<1>17. CASE DestroyCall
  <2>1. UNCHANGED <<chain, data, shutdown, result>>
    BY <1>17 DEF DestroyCall, list, locals
  <2> QED
    BY <2>1 DEF Fifo!absVars, Items
<1>18. CASE DestroyLock
  <2>1. UNCHANGED <<chain, data, shutdown, result>>
    BY <1>18 DEF DestroyLock, list, locals
  <2> QED
    BY <2>1 DEF Fifo!absVars, Items
<1>19. CASE DestroyFree
  <2>1. chain # <<>> /\ chain' = Tail(chain) /\ data' = data
    BY <1>19, CurrFreed DEF DestroyFree
  <2>2. Items' = Tail(Items) /\ Items # <<>>
    BY <2>1, ItemsTail, ItemsType
  <2>3. \A c \in Consumers : result[c] = Refused
    BY <1>19 DEF DestroyFree, IInv, JoinInv, ResultInv
  <2>4. UNCHANGED <<shutdown, result>>
    BY <1>19 DEF DestroyFree
  <2> QED
    BY <2>2, <2>3, <2>4 DEF Fifo!Next, Fifo!Discard, Items
<1>20. CASE DestroyEnd
  <2>1. UNCHANGED <<chain, data, shutdown, result>>
    BY <1>20 DEF DestroyEnd, list, locals
  <2> QED
    BY <2>1 DEF Fifo!absVars, Items
<1>21. CASE DestroyUnlock
  <2>1. UNCHANGED <<chain, data, shutdown, result>>
    BY <1>21 DEF DestroyUnlock, list, locals
  <2> QED
    BY <2>1 DEF Fifo!absVars, Items
<1>22. CASE UNCHANGED vars
  BY <1>22 DEF vars, Fifo!absVars, Items
<1> QED
  BY <1>1, <1>2, <1>3, <1>4, <1>5, <1>6, <1>7, <1>8, <1>9, <1>10, <1>11, <1>12,
     <1>13, <1>14, <1>15, <1>16, <1>17, <1>18, <1>19, <1>20, <1>21, <1>22
  DEF Next, Push, Pop, Destroy, Finished

\* The list under its lock is a FIFO queue.
THEOREM Refinement == Spec => ImplementsFifo
<1>1. Init => Fifo!Init
  <2> SUFFICES ASSUME Init PROVE Fifo!Init
    OBVIOUS
  <2>1. Items = <<>>
    BY DEF Init, Items
  <2> QED
    BY <2>1 DEF Init, Fifo!Init, Items
<1> QED
  BY <1>1, FifoStep, Invariance, PTL DEF Spec, ImplementsFifo, Fifo!Spec
=============================================================================
