------------------------------ MODULE BmQueue ------------------------------
(***************************************************************************)
(* bm_queue.c: a linked list of heap nodes shared by threads under one     *)
(* mutex and one condition variable.                                       *)
(*                                                                         *)
(* queue_push, queue_pop and queue_destroy are split where another thread  *)
(* can run: at the mutex, at the condition variable and around malloc and  *)
(* free.  What a thread does between two of these points while it holds    *)
(* the mutex is one action.  Setting q->shutdown is left to the user of    *)
(* the library (no function of src/ does it): Close is that user.          *)
(***************************************************************************)
EXTENDS Naturals, Sequences, FiniteSets

CONSTANTS Producers,    \* threads that call queue_push
          Consumers,    \* threads that call queue_pop until it returns false
          Owner,        \* the thread that calls queue_destroy
          Nodes,        \* the addresses malloc can return (bounds the heap)
          Data,         \* the void* that are queued
          NULL,         \* the null pointer, and "no owner" of the mutex
          Refused,      \* "queue_pop returned false"
          CloserWakes   \* does the closer broadcast q->cond?

Workers == Producers \cup Consumers
Threads == Workers \cup {Owner}

ASSUME ThreadsAssumption ==
    /\ Producers \cap Consumers = {}
    /\ Owner \notin Workers
    /\ IsFiniteSet(Workers)

ASSUME ValuesAssumption ==
    /\ NULL \notin Nodes \cup Threads \cup Data
    /\ Refused \notin Data \cup {NULL}
    /\ CloserWakes \in BOOLEAN

VARIABLES
    head, tail,     \* q->head, q->tail
    data, next,     \* the fields of every node
    allocated,      \* nodes between malloc and free
    shutdown,       \* q->shutdown
    mutex,          \* owner of q->mutex, or NULL
    pc,             \* where each thread is
    new_node,       \* local of queue_push, per producer
    temp,           \* local of queue_pop, per consumer
    result,         \* *out_data and the return value of the last queue_pop
    curr,           \* local of queue_destroy
    chain           \* auxiliary: the linked nodes, oldest first

locals == <<new_node, temp, result, curr>>
list   == <<head, tail, data, next, chain>>
vars   == <<head, tail, data, next, allocated, shutdown, mutex, pc,
            new_node, temp, result, curr, chain>>

ProducerPc == {"idle", "lock", "link", "signal", "unlock", "stopped"}
ConsumerPc == {"idle", "lock", "test", "wait", "woken", "free", "unlock",
               "unlockRefused", "closed"}
OwnerPc    == {"running", "lock", "free", "unlock", "destroyed"}

\* The places where a thread holds the mutex.
Critical(t) ==
    IF t = Owner THEN {"free", "unlock"}
    ELSE {"link", "signal", "unlock", "test", "free", "unlockRefused"}

Waiting == {c \in Consumers : pc[c] = "wait"}   \* the wait set of q->cond
Fresh   == Nodes \ allocated                    \* what malloc may return

Goto(t, label) == pc' = [pc EXCEPT ![t] = label]

Acquire(t, from, to) ==
    /\ pc[t] = from
    /\ mutex = NULL
    /\ mutex' = t
    /\ Goto(t, to)

Leave(t, from, to) ==
    /\ pc[t] = from
    /\ mutex' = NULL
    /\ Goto(t, to)

-----------------------------------------------------------------------------
\* Slips a change to this code could make.  No action uses them: each is a
\* wrong form of one of the decisions below, and shows which property of this
\* module notices it.

SignalledIfWasEmpty(W) ==         \* signals only the first item of a burst
    IF Waiting = {} \/ Len(chain) # 1
    THEN W = {} ELSE \E w \in Waiting : W = {w}
SignalledNever(W)   == W = {}     \* no pthread_cond_signal
MustWaitUnlessData  == head = NULL          \* the while ignores shutdown
MustRefuseOnFlag    == shutdown             \* shutdown drops what is queued
OutDataNode(n)      == n                    \* hands out the node, not its data
TailKept            == tail                 \* tail dangles after the last pop
FreeForgotten(n)    == allocated' = allocated

-----------------------------------------------------------------------------
\* The decisions of the code that the actions below are built from.

\* if (q->tail == NULL): the node becomes head and tail, else it goes last.
LinksAsHead == tail = NULL

\* pthread_cond_signal wakes one of the waiters, if there is one.
Signalled(W) ==
    IF Waiting = {} THEN W = {} ELSE \E w \in Waiting : W = {w}

MustWait   == head = NULL /\ ~shutdown     \* the while of queue_pop
MustRefuse == shutdown /\ head = NULL      \* the if after it

OutData(n) == data[n]

\* if (q->head == NULL) q->tail = NULL
TailAfterTake == IF next[head] = NULL THEN NULL ELSE tail

Free(n) == allocated' = allocated \ {n}

-----------------------------------------------------------------------------
Init ==                                                    \* queue_init
    /\ head = NULL
    /\ tail = NULL
    /\ data = [n \in Nodes |-> NULL]
    /\ next = [n \in Nodes |-> NULL]
    /\ allocated = {}
    /\ shutdown = FALSE
    /\ mutex = NULL
    /\ pc = [t \in Threads |-> IF t = Owner THEN "running" ELSE "idle"]
    /\ new_node = [p \in Producers |-> NULL]
    /\ temp = [c \in Consumers |-> NULL]
    /\ result = [c \in Consumers |-> NULL]
    /\ curr = NULL
    /\ chain = <<>>

-----------------------------------------------------------------------------
(* queue_push *)

PushAlloc(p, d) ==
    /\ pc[p] = "idle"
    /\ \E n \in Fresh :
          /\ allocated' = allocated \cup {n}
          /\ data' = [data EXCEPT ![n] = d]
          /\ next' = [next EXCEPT ![n] = NULL]
          /\ new_node' = [new_node EXCEPT ![p] = n]
    /\ Goto(p, "lock")
    /\ UNCHANGED <<head, tail, chain, shutdown, mutex, temp, result, curr>>

PushLock(p) ==
    /\ Acquire(p, "lock", "link")
    /\ UNCHANGED <<list, locals, allocated, shutdown>>

PushLink(p) ==
    /\ pc[p] = "link"
    /\ IF LinksAsHead
       THEN head' = new_node[p] /\ next' = next
       ELSE head' = head /\ next' = [next EXCEPT ![tail] = new_node[p]]
    /\ tail' = new_node[p]
    /\ chain' = Append(chain, new_node[p])
    /\ Goto(p, "signal")
    /\ UNCHANGED <<data, locals, allocated, shutdown, mutex>>

PushSignal(p) ==
    /\ pc[p] = "signal"
    /\ \E W \in SUBSET Waiting :
          /\ Signalled(W)
          /\ pc' = [t \in Threads |-> IF t = p THEN "unlock"
                                      ELSE IF t \in W THEN "woken" ELSE pc[t]]
    /\ UNCHANGED <<list, locals, allocated, shutdown, mutex>>

PushUnlock(p) ==
    /\ Leave(p, "unlock", "idle")
    /\ UNCHANGED <<list, locals, allocated, shutdown>>

-----------------------------------------------------------------------------
(* queue_pop *)

PopCall(c) ==
    /\ pc[c] = "idle"
    /\ result' = [result EXCEPT ![c] = NULL]
    /\ Goto(c, "lock")
    /\ UNCHANGED <<list, allocated, shutdown, mutex, new_node, temp, curr>>

PopLock(c) ==
    /\ Acquire(c, "lock", "test")
    /\ UNCHANGED <<list, locals, allocated, shutdown>>

\* pthread_cond_wait releases the mutex and joins the wait set in one step.
PopWait(c) ==
    /\ MustWait
    /\ Leave(c, "test", "wait")
    /\ UNCHANGED <<list, locals, allocated, shutdown>>

\* pthread_cond_wait may return without a signal.
SpuriousWake(c) ==
    /\ pc[c] = "wait"
    /\ Goto(c, "woken")
    /\ UNCHANGED <<list, locals, allocated, shutdown, mutex>>

\* A woken thread takes the mutex back, then evaluates the while again.
PopReacquire(c) ==
    /\ Acquire(c, "woken", "test")
    /\ UNCHANGED <<list, locals, allocated, shutdown>>

PopRefuse(c) ==
    /\ pc[c] = "test"
    /\ ~MustWait
    /\ MustRefuse
    /\ result' = [result EXCEPT ![c] = Refused]
    /\ Goto(c, "unlockRefused")
    /\ UNCHANGED <<list, allocated, shutdown, mutex, new_node, temp, curr>>

PopTake(c) ==
    /\ pc[c] = "test"
    /\ ~MustWait
    /\ ~MustRefuse
    /\ temp' = [temp EXCEPT ![c] = head]
    /\ result' = [result EXCEPT ![c] = OutData(head)]
    /\ head' = next[head]
    /\ tail' = TailAfterTake
    /\ chain' = Tail(chain)
    /\ Goto(c, "free")
    /\ UNCHANGED <<data, next, allocated, shutdown, mutex, new_node, curr>>

PopFree(c) ==
    /\ pc[c] = "free"
    /\ Free(temp[c])
    /\ Goto(c, "unlock")
    /\ UNCHANGED <<list, locals, shutdown, mutex>>

PopUnlock(c) ==
    /\ \/ Leave(c, "unlock", "idle")
       \/ Leave(c, "unlockRefused", "closed")
    /\ UNCHANGED <<list, locals, allocated, shutdown>>

-----------------------------------------------------------------------------
(* the user of the library *)

Stop(p) ==
    /\ pc[p] = "idle"
    /\ Goto(p, "stopped")
    /\ UNCHANGED <<list, locals, allocated, shutdown, mutex>>

\* Sets the flag under the mutex; wakes every waiter if it also broadcasts.
Close ==
    /\ mutex = NULL
    /\ ~shutdown
    /\ shutdown' = TRUE
    /\ pc' = [t \in Threads |->
                 IF CloserWakes /\ t \in Waiting THEN "woken" ELSE pc[t]]
    /\ UNCHANGED <<list, locals, allocated, mutex>>

-----------------------------------------------------------------------------
(* queue_destroy, by the thread that has joined all the others *)

DestroyCall ==
    /\ pc[Owner] = "running"
    /\ \A p \in Producers : pc[p] = "stopped"
    /\ \A c \in Consumers : pc[c] = "closed"
    /\ Goto(Owner, "lock")
    /\ UNCHANGED <<list, locals, allocated, shutdown, mutex>>

DestroyLock ==
    /\ Acquire(Owner, "lock", "free")
    /\ curr' = head
    /\ UNCHANGED <<list, allocated, shutdown, new_node, temp, result>>

DestroyFree ==
    /\ pc[Owner] = "free"
    /\ curr # NULL
    /\ Free(curr)
    /\ curr' = next[curr]
    /\ chain' = Tail(chain)
    /\ UNCHANGED <<head, tail, data, next, shutdown, mutex, pc,
                   new_node, temp, result>>

DestroyEnd ==
    /\ pc[Owner] = "free"
    /\ curr = NULL
    /\ Goto(Owner, "unlock")
    /\ UNCHANGED <<list, locals, allocated, shutdown, mutex>>

DestroyUnlock ==
    /\ Leave(Owner, "unlock", "destroyed")
    /\ UNCHANGED <<list, locals, allocated, shutdown>>

\* The queue is gone and nobody uses it again.
Finished ==
    /\ pc[Owner] = "destroyed"
    /\ UNCHANGED vars

-----------------------------------------------------------------------------
Push(p) ==
    \/ PushLock(p)
    \/ PushLink(p)
    \/ PushSignal(p)
    \/ PushUnlock(p)

Pop(c) ==
    \/ PopCall(c)
    \/ PopLock(c)
    \/ PopWait(c)
    \/ PopReacquire(c)
    \/ PopRefuse(c)
    \/ PopTake(c)
    \/ PopFree(c)
    \/ PopUnlock(c)

Destroy ==
    \/ DestroyCall
    \/ DestroyLock
    \/ DestroyFree
    \/ DestroyEnd
    \/ DestroyUnlock

Next ==
    \/ \E p \in Producers : Push(p) \/ Stop(p) \/ \E d \in Data : PushAlloc(p, d)
    \/ \E c \in Consumers : Pop(c) \/ SpuriousWake(c)
    \/ Close
    \/ Destroy
    \/ Finished

Spec == Init /\ [][Next]_vars

\* A started call keeps running and a consumer keeps calling queue_pop; a
\* mutex that is released again and again is eventually won by each thread
\* that wants it.  Nothing obliges a producer to push, a producer to stop,
\* the user to close, or a waiter to wake without a signal.
Fairness ==
    /\ \A p \in Producers : WF_vars(Push(p)) /\ SF_vars(PushLock(p))
    /\ \A c \in Consumers :
          /\ WF_vars(Pop(c))
          /\ SF_vars(PopLock(c))
          /\ SF_vars(PopReacquire(c))
    /\ WF_vars(Destroy)

FairSpec == Spec /\ Fairness

-----------------------------------------------------------------------------
(* Properties *)

\* Every variable has its type; a popped value is what a producer queued,
\* not the node that carried it.
TypeOK ==
    /\ head \in Nodes \cup {NULL}
    /\ tail \in Nodes \cup {NULL}
    /\ data \in [Nodes -> Data \cup {NULL}]
    /\ next \in [Nodes -> Nodes \cup {NULL}]
    /\ allocated \in SUBSET Nodes
    /\ shutdown \in BOOLEAN
    /\ mutex \in Threads \cup {NULL}
    /\ pc \in [Threads -> ProducerPc \cup ConsumerPc \cup OwnerPc]
    /\ \A p \in Producers : pc[p] \in ProducerPc
    /\ \A c \in Consumers : pc[c] \in ConsumerPc
    /\ pc[Owner] \in OwnerPc
    /\ new_node \in [Producers -> Nodes \cup {NULL}]
    /\ temp \in [Consumers -> Nodes \cup {NULL}]
    /\ result \in [Consumers -> Data \cup {Refused, NULL}]
    /\ curr \in Nodes \cup {NULL}
    /\ chain \in Seq(Nodes)

\* The node the rest of the list hangs on: q->head, or while queue_destroy
\* walks the list its local curr.
First == IF pc[Owner] \in {"free", "unlock", "destroyed"} THEN curr ELSE head

ChainHead == IF chain = <<>> THEN NULL ELSE chain[1]
ChainLast == IF chain = <<>> THEN NULL ELSE chain[Len(chain)]

\* The pointers are the queue: from the head, next runs through the linked
\* nodes in the order they were pushed, once each, and ends in NULL; tail is
\* the last of them and NULL exactly when head is.  It holds between any two
\* steps, of whatever thread, also half way through queue_destroy (where
\* head and tail are left dangling).
ListInv ==
    /\ First = ChainHead
    /\ pc[Owner] \in {"running", "lock"} => tail = ChainLast
    /\ \A i \in 1..Len(chain) :
          next[chain[i]] = IF i = Len(chain) THEN NULL ELSE chain[i + 1]
    /\ \A i, j \in 1..Len(chain) : chain[i] = chain[j] => i = j

Linked   == {chain[i] : i \in 1..Len(chain)}
Unlinked == {p \in Producers : pc[p] \in {"lock", "link"}}  \* hold a new node
Taking   == {c \in Consumers : pc[c] = "free"}             \* hold an old node

\* No node leaks, is freed twice or is used after free: a node is allocated
\* exactly while one owner answers for it, which is a producer that has not
\* linked it yet, the list, or the consumer that has unlinked it.  When
\* queue_destroy is over nothing is left, also of the data that producers
\* pushed after the last consumer was refused.
OwnedOnce ==
    /\ allocated = Linked \cup {new_node[p] : p \in Unlinked}
                          \cup {temp[c] : c \in Taking}
    /\ \A p \in Unlinked : new_node[p] \in Nodes \ Linked
    /\ \A c \in Taking : temp[c] \in Nodes \ Linked
    /\ \A p, q \in Unlinked : new_node[p] = new_node[q] => p = q
    /\ \A p \in Unlinked, c \in Taking : new_node[p] # temp[c]

HeapInv ==
    /\ OwnedOnce
    /\ pc[Owner] = "destroyed" => allocated = {}

\* Threads that have the queue's items in hand: consumers that are up and will
\* test the queue, producers that are about to signal.
Attentive == {t \in Workers : pc[t] \in {"woken", "test", "signal"}}

\* No signal is lost: while some consumer sleeps, there are no more items in
\* the queue than threads that will still see to them.  One
\* pthread_cond_signal per push is therefore enough, although a consumer that
\* was running anyway may take the item a sleeper was woken for.
NoLostWakeup == Waiting # {} => Len(chain) <= Cardinality(Attentive)

\* The list under its lock is a FIFO queue: data come out once each and in the
\* order the pushes linked them, a pop is refused only when the queue is closed
\* and drained, and what is left at the end is discarded after that.
Fifo == INSTANCE FifoQueue
            WITH items   <- [i \in 1..Len(chain) |-> data[chain[i]]],
                 closed  <- shutdown,
                 Nothing <- NULL

ImplementsFifo == Fifo!Spec

\* What is in the queue when the flag is still down reaches a consumer: the
\* consumers are refused only after they have drained it.
EveryItemDelivered ==
    \A n \in Nodes :
        (n \in Linked /\ ~shutdown) ~> (\E c \in Consumers : temp[c] = n /\ pc[c] = "free")

\* Closing the queue ends the consumers: once the flag is up and the producers
\* have stopped, every consumer, those asleep on the condition variable too,
\* is refused and leaves.
CloseReleasesAll ==
    (shutdown /\ \A p \in Producers : pc[p] = "stopped")
        ~> (\A c \in Consumers : pc[c] = "closed")
=============================================================================
