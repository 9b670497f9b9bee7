------------------------- MODULE BmConnectionProofs -------------------------
(***************************************************************************)
(* Proofs about BmConnection, for any number of descriptors and records.   *)
(***************************************************************************)
EXTENDS BmConnection, FiniteSetTheorems, TLAPS

Todos == {<<>>, <<"read">>, <<"close", "free">>, <<"free">>}

\* The types, but for the count of buffers.
Types ==
    /\ kind \in [Fds -> Kinds \cup Others]
    /\ watched \in [Fds -> Records \cup {NULL}]
    /\ recs \in [Records -> FdData \cup {NULL}]
    /\ net \in [data : Records \cup {NULL}, todo : Todos]
    /\ epfd \in Fds \cup {NULL}
    /\ lost \in BOOLEAN
    /\ cnr \in [pc : {"idle", "opened", "sockname", "peername", "buffer", "refused",
                      "greet", "watch", "closeEpoll", "discard"},
               fd : Fds \cup {NULL}, data : Records \cup {NULL}]

\* The network thread works on a live fd_data, which epoll holds until the
\* thread has closed the descriptor.
NetInv ==
    /\ net.todo # <<>> => net.data \in Live
    /\ net.todo \in {<<"read">>, <<"close", "free">>}
          => watched[recs[net.data].fd] = net.data

\* The connector's descriptor is open and not yet epoll's; its fd_data, which it
\* has from malloc on, names that descriptor.
CnrInv ==
    /\ cnr.pc \in {"opened", "sockname", "peername", "buffer", "refused", "greet", "watch"} =>
          cnr.fd \in Fds /\ kind[cnr.fd] \in Kinds /\ watched[cnr.fd] = NULL
    /\ cnr.pc \in {"sockname", "peername", "buffer", "greet", "watch"} =>
          recs[cnr.data].fd = cnr.fd
    /\ cnr.pc \in {"buffer", "greet", "watch"} => kind[cnr.fd] = "connected"
    /\ cnr.pc \in {"sockname", "peername", "buffer", "greet", "watch", "closeEpoll", "discard"}
          <=> cnr.data # NULL
    /\ cnr.data # NULL => cnr.data \in Live

\* epfd is the number of the epoll descriptor until a failed greeting closes it,
\* and at no time that of a connection that is watched.
EpollInv ==
    /\ epfd # NULL => watched[epfd] = NULL
    /\ epfd # NULL /\ ~lost => kind[epfd] = "epoll"

IInv == Types /\ NetInv /\ CnrInv /\ EpollInv /\ OneOwner

USE SetsAssumption DEF FdData

LEMMA TodoFacts ==
  /\ Head(<<"close", "free">>) = "close" /\ Tail(<<"close", "free">>) = <<"free">>
  /\ Head(<<"free">>) = "free" /\ Tail(<<"free">>) = <<>>
  /\ Head(<<"read">>) = "read"
  /\ <<"close", "free">> # <<"free">> /\ <<"close", "free">> # <<"read">>
  /\ <<"read">> # <<"free">> /\ <<>> # <<"read">> /\ <<>> # <<"free">>
  /\ <<>> # <<"close", "free">>
  OBVIOUS

LEMMA InitIInv == Init => IInv
<1> SUFFICES ASSUME Init PROVE IInv
  OBVIOUS
<1>1. Types
  BY DEF Init, Types, Todos, Others
<1>2. NetInv /\ CnrInv /\ EpollInv
  BY DEF Init, NetInv, CnrInv, EpollInv
<1>3. OneOwner
  BY DEF Init, OneOwner, Live, Watched, Dropping, Building
<1> QED
  BY <1>1, <1>2, <1>3 DEF IInv

\* A failing exit of new_fd_data frees what only the connector holds.
LEMMA RefusalKeeps ==
    ASSUME IInv, cnr.data # NULL, FreeAndRefuse,
           UNCHANGED <<kind, watched, net, epfd, lost>>
    PROVE  Types' /\ NetInv' /\ OneOwner'
<1> USE DEF IInv
<1>1. cnr.data \in Records /\ Live' = Live \ {cnr.data}
  BY DEF Types, FreeAndRefuse, Live
<1>2. /\ cnr' \in [pc : {"idle", "opened", "sockname", "peername", "buffer", "refused",
                        "greet", "watch", "closeEpoll", "discard"},
                  fd : Fds \cup {NULL}, data : Records \cup {NULL}]
      /\ cnr'.data = NULL
  BY DEF Types, FreeAndRefuse
<1>3. Types'
  BY <1>1, <1>2 DEF Types, FreeAndRefuse
<1>4. Building = {cnr.data} /\ Building' = {} /\ Watched' = Watched /\ Dropping' = Dropping
  BY <1>2 DEF Building, Watched, Dropping
<1>5. cnr.data \notin Watched
  BY <1>4 DEF OneOwner
<1>6. \A f \in Fds : watched'[f] # NULL =>
          kind'[f] = "connected" /\ recs'[watched'[f]] # NULL /\ recs'[watched'[f]].fd = f
  BY <1>5 DEF OneOwner, Watched, FreeAndRefuse, Types
<1>7. OneOwner'
  BY <1>1, <1>4, <1>6 DEF OneOwner
<1>8. net.todo # <<>> => net.data # cnr.data
  BY <1>4, <1>5 DEF Types, Todos, NetInv, OneOwner, Live, Watched, Dropping
<1>9. NetInv'
  BY <1>1, <1>8 DEF NetInv, FreeAndRefuse, Types, Live, Todos
<1> QED
  BY <1>3, <1>7, <1>9

LEMMA TypesStep == IInv /\ [Next]_vars => Types'
<1> SUFFICES ASSUME IInv, [Next]_vars PROVE Types'
  OBVIOUS
<1> USE DEF IInv
<1>1. ASSUME NEW f \in Fds, NEW k \in Kinds, Open(f, k)
      PROVE  Types'
  BY <1>1 DEF Open, Types
<1>2. CASE NewFdData
  <2>1. [fd |-> cnr.fd, type |-> "CLIENT_SOCKET"] \in FdData
    BY <1>2 DEF NewFdData, CnrInv
  <2>2. recs' \in [Records -> FdData \cup {NULL}]
    BY <1>2, <2>1 DEF NewFdData, Types
  <2>3. cnr' \in [pc : {"idle", "opened", "sockname", "peername", "buffer", "refused",
                      "greet", "watch", "closeEpoll", "discard"},
                 fd : Fds \cup {NULL}, data : Records \cup {NULL}]
    BY <1>2 DEF NewFdData, Types
  <2> QED
    BY <1>2, <2>2, <2>3 DEF NewFdData, Types
<1>3. CASE NoRecord
  BY <1>3 DEF NoRecord, Types
<1>4. CASE GiveUp
  BY <1>4 DEF GiveUp, Types, Others, CnrInv, Close
<1>5. ASSUME NEW written \in BOOLEAN, PostVersion(written)
      PROVE  Types'
  BY <1>5 DEF PostVersion, Types, Others, CnrInv, Close
<1>6. CASE Watch
  BY <1>6 DEF Watch, Types, Others, CnrInv, Close
<1>7. CASE Discard
  BY <1>7 DEF Discard, Types, free_fd_data
<1>8. ASSUME NEW f \in Fds, Poll(f)
      PROVE  Types'
  BY <1>8 DEF Poll, Types, Todos
<1>9. ASSUME NEW written \in BOOLEAN, Handle(written)
      PROVE  Types'
  <2>1. process_command(Head(inbox[recs[net.data].fd]), written)
          \in {<<>>, <<"close", "free">>}
    BY DEF process_command, FailedVarack, FailedPong
  <2>2. net' = [net EXCEPT !.todo =
                  process_command(Head(inbox[recs[net.data].fd]), written)]
    BY <1>9 DEF Handle
  <2> QED
    BY <1>9, <2>1, <2>2 DEF Handle, Types, Todos
<1>10. CASE CloseData
  BY <1>10, TodoFacts DEF CloseData, Types, Others, Todos, Close
<1>11. CASE FreeData
  BY <1>11, TodoFacts DEF FreeData, Types, Todos, free_fd_data
<1>12. ASSUME NEW f \in Fds, PeerGone(f)
      PROVE  Types'
  BY <1>12 DEF PeerGone, Types, Todos
<1>13. ASSUME NEW f \in Fds, NEW command \in Commands, Receive(f, command)
      PROVE  Types'
  BY <1>13 DEF Receive, Types
<1>14. CASE UNCHANGED vars
  BY <1>14 DEF vars, Types
<1>15. ASSUME NEW f \in Fds, CreateEpoll(f)
      PROVE  Types'
  BY <1>15 DEF CreateEpoll, Types, Others
<1>16. ASSUME NEW ok \in BOOLEAN, GetSockName(ok)
      PROVE  Types'
  <2>1. CASE FreeAndRefuse
    BY <1>16, <2>1, RefusalKeeps DEF GetSockName, CnrInv
  <2>2. CASE cnr' = [cnr EXCEPT !.pc = "peername"] /\ UNCHANGED recs
    BY <1>16, <2>2 DEF GetSockName, Types
  <2> QED
    BY <1>16, <2>1, <2>2 DEF GetSockName
<1>17. ASSUME NEW ok \in BOOLEAN, GetPeerName(ok)
      PROVE  Types'
  <2>1. CASE FreeAndRefuse
    BY <1>17, <2>1, RefusalKeeps DEF GetPeerName, CnrInv
  <2>2. CASE cnr' = [cnr EXCEPT !.pc = "buffer"] /\ UNCHANGED recs
    BY <1>17, <2>2 DEF GetPeerName, Types
  <2> QED
    BY <1>17, <2>1, <2>2 DEF GetPeerName
<1>18. ASSUME NEW ok \in BOOLEAN, NewBuffer(ok)
      PROVE  Types'
  <2>1. CASE FreeAndRefuse
    BY <1>18, <2>1, RefusalKeeps DEF NewBuffer, CnrInv
  <2>2. CASE cnr' = [cnr EXCEPT !.pc = "greet"] /\ UNCHANGED recs
    BY <1>18, <2>2 DEF NewBuffer, Types
  <2> QED
    BY <1>18, <2>1, <2>2 DEF NewBuffer
<1>19. CASE CloseEpoll
  BY <1>19 DEF CloseEpoll, Close, Types, Others
<1>20. ASSUME NEW f \in Fds, OtherOpens(f)
      PROVE  Types'
  BY <1>20 DEF OtherOpens, Types, Others
<1> QED
  BY <1>1, <1>2, <1>3, <1>4, <1>5, <1>6, <1>7, <1>8, <1>9, <1>10, <1>11, <1>12,
     <1>13, <1>14, <1>15, <1>16, <1>17, <1>18, <1>19, <1>20
  DEF Next, Connector, Network

LEMMA NetStep == IInv /\ [Next]_vars => NetInv'
<1> SUFFICES ASSUME IInv, [Next]_vars PROVE NetInv'
  OBVIOUS
<1> USE DEF IInv
<1>1. ASSUME NEW f \in Fds, NEW k \in Kinds, Open(f, k)
      PROVE  NetInv'
  BY <1>1 DEF Open, NetInv, Live
<1>2. CASE NewFdData
  BY <1>2 DEF NewFdData, NetInv, Live
<1>3. CASE NoRecord
  BY <1>3 DEF NoRecord, NetInv, Live
<1>4. CASE GiveUp
  BY <1>4 DEF GiveUp, NetInv, CnrInv, Live, Close
<1>5. ASSUME NEW written \in BOOLEAN, PostVersion(written)
      PROVE  NetInv'
  BY <1>5 DEF PostVersion, Types, NetInv, CnrInv, Live, Close
<1>6. CASE Watch
  BY <1>6, TodoFacts DEF Watch, Types, NetInv, CnrInv, Live, Close
<1>7. CASE Discard
  BY <1>7
  DEF Discard, Types, Todos, NetInv, OneOwner, Live, free_fd_data, Dropping,
      Building, Watched
<1>8. ASSUME NEW f \in Fds, Poll(f)
      PROVE  NetInv'
  BY <1>8 DEF Poll, NetInv, OneOwner, Live, Watched
<1>9. ASSUME NEW written \in BOOLEAN, Handle(written)
      PROVE  NetInv'
  BY <1>9 DEF Handle, NetInv, Live
<1>10. CASE CloseData
  BY <1>10, TodoFacts DEF CloseData, Types, Todos, NetInv, CnrInv, Live
<1>11. CASE FreeData
  BY <1>11, TodoFacts DEF FreeData, Types, Todos, NetInv, CnrInv
<1>12. ASSUME NEW f \in Fds, PeerGone(f)
      PROVE  NetInv'
  BY <1>12 DEF PeerGone, NetInv, OneOwner, Live, Watched
<1>13. ASSUME NEW f \in Fds, NEW command \in Commands, Receive(f, command)
      PROVE  NetInv'
  BY <1>13 DEF Receive, NetInv, Live
<1>14. CASE UNCHANGED vars
  BY <1>14 DEF vars, NetInv, Live
<1>15. ASSUME NEW f \in Fds, CreateEpoll(f)
      PROVE  NetInv'
  BY <1>15 DEF CreateEpoll, Types, NetInv, CnrInv, Live, OneOwner, Building, Watched, Dropping, EpollInv
<1>16. ASSUME NEW ok \in BOOLEAN, GetSockName(ok)
      PROVE  NetInv'
  <2>1. CASE FreeAndRefuse
    BY <1>16, <2>1, RefusalKeeps DEF GetSockName, CnrInv
  <2>2. CASE cnr' = [cnr EXCEPT !.pc = "peername"] /\ UNCHANGED recs
    BY <1>16, <2>2 DEF GetSockName, NetInv, Live
  <2> QED
    BY <1>16, <2>1, <2>2 DEF GetSockName
<1>17. ASSUME NEW ok \in BOOLEAN, GetPeerName(ok)
      PROVE  NetInv'
  <2>1. CASE FreeAndRefuse
    BY <1>17, <2>1, RefusalKeeps DEF GetPeerName, CnrInv
  <2>2. CASE cnr' = [cnr EXCEPT !.pc = "buffer"] /\ UNCHANGED recs
    BY <1>17, <2>2 DEF GetPeerName, NetInv, Live
  <2> QED
    BY <1>17, <2>1, <2>2 DEF GetPeerName
<1>18. ASSUME NEW ok \in BOOLEAN, NewBuffer(ok)
      PROVE  NetInv'
  <2>1. CASE FreeAndRefuse
    BY <1>18, <2>1, RefusalKeeps DEF NewBuffer, CnrInv
  <2>2. CASE cnr' = [cnr EXCEPT !.pc = "greet"] /\ UNCHANGED recs
    BY <1>18, <2>2 DEF NewBuffer, NetInv, Live
  <2> QED
    BY <1>18, <2>1, <2>2 DEF NewBuffer
<1>19. CASE CloseEpoll
  BY <1>19 DEF CloseEpoll, Close, Types, NetInv, CnrInv, Live, OneOwner, Building, Watched, Dropping, EpollInv
<1>20. ASSUME NEW f \in Fds, OtherOpens(f)
      PROVE  NetInv'
  BY <1>20 DEF OtherOpens, Types, NetInv, CnrInv, Live, OneOwner, Building, Watched, Dropping
<1> QED
  BY <1>1, <1>2, <1>3, <1>4, <1>5, <1>6, <1>7, <1>8, <1>9, <1>10, <1>11, <1>12,
     <1>13, <1>14, <1>15, <1>16, <1>17, <1>18, <1>19, <1>20
  DEF Next, Connector, Network

LEMMA CnrStep == IInv /\ [Next]_vars => CnrInv'
<1> SUFFICES ASSUME IInv, [Next]_vars PROVE CnrInv'
  OBVIOUS
<1> USE DEF IInv
<1>1. ASSUME NEW f \in Fds, NEW k \in Kinds, Open(f, k)
      PROVE  CnrInv'
  BY <1>1 DEF Open, Types, CnrInv, OneOwner, Kinds
<1>2. CASE NewFdData
  BY <1>2 DEF NewFdData, Types, CnrInv, Live
<1>3. CASE NoRecord
  BY <1>3 DEF NoRecord, CnrInv
<1>4. CASE GiveUp
  BY <1>4 DEF GiveUp, CnrInv
<1>5. ASSUME NEW written \in BOOLEAN, PostVersion(written)
      PROVE  CnrInv'
  BY <1>5 DEF PostVersion, Types, CnrInv, Live
<1>6. CASE Watch
  BY <1>6 DEF Watch, Types, CnrInv, Live
<1>7. CASE Discard
  BY <1>7 DEF Discard, CnrInv
<1>8. ASSUME NEW f \in Fds, Poll(f)
      PROVE  CnrInv'
  BY <1>8 DEF Poll, CnrInv, Live
<1>9. ASSUME NEW written \in BOOLEAN, Handle(written)
      PROVE  CnrInv'
  BY <1>9 DEF Handle, CnrInv, Live
<1>10. CASE CloseData
  BY <1>10 DEF CloseData, Types, Todos, NetInv, CnrInv, Live, Close
<1>11. CASE FreeData
  BY <1>11
  DEF FreeData, Types, Todos, CnrInv, OneOwner, Live, free_fd_data, Dropping,
      Building
<1>12. ASSUME NEW f \in Fds, PeerGone(f)
      PROVE  CnrInv'
  BY <1>12 DEF PeerGone, CnrInv, Live
<1>13. ASSUME NEW f \in Fds, NEW command \in Commands, Receive(f, command)
      PROVE  CnrInv'
  BY <1>13 DEF Receive, CnrInv, Live
<1>14. CASE UNCHANGED vars
  BY <1>14 DEF vars, CnrInv, Live
<1>15. ASSUME NEW f \in Fds, CreateEpoll(f)
      PROVE  CnrInv'
  BY <1>15 DEF CreateEpoll, Types, NetInv, CnrInv, Live, Kinds
<1>16. ASSUME NEW ok \in BOOLEAN, GetSockName(ok)
      PROVE  CnrInv'
  BY <1>16 DEF GetSockName, FreeAndRefuse, Types, NetInv, CnrInv, Live, Kinds
<1>17. ASSUME NEW ok \in BOOLEAN, GetPeerName(ok)
      PROVE  CnrInv'
  BY <1>17 DEF GetPeerName, FreeAndRefuse, Types, NetInv, CnrInv, Live, Kinds
<1>18. ASSUME NEW ok \in BOOLEAN, NewBuffer(ok)
      PROVE  CnrInv'
  BY <1>18 DEF NewBuffer, FreeAndRefuse, Types, NetInv, CnrInv, Live, Kinds
<1>19. CASE CloseEpoll
  BY <1>19 DEF CloseEpoll, Close, Types, NetInv, CnrInv, Live, Kinds, EpollInv
<1>20. ASSUME NEW f \in Fds, OtherOpens(f)
      PROVE  CnrInv'
  BY <1>20 DEF OtherOpens, Types, NetInv, CnrInv, Live, Kinds
<1> QED
  BY <1>1, <1>2, <1>3, <1>4, <1>5, <1>6, <1>7, <1>8, <1>9, <1>10, <1>11, <1>12,
     <1>13, <1>14, <1>15, <1>16, <1>17, <1>18, <1>19, <1>20
  DEF Next, Connector, Network

LEMMA EpollStep == IInv /\ [Next]_vars => EpollInv'
<1> SUFFICES ASSUME IInv, [Next]_vars PROVE EpollInv'
  OBVIOUS
<1> USE DEF IInv
<1>1. ASSUME NEW f \in Fds, Close(f), kind[f] # "epoll", UNCHANGED <<epfd, lost>>
      PROVE  EpollInv'
  BY <1>1 DEF Close, EpollInv, Types
<1>2. ASSUME UNCHANGED <<kind, watched, epfd, lost>>
      PROVE  EpollInv'
  BY <1>2 DEF EpollInv
<1>3. ASSUME NEW f \in Fds, NEW k \in Kinds \cup {"other"}, kind[f] = "closed",
             kind' = [kind EXCEPT ![f] = k], UNCHANGED <<watched, epfd, lost>>
      PROVE  EpollInv'
  BY <1>3 DEF EpollInv, Types
<1>4. ASSUME NEW f \in Fds, CreateEpoll(f)
      PROVE  EpollInv'
  BY <1>4 DEF CreateEpoll, EpollInv, OneOwner, Types
<1>5. CASE CloseEpoll
  BY <1>5 DEF CloseEpoll, Close, EpollInv, Types
<1>6. CASE GiveUp
  BY <1>6, <1>1 DEF GiveUp, CnrInv, Kinds
<1>7. ASSUME NEW written \in BOOLEAN, PostVersion(written)
      PROVE  EpollInv'
  BY <1>7, <1>1, <1>2 DEF PostVersion, CnrInv
<1>8. CASE Watch
  BY <1>8, <1>1 DEF Watch, CnrInv, EpollInv, epollOpen, Types
<1>9. CASE CloseData
  <2>1. net.todo = <<"close", "free">> /\ net.data \in Live
    BY <1>9, TodoFacts DEF CloseData, Types, Todos
  <2>2. recs[net.data].fd \in Fds /\ watched[recs[net.data].fd] # NULL
    BY <2>1 DEF NetInv, Types, Live
  <2> QED
    BY <1>9, <2>2, <1>1 DEF CloseData, OneOwner
<1> QED
  BY <1>2, <1>3, <1>4, <1>5, <1>6, <1>7, <1>8, <1>9
  DEF Next, Connector, Network, Open, NewFdData, NoRecord, GetSockName, GetPeerName,
      NewBuffer, Discard, Poll, Handle, FreeData, PeerGone, OtherOpens, Receive, vars

LEMMA OwnerStep == IInv /\ [Next]_vars => OneOwner'
<1> SUFFICES ASSUME IInv, [Next]_vars PROVE OneOwner'
  OBVIOUS
<1> USE DEF IInv
<1>1. ASSUME NEW f \in Fds, NEW k \in Kinds, Open(f, k)
      PROVE  OneOwner'
  BY <1>1 DEF Open, OneOwner, Live, Dropping, Building, Watched
<1>2. CASE NewFdData
  BY <1>2 DEF NewFdData, Types, CnrInv, OneOwner, Live, Dropping, Building, Watched
<1>3. CASE NoRecord
  BY <1>3 DEF NoRecord, OneOwner, Live, Dropping, Building, Watched
<1>4. CASE GiveUp
  BY <1>4 DEF GiveUp, CnrInv, OneOwner, Live, Close, Dropping, Building, Watched
<1>5. ASSUME NEW written \in BOOLEAN, PostVersion(written)
      PROVE  OneOwner'
  BY <1>5
  DEF PostVersion, Types, CnrInv, OneOwner, Live, Close, Dropping, Building,
      Watched
<1>6. CASE Watch
  BY <1>6
  DEF Watch, Types, CnrInv, OneOwner, Live, Close, Dropping, Building, Watched
<1>7. CASE Discard
  BY <1>7
  DEF Discard, Types, OneOwner, Live, free_fd_data, Dropping, Building, Watched
<1>8. ASSUME NEW f \in Fds, Poll(f)
      PROVE  OneOwner'
  BY <1>8 DEF Poll, OneOwner, Live, Dropping, Building, Watched
<1>9. ASSUME NEW written \in BOOLEAN, Handle(written)
      PROVE  OneOwner'
  <2>1. process_command(Head(inbox[recs[net.data].fd]), written)
          \in {<<>>, <<"close", "free">>}
    BY DEF process_command, FailedVarack, FailedPong
  <2>2. net' = [net EXCEPT !.todo =
                  process_command(Head(inbox[recs[net.data].fd]), written)]
    BY <1>9 DEF Handle
  <2>3. Dropping = {} /\ Dropping' = {}
    BY <1>9, <2>1, <2>2, TodoFacts DEF Handle, Types, Dropping
  <2> QED
    BY <1>9, <2>3 DEF Handle, OneOwner, Watched, Building, Live
<1>10. CASE CloseData
  <2> DEFINE f == recs[net.data].fd
  <2>1. /\ net.todo = <<"close", "free">> /\ net.data \in Live
        /\ net'.todo = <<"free">> /\ net'.data = net.data
    BY <1>10, TodoFacts DEF CloseData, Types, Todos
  <2>2. f \in Fds /\ watched[f] = net.data /\ net.data # NULL
    BY <2>1, TodoFacts DEF NetInv, Types, Live
  <2>3. \A g \in Fds : watched[g] = net.data => g = f
    BY <2>2 DEF OneOwner
  <2>4. Watched' = Watched \ {net.data}
    BY <1>10, <2>2, <2>3 DEF CloseData, Close, Watched, Types
  <2>5. Dropping = {} /\ Dropping' = {net.data} /\ net.data \in Watched
    BY <2>1, <2>2, TodoFacts DEF Dropping, Watched
  <2>6. UNCHANGED <<recs, cnr>> /\ Live' = Live /\ Building' = Building
    BY <1>10 DEF CloseData, Live, Building
  <2>7. \A g \in Fds : watched'[g] # NULL =>
            kind'[g] = "connected" /\ recs'[watched'[g]] # NULL
              /\ recs'[watched'[g]].fd = g
    BY <1>10, <2>2, <2>6 DEF CloseData, Close, OneOwner, Types
  <2> QED
    BY <2>4, <2>5, <2>6, <2>7 DEF OneOwner
<1>11. CASE FreeData
  <2>1. net.todo = <<"free">> /\ net'.todo = <<>>
    BY <1>11, TodoFacts DEF FreeData, Types, Todos
  <2>2. Dropping = {net.data} /\ Dropping' = {}
    BY <2>1 DEF Dropping
  <2>3. Live' = Live \ {net.data}
    BY <1>11 DEF FreeData, free_fd_data, Live, Types
  <2>4. Watched' = Watched /\ Building' = Building
    BY <1>11 DEF FreeData, Watched, Building
  <2>5. \A g \in Fds : watched[g] # NULL => watched[g] # net.data
    BY <2>2 DEF OneOwner, Watched
  <2>6. \A g \in Fds : watched'[g] # NULL =>
            kind'[g] = "connected" /\ recs'[watched'[g]] # NULL
              /\ recs'[watched'[g]].fd = g
    BY <1>11, <2>5 DEF FreeData, free_fd_data, OneOwner, Types
  <2>7. Live' = Watched' \cup Dropping' \cup Building'
    BY <2>2, <2>3, <2>4 DEF OneOwner
  <2> QED
    BY <2>2, <2>4, <2>6, <2>7 DEF OneOwner
<1>12. ASSUME NEW f \in Fds, PeerGone(f)
      PROVE  OneOwner'
  BY <1>12 DEF PeerGone, OneOwner, Live, Dropping, Building, Watched
<1>13. ASSUME NEW f \in Fds, NEW command \in Commands, Receive(f, command)
      PROVE  OneOwner'
  BY <1>13 DEF Receive, OneOwner, Live, Dropping, Building, Watched
<1>14. CASE UNCHANGED vars
  BY <1>14 DEF vars, OneOwner, Live, Dropping, Building, Watched
<1>15. ASSUME NEW f \in Fds, CreateEpoll(f)
      PROVE  OneOwner'
  BY <1>15 DEF CreateEpoll, Types, CnrInv, OneOwner, Live, Building, Watched, Dropping
<1>16. ASSUME NEW ok \in BOOLEAN, GetSockName(ok)
      PROVE  OneOwner'
  <2>1. CASE FreeAndRefuse
    BY <1>16, <2>1, RefusalKeeps DEF GetSockName, CnrInv
  <2>2. CASE cnr' = [cnr EXCEPT !.pc = "peername"] /\ UNCHANGED recs
    BY <1>16, <2>2 DEF GetSockName, OneOwner, Live, Building, Watched, Dropping
  <2> QED
    BY <1>16, <2>1, <2>2 DEF GetSockName
<1>17. ASSUME NEW ok \in BOOLEAN, GetPeerName(ok)
      PROVE  OneOwner'
  <2>1. CASE FreeAndRefuse
    BY <1>17, <2>1, RefusalKeeps DEF GetPeerName, CnrInv
  <2>2. CASE cnr' = [cnr EXCEPT !.pc = "buffer"] /\ UNCHANGED recs
    BY <1>17, <2>2 DEF GetPeerName, OneOwner, Live, Building, Watched, Dropping
  <2> QED
    BY <1>17, <2>1, <2>2 DEF GetPeerName
<1>18. ASSUME NEW ok \in BOOLEAN, NewBuffer(ok)
      PROVE  OneOwner'
  <2>1. CASE FreeAndRefuse
    BY <1>18, <2>1, RefusalKeeps DEF NewBuffer, CnrInv
  <2>2. CASE cnr' = [cnr EXCEPT !.pc = "greet"] /\ UNCHANGED recs
    BY <1>18, <2>2 DEF NewBuffer, OneOwner, Live, Building, Watched, Dropping
  <2> QED
    BY <1>18, <2>1, <2>2 DEF NewBuffer
<1>19. CASE CloseEpoll
  BY <1>19 DEF CloseEpoll, Close, Types, CnrInv, OneOwner, Live, Building, Watched, Dropping, EpollInv
<1>20. ASSUME NEW f \in Fds, OtherOpens(f)
      PROVE  OneOwner'
  BY <1>20 DEF OtherOpens, Types, CnrInv, OneOwner, Live, Building, Watched, Dropping
<1> QED
  BY <1>1, <1>2, <1>3, <1>4, <1>5, <1>6, <1>7, <1>8, <1>9, <1>10, <1>11, <1>12,
     <1>13, <1>14, <1>15, <1>16, <1>17, <1>18, <1>19, <1>20
  DEF Next, Connector, Network

\* Every step of the connector and of the network thread keeps the ownership of
\* descriptors and fd_data.
THEOREM Invariance == Spec => []IInv
<1>1. IInv /\ [Next]_vars => IInv'
  BY TypesStep, NetStep, CnrStep, EpollStep, OwnerStep DEF IInv
<1> QED
  BY InitIInv, <1>1, PTL DEF Spec

\* No fd_data is forgotten, freed twice or held by two.
THEOREM OneOwnerCorrect == Spec => []OneOwner
  BY Invariance, PTL DEF IInv

\* process_command may free the fd_data behind its caller's back: the network
\* thread still never uses it afterwards.
THEOREM NoUseAfterFreeCorrect == Spec => []NoUseAfterFree
<1>1. IInv => NoUseAfterFree
  BY DEF IInv, NetInv, NoUseAfterFree
<1> QED
  BY <1>1, Invariance, PTL

\* Every close is of the closer's own descriptor, but for the epoll descriptor that
\* a second failed greeting closes once more; that never hits a watched connection.
THEOREM NoForeignCloseCorrect == Spec => []NoForeignClose
<1>1. IInv => NoForeignClose
  BY DEF IInv, Types, Todos, NetInv, CnrInv, EpollInv, NoForeignClose
<1> QED
  BY <1>1, Invariance, PTL

-----------------------------------------------------------------------------
\* The types that the ownership does not rest on, and the buffers: each live
\* fd_data was made with one, and none is ever given back twice.
OtherTypes ==
    /\ inbox \in [Fds -> Seq(Commands)]
    /\ opened \in Nat
    /\ received \in Nat

BuffersInv ==
    /\ buffers \in Nat
    /\ IsFiniteSet(Live)
    /\ buffers >= Cardinality(Live \ Filling)

LEMMA CloseKeepsInbox ==
    ASSUME NEW f \in Fds, inbox \in [Fds -> Seq(Commands)], Close(f)
    PROVE  inbox' \in [Fds -> Seq(Commands)]
<1>1. <<>> \in Seq(Commands)
  OBVIOUS
<1> QED
  BY <1>1 DEF Close

LEMMA OtherTypesStep == IInv /\ OtherTypes /\ [Next]_vars => OtherTypes'
<1> SUFFICES ASSUME IInv, OtherTypes, [Next]_vars PROVE OtherTypes'
  OBVIOUS
<1> USE DEF OtherTypes
<1>1. ASSUME NEW f \in Fds, NEW k \in Kinds, Open(f, k)
      PROVE  OtherTypes'
  BY <1>1 DEF Open
<1>2. CASE NewFdData
  BY <1>2 DEF NewFdData
<1>3. CASE NoRecord
  BY <1>3 DEF NoRecord
<1>4. CASE GiveUp
  <2>1. cnr.fd \in Fds
    BY <1>4 DEF GiveUp, IInv, CnrInv
  <2> QED
    BY <1>4, <2>1, CloseKeepsInbox DEF GiveUp
<1>5. ASSUME NEW written \in BOOLEAN, PostVersion(written)
      PROVE  OtherTypes'
  <2>1. cnr.fd \in Fds
    BY <1>5 DEF PostVersion, IInv, CnrInv
  <2>2. inbox' \in [Fds -> Seq(Commands)]
    BY <1>5, <2>1, CloseKeepsInbox DEF PostVersion
  <2> QED
    BY <1>5, <2>2 DEF PostVersion
<1>6. CASE Watch
  <2>1. cnr.fd \in Fds
    BY <1>6 DEF Watch, IInv, CnrInv
  <2>2. inbox' \in [Fds -> Seq(Commands)]
    BY <1>6, <2>1, CloseKeepsInbox DEF Watch
  <2> QED
    BY <1>6, <2>2 DEF Watch
<1>7. CASE Discard
  BY <1>7 DEF Discard
<1>8. ASSUME NEW f \in Fds, Poll(f)
      PROVE  OtherTypes'
  BY <1>8 DEF Poll
<1>9. ASSUME NEW written \in BOOLEAN, Handle(written)
      PROVE  OtherTypes'
  <2> DEFINE f == recs[net.data].fd
  <2>1. f \in Fds
    BY <1>9 DEF Handle, IInv, Types, Live
  <2>2. inbox[f] \in Seq(Commands) /\ inbox[f] # <<>>
    BY <1>9, <2>1 DEF Handle
  <2>3. Tail(inbox[f]) \in Seq(Commands)
    BY <2>2
  <2>4. inbox' = [inbox EXCEPT ![f] = Tail(inbox[f])]
    BY <1>9 DEF Handle
  <2> HIDE DEF f
  <2>5. inbox' \in [Fds -> Seq(Commands)]
    BY <2>1, <2>3, <2>4
  <2> QED
    BY <1>9, <2>5 DEF Handle
<1>10. CASE CloseData
  <2>1. recs[net.data].fd \in Fds
    BY <1>10 DEF CloseData, IInv, Types, Live
  <2> QED
    BY <1>10, <2>1, CloseKeepsInbox DEF CloseData
<1>11. CASE FreeData
  BY <1>11 DEF FreeData
<1>12. ASSUME NEW f \in Fds, PeerGone(f)
      PROVE  OtherTypes'
  BY <1>12 DEF PeerGone
<1>13. ASSUME NEW f \in Fds, NEW command \in Commands, Receive(f, command)
      PROVE  OtherTypes'
  <2>1. Append(inbox[f], command) \in Seq(Commands)
    OBVIOUS
  <2> QED
    BY <1>13, <2>1 DEF Receive
<1>14. CASE UNCHANGED vars
  BY <1>14 DEF vars
<1>15. ASSUME NEW f \in Fds, CreateEpoll(f)
      PROVE  OtherTypes'
  BY <1>15 DEF CreateEpoll, OtherTypes
<1>16. ASSUME NEW ok \in BOOLEAN, GetSockName(ok)
      PROVE  OtherTypes'
  BY <1>16 DEF GetSockName, FreeAndRefuse, OtherTypes
<1>17. ASSUME NEW ok \in BOOLEAN, GetPeerName(ok)
      PROVE  OtherTypes'
  BY <1>17 DEF GetPeerName, FreeAndRefuse, OtherTypes
<1>18. ASSUME NEW ok \in BOOLEAN, NewBuffer(ok)
      PROVE  OtherTypes'
  BY <1>18 DEF NewBuffer, FreeAndRefuse, OtherTypes
<1>19. CASE CloseEpoll
  <2>1. epfd = NULL \/ epfd \in Fds
    BY DEF IInv, Types
  <2> QED
    BY <1>19, <2>1, CloseKeepsInbox DEF CloseEpoll
<1>20. ASSUME NEW f \in Fds, OtherOpens(f)
      PROVE  OtherTypes'
  BY <1>20 DEF OtherOpens, OtherTypes
<1> QED
  BY <1>1, <1>2, <1>3, <1>4, <1>5, <1>6, <1>7, <1>8, <1>9, <1>10, <1>11, <1>12,
     <1>13, <1>14, <1>15, <1>16, <1>17, <1>18, <1>19, <1>20
  DEF Next, Connector, Network

\* What is finished: it grows by one with each buffer, and only then.
Finished == Live \ Filling

\* Freeing takes one record away and no buffer.
LEMMA FreeingKeepsBuffers ==
    ASSUME BuffersInv, NEW r, UNCHANGED buffers, Live' = Live \ {r},
           Filling' = Filling \/ (Filling' = {} /\ Filling \subseteq {r})
    PROVE  BuffersInv'
<1>1. IsFiniteSet(Live')
  BY FS_RemoveElement DEF BuffersInv
<1>2. Finished' \subseteq Finished /\ IsFiniteSet(Finished)
  BY FS_Difference DEF BuffersInv, Finished
<1>3. /\ Cardinality(Finished') <= Cardinality(Finished)
      /\ Cardinality(Finished') \in Nat /\ Cardinality(Finished) \in Nat
  BY <1>2, FS_Subset, FS_CardinalityType
<1> QED
  BY <1>1, <1>3 DEF BuffersInv, Finished

LEMMA BuffersStep == IInv /\ BuffersInv /\ [Next]_vars => BuffersInv'
<1> SUFFICES ASSUME IInv, BuffersInv, [Next]_vars PROVE BuffersInv'
  OBVIOUS
<1>a. ASSUME FreeAndRefuse, cnr.pc \in {"sockname", "peername", "buffer"}
      PROVE  Live' = Live \ {cnr.data} /\ Filling' = {} /\ Filling = {cnr.data}
  <2>1. Live' = Live \ {cnr.data}
    BY <1>a DEF FreeAndRefuse, Live, IInv, Types
  <2>2. cnr'.pc = "refused"
    BY <1>a DEF FreeAndRefuse, IInv, Types
  <2> QED
    BY <1>a, <2>1, <2>2 DEF Filling
<1>b. ASSUME NEW r, free_fd_data(r)
      PROVE  Live' = Live \ {r} /\ UNCHANGED buffers
  BY <1>b DEF free_fd_data, Live, IInv, Types
<1>1. CASE NewFdData
  <2> PICK r \in Records \ Live :
        /\ recs' = [recs EXCEPT ![r] = [fd |-> cnr.fd, type |-> "CLIENT_SOCKET"]]
        /\ cnr' = [cnr EXCEPT !.pc = "sockname", !.data = r]
    BY <1>1 DEF NewFdData
  <2>1. [fd |-> cnr.fd, type |-> "CLIENT_SOCKET"] # NULL
    BY <1>1 DEF NewFdData, IInv, CnrInv
  <2>2. Live' = Live \cup {r}
    BY <2>1 DEF Live, IInv, Types
  <2>3. Filling = {} /\ Filling' = {r}
    BY <1>1 DEF Filling, NewFdData, IInv, Types
  <2>4. IsFiniteSet(Live \cup {r})
    BY FS_AddElement DEF BuffersInv
  <2>5. (Live \cup {r}) \ {r} = Live \ {}
    OBVIOUS
  <2>6. buffers' = buffers
    BY <1>1 DEF NewFdData
  <2> QED
    BY <2>2, <2>3, <2>4, <2>5, <2>6 DEF BuffersInv
<1>2. ASSUME NEW ok \in BOOLEAN, NewBuffer(ok)
      PROVE  BuffersInv'
  <2>1. CASE FreeAndRefuse
    <3>1. buffers' = buffers
      BY <1>2, <2>1 DEF NewBuffer, FreeAndRefuse, IInv, Types
    <3> QED
      BY <1>2, <2>1, <3>1, <1>a, FreeingKeepsBuffers DEF NewBuffer
  <2>2. CASE /\ cnr' = [cnr EXCEPT !.pc = "greet"]
             /\ buffers' = buffers + 1 /\ UNCHANGED recs
    <3>1. Live' = Live /\ Filling = {cnr.data} /\ Filling' = {}
      BY <1>2, <2>2 DEF Live, Filling, NewBuffer, IInv, Types
    <3>2. cnr.data \in Live
      BY <1>2 DEF NewBuffer, IInv, CnrInv
    <3>3. /\ Cardinality(Live \ {cnr.data}) = Cardinality(Live) - 1
          /\ Cardinality(Live) \in Nat
      BY <3>2, FS_RemoveElement, FS_CardinalityType DEF BuffersInv
    <3>4. Live \ {} = Live
      OBVIOUS
    <3> QED
      BY <2>2, <3>1, <3>3, <3>4 DEF BuffersInv
  <2> QED
    BY <1>2, <2>1, <2>2 DEF NewBuffer
<1>3. ASSUME NEW ok \in BOOLEAN, GetSockName(ok) \/ GetPeerName(ok)
      PROVE  BuffersInv'
  <2>1. CASE FreeAndRefuse
    BY <1>3, <2>1, <1>a, FreeingKeepsBuffers DEF GetSockName, GetPeerName
  <2>2. CASE cnr' \in {[cnr EXCEPT !.pc = "peername"], [cnr EXCEPT !.pc = "buffer"]}
             /\ UNCHANGED recs
    <3>1. Live' = Live /\ Filling' = Filling /\ buffers' = buffers
      BY <1>3, <2>2 DEF Live, Filling, GetSockName, GetPeerName, IInv, Types
    <3> QED
      BY <3>1 DEF BuffersInv
  <2> QED
    BY <1>3, <2>1, <2>2 DEF GetSockName, GetPeerName
<1>4. CASE Discard \/ FreeData
  <2>1. Discard => cnr.pc = "discard" /\ cnr'.pc = "idle"
    BY DEF Discard
  <2>2. FreeData => cnr' = cnr
    BY DEF FreeData
  <2>3. Filling' = Filling
    BY <1>4, <2>1, <2>2 DEF Filling
  <2> QED
    BY <1>4, <2>3, <1>b, FreeingKeepsBuffers DEF Discard, FreeData
<1>5. CASE UNCHANGED <<recs, buffers>> /\ Filling' = Filling
  BY <1>5 DEF BuffersInv, Live
<1>6. CASE UNCHANGED <<recs, buffers, cnr>>
  BY <1>6, <1>5 DEF Filling
<1>7. CASE /\ UNCHANGED <<recs, buffers>>
           /\ cnr.pc \notin {"sockname", "peername", "buffer"}
           /\ cnr'.pc \notin {"sockname", "peername", "buffer"}
  BY <1>7, <1>5 DEF Filling
<1>8. ASSUME NEW f \in Fds, NEW k \in Kinds, Open(f, k)
      PROVE  BuffersInv'
  BY <1>8, <1>7 DEF Open, IInv, Types
<1>9. ASSUME NEW written \in BOOLEAN, PostVersion(written)
      PROVE  BuffersInv'
  BY <1>9, <1>7 DEF PostVersion, IInv, Types
<1>10. CASE NoRecord \/ GiveUp \/ Watch \/ CloseEpoll
  <2>1. cnr'.pc \in {"refused", "idle", "discard"}
    <3>1. \A q \in {"refused", "idle", "discard"} : [cnr EXCEPT !.pc = q].pc = q
      BY DEF IInv, Types
    <3>2. [cnr EXCEPT !.pc = "idle", !.fd = NULL].pc = "idle"
      BY DEF IInv, Types
    <3>3. NoRecord \/ CloseEpoll => cnr'.pc \in {"refused", "discard"}
      BY <3>1 DEF NoRecord, CloseEpoll
    <3>4. GiveUp => cnr'.pc = "idle"
      BY <3>2 DEF GiveUp
    <3>5. Watch => cnr'.pc \in {"idle", "discard"}
      <4>1. Watch /\ epollOpen => cnr'.pc = "idle"
        BY DEF Watch
      <4>2. Watch /\ ~epollOpen => cnr'.pc = "discard"
        BY <3>1 DEF Watch
      <4> QED
        BY <4>1, <4>2
    <3> QED
      BY <1>10, <3>3, <3>4, <3>5
  <2> QED
    BY <1>10, <2>1, <1>7 DEF NoRecord, GiveUp, Watch, CloseEpoll
<1> QED
  BY <1>1, <1>2, <1>3, <1>4, <1>6, <1>8, <1>9, <1>10
  DEF Next, Connector, Network, CreateEpoll, Poll, Handle, CloseData, PeerGone,
      OtherOpens, Receive, vars

LEMMA InitOther == Init => OtherTypes /\ BuffersInv
<1> SUFFICES ASSUME Init PROVE OtherTypes /\ BuffersInv
  OBVIOUS
<1>1. <<>> \in Seq(Commands)
  OBVIOUS
<1>2. Live = {}
  BY DEF Init, Live
<1>3. OtherTypes
  BY <1>1 DEF Init, OtherTypes
<1>4. BuffersInv
  BY <1>2, FS_EmptySet DEF Init, BuffersInv
<1> QED
  BY <1>3, <1>4

\* Every variable keeps its type, and there are never fewer receive buffers than
\* live fd_data, for any number of descriptors, records, opens and messages.
THEOREM TypeCorrect == Spec => []TypeOK
<1>1. IInv /\ (OtherTypes /\ BuffersInv) /\ [Next]_vars => (OtherTypes /\ BuffersInv)'
  BY OtherTypesStep, BuffersStep
<1>2. IInv /\ OtherTypes /\ BuffersInv => TypeOK
  <2>1. Todos \subseteq Seq({"read", "close", "free"})
    BY DEF Todos
  <2> QED
    BY <2>1 DEF IInv, Types, OtherTypes, BuffersInv, TypeOK
<1> QED
  BY InitOther, Invariance, <1>1, <1>2, PTL DEF Spec
=============================================================================
