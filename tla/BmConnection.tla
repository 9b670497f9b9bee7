---------------------------- MODULE BmConnection ----------------------------
(***************************************************************************)
(* bm_network.c and process_command of bm_protocol.c: the life of a        *)
(* connection's descriptor and of its struct fd_data.                      *)
(*                                                                         *)
(* Two threads of the program share the descriptor table and the heap.     *)
(* The connector opens descriptors, makes their fd_data, greets the peer   *)
(* (postVersion) and hands them to epoll with the fd_data as event         *)
(* pointer.  The network thread takes one event at a time, reads one       *)
(* message and calls process_command, which may close the descriptor and   *)
(* free the fd_data without telling its caller: it returns void.  The      *)
(* loops of the two threads are the library user's, the functions they     *)
(* call are the library's.  The rest of the program opens descriptors of   *)
(* its own, which get any number that is free.                             *)
(***************************************************************************)
EXTENDS Naturals, Sequences, FiniteSets

CONSTANTS Fds,                  \* the descriptor numbers, handed out again after close
          Records,              \* the addresses of struct fd_data (bounds the heap)
          NULL,
          MaxOpens,             \* bound: descriptors opened in one behaviour
          MaxMessages           \* bound: messages received in one behaviour

FdData == [fd : Fds, type : {"CLIENT_SOCKET"}]     \* a struct fd_data

ASSUME SetsAssumption == NULL \notin Records \cup Fds \cup FdData
ASSUME BoundsAssumption == MaxOpens \in Nat /\ MaxMessages \in Nat

VARIABLES
    kind,       \* what each descriptor is
    watched,    \* the event pointer epoll keeps for a descriptor, or NULL
    recs,       \* the live struct fd_data: its fd and type; NULL when free
    buffers,    \* connectedBuffers allocated and not freed
    inbox,      \* complete messages that wait in each socket
    epfd,       \* the global epfd: a descriptor number, or NULL for -1
    lost,       \* history: a failed greeting has closed the epoll descriptor
    net,        \* network thread: the event's pointer and what is left to do
    cnr,        \* connector: where it is, its descriptor and its fd_data
    opened, received    \* counters of the two bounds

vars == <<kind, watched, recs, buffers, inbox, epfd, lost, net, cnr,
          opened, received>>

\* A connected socket; a socket without a peer (one that listens); a timerfd.
Kinds    == {"connected", "unconnected", "timer"}
\* A file of the rest of the program; the epoll descriptor; a free number.
Others   == {"other", "epoll", "closed"}
\* "other": verack, addr, inv, getdata, object and what is unknown, none of which
\* is answered.
Commands == {"version", "ping", "other"}

Live == {r \in Records : recs[r] # NULL}

\* epoll_wait and epoll_ctl work: epfd is the number of the epoll descriptor.
epollOpen == epfd # NULL /\ kind[epfd] = "epoll"

-----------------------------------------------------------------------------
\* Slips a change to this code could make, one for each property below.

FailedVarackLeavesOpen == <<"free">>                  \* frees, forgets to close
FailedPongTwice        == <<"close", "close", "free">>  \* replyPong closes as well
FailedPongLeavesOpen   == <<"free">>                  \* frees, forgets to close
PeerFailureKeepsData(ok) ==                           \* a failing exit forgets to free
    /\ cnr.pc = "peername"
    /\ ok => kind[cnr.fd] = "connected"
    /\ cnr' = IF ok THEN [cnr EXCEPT !.pc = "buffer"]
                    ELSE [cnr EXCEPT !.pc = "refused", !.data = NULL]
    /\ UNCHANGED <<kind, watched, recs, buffers, inbox, epfd, lost, net, opened, received>>
free_buffer_twice(r) ==                               \* frees the buffer twice
    /\ recs' = [recs EXCEPT ![r] = NULL]
    /\ buffers' = buffers - 2

-----------------------------------------------------------------------------
\* The operations on the data that a failed reply still has to carry out:
\* replyVarack's own, and those of process_command after replyPong failed.
FailedVarack == <<"close", "free">>
FailedPong   == <<"close", "free">>

\* What process_command leaves to do for a command, given whether its reply
\* (if it writes one) went out whole.
process_command(command, written) ==
    IF written THEN <<>>
    ELSE IF command = "version" THEN FailedVarack
    ELSE IF command = "ping" THEN FailedPong
    ELSE <<>>

Replies == {"version", "ping"}

\* close(fd): the number is free again, what waited in the socket is lost, and
\* epoll forgets the descriptor.
Close(f) ==
    /\ kind' = [kind EXCEPT ![f] = "closed"]
    /\ watched' = [watched EXCEPT ![f] = NULL]
    /\ inbox' = [inbox EXCEPT ![f] = <<>>]

\* free_fd_data: the buffer is freed only if it is NULL, that is never.
free_fd_data(r) ==
    /\ recs' = [recs EXCEPT ![r] = NULL]
    /\ buffers' = buffers

\* A failing exit of new_fd_data frees the record and returns NULL.
FreeAndRefuse ==
    /\ recs' = [recs EXCEPT ![cnr.data] = NULL]
    /\ cnr' = [cnr EXCEPT !.pc = "refused", !.data = NULL]

-----------------------------------------------------------------------------
Init ==
    /\ kind = [f \in Fds |-> "closed"]
    /\ watched = [f \in Fds |-> NULL]
    /\ recs = [r \in Records |-> NULL]
    /\ buffers = 0
    /\ inbox = [f \in Fds |-> <<>>]
    /\ epfd = NULL
    /\ lost = FALSE
    /\ net = [data |-> NULL, todo |-> <<>>]
    /\ cnr = [pc |-> "idle", fd |-> NULL, data |-> NULL]
    /\ opened = 0
    /\ received = 0

-----------------------------------------------------------------------------
(* the connector *)

\* socket() and connect(), socket() and listen(), or timerfd_create().
Open(f, k) ==
    /\ cnr.pc = "idle"
    /\ kind[f] = "closed"
    /\ opened < MaxOpens
    /\ opened' = opened + 1
    /\ kind' = [kind EXCEPT ![f] = k]
    /\ cnr' = [cnr EXCEPT !.pc = "opened", !.fd = f]
    /\ UNCHANGED <<watched, recs, buffers, inbox, epfd, lost, net, received>>

\* epoll_create1(), once: the user sets the global epfd.
CreateEpoll(f) ==
    /\ cnr.pc = "idle"
    /\ epfd = NULL
    /\ kind[f] = "closed"
    /\ kind' = [kind EXCEPT ![f] = "epoll"]
    /\ epfd' = f
    /\ UNCHANGED <<watched, recs, buffers, inbox, lost, net, cnr, opened, received>>

\* new_fd_data allocates the record.  It notes CLIENT_SOCKET whatever type it
\* was called with.
NewFdData ==
    /\ cnr.pc = "opened"
    /\ \E r \in Records \ Live :
          /\ recs' = [recs EXCEPT ![r] = [fd |-> cnr.fd, type |-> "CLIENT_SOCKET"]]
          /\ cnr' = [cnr EXCEPT !.pc = "sockname", !.data = r]
    /\ UNCHANGED <<kind, watched, buffers, inbox, epfd, lost, net, opened, received>>

\* There is no memory for the record.
NoRecord ==
    /\ cnr.pc = "opened"
    /\ cnr' = [cnr EXCEPT !.pc = "refused"]
    /\ UNCHANGED <<kind, watched, recs, buffers, inbox, epfd, lost, net, opened, received>>

\* getsockname, which a timerfd has none for, and its failing exit.
GetSockName(ok) ==
    /\ cnr.pc = "sockname"
    /\ ok => kind[cnr.fd] # "timer"
    /\ IF ok THEN cnr' = [cnr EXCEPT !.pc = "peername"] /\ UNCHANGED recs ELSE FreeAndRefuse
    /\ UNCHANGED <<kind, watched, buffers, inbox, epfd, lost, net, opened, received>>

\* getpeername, which fails without a peer or when it has gone.
GetPeerName(ok) ==
    /\ cnr.pc = "peername"
    /\ ok => kind[cnr.fd] = "connected"
    /\ IF ok THEN cnr' = [cnr EXCEPT !.pc = "buffer"] /\ UNCHANGED recs ELSE FreeAndRefuse
    /\ UNCHANGED <<kind, watched, buffers, inbox, epfd, lost, net, opened, received>>

\* The receive buffer is allocated last.
NewBuffer(ok) ==
    /\ cnr.pc = "buffer"
    /\ IF ok
       THEN cnr' = [cnr EXCEPT !.pc = "greet"] /\ buffers' = buffers + 1 /\ UNCHANGED recs
       ELSE FreeAndRefuse /\ UNCHANGED buffers
    /\ UNCHANGED <<kind, watched, inbox, epfd, lost, net, opened, received>>

\* The caller closes the descriptor it got no fd_data for.
GiveUp ==
    /\ cnr.pc = "refused"
    /\ Close(cnr.fd)
    /\ cnr' = [cnr EXCEPT !.pc = "idle", !.fd = NULL]
    /\ UNCHANGED <<recs, buffers, epfd, lost, net, opened, received>>

\* A failed write makes postVersion close the socket and then the global epfd.
PostVersion(written) ==
    /\ cnr.pc = "greet"
    /\ IF written
       THEN /\ cnr' = [cnr EXCEPT !.pc = "watch"]
            /\ UNCHANGED <<kind, watched, inbox>>
       ELSE /\ cnr' = [cnr EXCEPT !.pc = "closeEpoll"]
            /\ Close(cnr.fd)
    /\ UNCHANGED <<recs, buffers, epfd, lost, net, opened, received>>

\* close(epfd): of -1 before there is an epoll descriptor, and of a number that
\* may belong to anyone after an earlier failure, for epfd is never reset.
CloseEpoll ==
    /\ cnr.pc = "closeEpoll"
    /\ IF epfd = NULL THEN UNCHANGED <<kind, watched, inbox>> ELSE Close(epfd)
    /\ lost' = (epfd # NULL)
    /\ cnr' = [cnr EXCEPT !.pc = "discard"]
    /\ UNCHANGED <<recs, buffers, epfd, net, opened, received>>

\* epoll_ctl(ADD), which fails without an epoll descriptor; the caller closes.
Watch ==
    /\ cnr.pc = "watch"
    /\ IF epollOpen
       THEN /\ watched' = [watched EXCEPT ![cnr.fd] = cnr.data]
            /\ cnr' = [pc |-> "idle", fd |-> NULL, data |-> NULL]
            /\ UNCHANGED <<kind, inbox>>
       ELSE /\ cnr' = [cnr EXCEPT !.pc = "discard"]
            /\ Close(cnr.fd)
    /\ UNCHANGED <<recs, buffers, epfd, lost, net, opened, received>>

\* The caller frees the fd_data of a connection that did not come about.
Discard ==
    /\ cnr.pc = "discard"
    /\ free_fd_data(cnr.data)
    /\ cnr' = [pc |-> "idle", fd |-> NULL, data |-> NULL]
    /\ UNCHANGED <<kind, watched, inbox, epfd, lost, net, opened, received>>

-----------------------------------------------------------------------------
(* the network thread *)

\* epoll_wait returns one event: something to read.
Poll(f) ==
    /\ net.todo = <<>>
    /\ epollOpen
    /\ watched[f] # NULL
    /\ inbox[f] # <<>>
    /\ net' = [data |-> watched[f], todo |-> <<"read">>]
    /\ UNCHANGED <<kind, watched, recs, buffers, inbox, epfd, lost, cnr, opened, received>>

\* The peer has gone: the user of the library drops the connection.
PeerGone(f) ==
    /\ net.todo = <<>>
    /\ epollOpen
    /\ watched[f] # NULL
    /\ net' = [data |-> watched[f], todo |-> <<"close", "free">>]
    /\ UNCHANGED <<kind, watched, recs, buffers, inbox, epfd, lost, cnr, opened, received>>

\* Reads through data->fd and processes the message.
Handle(written) ==
    /\ net.todo = <<"read">>
    /\ net.data \in Live
    /\ LET f == recs[net.data].fd IN
          /\ inbox[f] # <<>>
          /\ Head(inbox[f]) \in Replies \/ written
          /\ inbox' = [inbox EXCEPT ![f] = Tail(inbox[f])]
          /\ net' = [net EXCEPT !.todo = process_command(Head(inbox[f]), written)]
    /\ UNCHANGED <<kind, watched, recs, buffers, epfd, lost, cnr, opened, received>>

CloseData ==
    /\ net.todo # <<>>
    /\ Head(net.todo) = "close"
    /\ net.data \in Live
    /\ Close(recs[net.data].fd)
    /\ net' = [net EXCEPT !.todo = Tail(net.todo)]
    /\ UNCHANGED <<recs, buffers, epfd, lost, cnr, opened, received>>

FreeData ==
    /\ net.todo # <<>>
    /\ Head(net.todo) = "free"
    /\ free_fd_data(net.data)
    /\ net' = [net EXCEPT !.todo = Tail(net.todo)]
    /\ UNCHANGED <<kind, watched, inbox, epfd, lost, cnr, opened, received>>

-----------------------------------------------------------------------------
\* A message arrives on an open connection.
Receive(f, command) ==
    /\ kind[f] = "connected"
    /\ received < MaxMessages
    /\ received' = received + 1
    /\ inbox' = [inbox EXCEPT ![f] = Append(inbox[f], command)]
    /\ UNCHANGED <<kind, watched, recs, buffers, epfd, lost, net, cnr, opened>>

\* Another part of the program opens a file, a listener or a connection of its
\* own and keeps it.
OtherOpens(f) ==
    /\ kind[f] = "closed"
    /\ opened < MaxOpens
    /\ opened' = opened + 1
    /\ kind' = [kind EXCEPT ![f] = "other"]
    /\ UNCHANGED <<watched, recs, buffers, inbox, epfd, lost, net, cnr, received>>

Connector ==
    \/ \E f \in Fds : CreateEpoll(f)
    \/ \E f \in Fds, k \in Kinds : Open(f, k)
    \/ NewFdData
    \/ NoRecord
    \/ \E ok \in BOOLEAN : GetSockName(ok)
    \/ \E ok \in BOOLEAN : GetPeerName(ok)
    \/ \E ok \in BOOLEAN : NewBuffer(ok)
    \/ GiveUp
    \/ \E written \in BOOLEAN : PostVersion(written)
    \/ CloseEpoll
    \/ Watch
    \/ Discard

Network ==
    \/ \E f \in Fds : Poll(f)
    \/ \E written \in BOOLEAN : Handle(written)
    \/ CloseData
    \/ FreeData

Next ==
    \/ Connector
    \/ Network
    \/ \E f \in Fds : PeerGone(f)
    \/ \E f \in Fds : OtherOpens(f)
    \/ \E f \in Fds, command \in Commands : Receive(f, command)

Spec == Init /\ [][Next]_vars

\* The network thread serves each watched descriptor in turn, as epoll does.
FairSpec ==
    /\ Spec
    /\ WF_vars(Network)
    /\ \A f \in Fds : SF_vars(Poll(f))

-----------------------------------------------------------------------------
(* Properties *)

\* The record new_fd_data is still filling in, which has no buffer yet.
Filling  == IF cnr.pc \in {"sockname", "peername", "buffer"} THEN {cnr.data} ELSE {}

\* Every variable has its type, and every finished fd_data has its buffer.
TypeOK ==
    /\ kind \in [Fds -> Kinds \cup Others]
    /\ watched \in [Fds -> Records \cup {NULL}]
    /\ recs \in [Records -> FdData \cup {NULL}]
    /\ buffers \in Nat /\ buffers >= Cardinality(Live \ Filling)
    /\ inbox \in [Fds -> Seq(Commands)]
    /\ epfd \in Fds \cup {NULL}
    /\ lost \in BOOLEAN
    /\ net \in [data : Records \cup {NULL}, todo : Seq({"read", "close", "free"})]
    /\ cnr \in [pc : {"idle", "opened", "sockname", "peername", "buffer", "refused",
                      "greet", "watch", "closeEpoll", "discard"},
               fd : Fds \cup {NULL}, data : Records \cup {NULL}]
    /\ opened \in Nat
    /\ received \in Nat

\* The network thread never touches a freed fd_data, although process_command
\* frees it without telling: a failed reply closes the descriptor first, epoll
\* forgets it, and no later event brings the pointer back.
NoUseAfterFree == net.todo # <<>> => net.data \in Live

\* No close hits a descriptor number that has been handed out again in the
\* meantime: the network thread closes the connection that epoll holds for its
\* fd_data, the connector the descriptor it has opened and not yet handed over,
\* and a failed greeting the epoll descriptor.  The exception is the failed
\* greeting after that one: it closes the number once more, and whatever another
\* part of the program has been given it for, though never a watched connection.
NoForeignClose ==
    /\ (net.todo # <<>> /\ Head(net.todo) = "close" /\ net.data \in Live)
          => watched[recs[net.data].fd] = net.data
    /\ cnr.pc \in {"refused", "greet", "watch"}
          => kind[cnr.fd] \in Kinds /\ watched[cnr.fd] = NULL
    /\ (cnr.pc = "closeEpoll" /\ epfd # NULL)
          => (kind[epfd] = "epoll" \/ lost) /\ watched[epfd] = NULL

Watched  == {watched[f] : f \in {g \in Fds : watched[g] # NULL}}
Dropping == IF net.todo = <<"free">> THEN {net.data} ELSE {}
Building == IF cnr.data # NULL THEN {cnr.data} ELSE {}

\* Every live fd_data has exactly one holder: epoll, which keeps it for the
\* connected descriptor it names; the network thread, between closing and
\* freeing it; or the connector.  None is forgotten and none is freed twice.
OneOwner ==
    /\ Live = Watched \cup Dropping \cup Building
    /\ Watched \cap Dropping = {}
    /\ Watched \cap Building = {}
    /\ Dropping \cap Building = {}
    /\ \A f \in Fds : watched[f] # NULL =>
          kind[f] = "connected" /\ recs[watched[f]] # NULL /\ recs[watched[f]].fd = f

\* What arrives on a watched connection is processed, or the connection ends:
\* the failure of one connection does not stop the others, unless it is the
\* failure of a greeting, for which postVersion closes the epoll descriptor.
MessagesServed ==
    \A f \in Fds, r \in Records :
        (watched[f] = r /\ inbox[f] # <<>>)
            ~> (watched[f] # r \/ inbox[f] = <<>> \/ ~epollOpen)

\* free_fd_data frees the receive buffer together with the fd_data.
BuffersFreed == buffers = Cardinality(Live \ Filling)
=============================================================================
