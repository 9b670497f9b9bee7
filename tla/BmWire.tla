------------------------------- MODULE BmWire -------------------------------
(***************************************************************************)
(* Two nodes at the ends of a TCP connection: messages become bytes, the   *)
(* bytes arrive in pieces in the peer's receive buffer, parse_message takes*)
(* messages off its front and process_command decodes and answers them.    *)
(*                                                                         *)
(* The loop that reads into the buffer and parses it is the library user's,*)
(* as are ping, addr and inv messages: the library only writes version,    *)
(* verack and pong.  Writes succeed here; BmConnection is about those that *)
(* do not.                                                                 *)
(***************************************************************************)
EXTENDS BmPayload

CONSTANTS Hellos,           \* what a version message may say
          Others,           \* the other messages a node may say of its own accord
          MaxSays,          \* bound: messages a node says of its own accord
          Chunks,           \* bound: sizes of the pieces bytes arrive in
          BufferSize        \* the size of connectedBuffer

Nodes == {1, 2}
Peer(n) == 3 - n

ASSUME BoundsAssumption ==
    /\ MaxSays \in Nat
    /\ BufferSize \in Nat
    /\ Chunks \subseteq Nat \ {0}

VARIABLES
    wire,       \* the bytes on their way to each node
    buffer,     \* the bytes in its connectedBuffer
    said,       \* the messages it has sent
    heard,      \* the messages it has processed, as it understood them
    says        \* counter of the bound

vars == <<wire, buffer, said, heard, says>>

-----------------------------------------------------------------------------
\* Slips a change to this code could make.

ReplyPingOnly(m) ==
    IF m.command = "ping" THEN <<[command |-> "pong"]>> ELSE <<>>

-----------------------------------------------------------------------------
\* The payload a user of the library gives an addr message.
AddrPayload(addresses) ==
    LET entries[k \in 0 .. Len(addresses)] ==
          IF k = 0 THEN encodeVarint(Len(addresses))
          ELSE entries[k - 1]
                 \o encodeTimeAndStreamInNetworkAddress(addresses[k].time, addresses[k].stream)
                 \o encodeNetworkAddress(addresses[k].addr)
    IN  entries[Len(addresses)]

InvPayload(items) ==
    LET entries[k \in 0 .. Len(items)] ==
          IF k = 0 THEN encodeVarint(Len(items)) ELSE entries[k - 1] \o items[k]
    IN  entries[Len(items)]

WithHeader(command, payload) ==
    magicbytes \o CommandBytes(command) \o BigEndian(Len(payload), 4)
      \o Checksum(payload) \o payload

\* The bytes of a message.
Bytes(m) ==
    CASE m.command = "version"           -> new_version_message(m)
      [] m.command \in {"verack", "pong"} -> reply_header(m.command)
      [] m.command = "addr"              -> WithHeader("addr", AddrPayload(m.addresses))
      [] m.command = "inv"               -> WithHeader("inv", InvPayload(m.items))
      [] OTHER                           -> WithHeader(m.command, <<>>)

\* What the nodes may say.  The length of a payload is sent as a uint32_t and
\* read as an int.
AddrEntry == [time : Number, stream : 0 .. B^4 - 1, addr : Sockaddr, valid : BOOLEAN]
VersionMessage ==
    [command : {"version"}, version : 0 .. B^4 - 1, timestamp : Number, to : Sockaddr,
     from : Sockaddr, nonce : Number, agent : Seq(Byte)]
OtherMessage ==
    [command : {"ping", "getdata", "object"}] \cup
    [command : {"addr"}, addresses : Seq(AddrEntry)] \cup
    [command : {"inv"}, items : Seq([1 .. 32 -> Byte])]

ASSUME SaysAssumption ==
    /\ Hellos \subseteq VersionMessage /\ Others \subseteq OtherMessage
    /\ \A m \in Hellos \cup Others : 2 * (Len(Bytes(m)) - 24) < B^4

\* What process_command gets out of a message.
Decoded(msg) ==
    CASE msg.command = "version" ->
            [command |-> "version", version |-> parseVersionMessage(msg.payload)]
      [] msg.command = "addr" ->
            [command |-> "addr", addresses |-> parseAddrMessage(msg.payload)]
      [] msg.command = "inv" ->
            [command |-> "inv", items |-> parseInventoryMessage(msg.payload)]
      [] OTHER -> [command |-> msg.command]

\* What it should get out of it.
Meaning(m) ==
    CASE m.command = "version" ->
            [command |-> "version", version |->
                [version |-> m.version, timestamp |-> m.timestamp,
                 to |-> Shown(m.to), from |-> Shown(m.from),
                 nonce |-> m.nonce, agent |-> m.agent, streams |-> <<1>>]]
      [] m.command = "addr" ->
            [command |-> "addr", addresses |->
                [k \in DOMAIN m.addresses |->
                    [time |-> m.addresses[k].time, stream |-> m.addresses[k].stream,
                     address |-> Shown(m.addresses[k].addr),
                     valid |-> m.addresses[k].valid]]]
      [] OTHER -> m

\* process_command answers version and ping and nothing else.
Reply(m) ==
    IF m.command = "version" THEN <<[command |-> "verack"]>>
    ELSE IF m.command = "ping" THEN <<[command |-> "pong"]>>
    ELSE <<>>

-----------------------------------------------------------------------------
Init ==
    /\ wire = [n \in Nodes |-> <<>>]
    /\ buffer = [n \in Nodes |-> <<>>]
    /\ said = [n \in Nodes |-> <<>>]
    /\ heard = [n \in Nodes |-> <<>>]
    /\ says = [n \in Nodes |-> 0]

Say(n, m) ==
    /\ says[n] < MaxSays
    /\ says' = [says EXCEPT ![n] = @ + 1]
    /\ said' = [said EXCEPT ![n] = Append(@, m)]
    /\ wire' = [wire EXCEPT ![Peer(n)] = @ \o Bytes(m)]
    /\ UNCHANGED <<buffer, heard>>

postVersion(n) == \E m \in Hellos : Say(n, m)

SayOther(n) == \E m \in Others : Say(n, m)

\* read() into the rest of the buffer: some of the bytes, or all that are there
\* and fit.
Room(n) == BufferSize - Len(buffer[n])

Deliver(n) ==
    \E k \in Chunks \cup {Len(wire[n]), Room(n)} :
        /\ k > 0
        /\ k <= Len(wire[n])
        /\ k <= Room(n)
        /\ buffer' = [buffer EXCEPT ![n] = @ \o SubSeq(wire[n], 1, k)]
        /\ wire' = [wire EXCEPT ![n] = SubSeq(@, k + 1, Len(@))]
        /\ UNCHANGED <<said, heard, says>>

\* parse_message and process_command on the first message of the buffer, which
\* the caller then moves up by the size of the message.
Process(n) ==
    \E msg \in parse_message(buffer[n]) :
        /\ buffer' = [buffer EXCEPT ![n] = SubSeq(@, MessageSize(@) + 1, Len(@))]
        /\ heard' = [heard EXCEPT ![n] = Append(@, Decoded(msg))]
        /\ said' = [said EXCEPT ![n] = @ \o Reply(msg)]
        /\ wire' = [wire EXCEPT ![Peer(n)] =
                        IF Reply(msg) = <<>> THEN @ ELSE @ \o Bytes(Reply(msg)[1])]
        /\ UNCHANGED says

Next == \E n \in Nodes : postVersion(n) \/ SayOther(n) \/ Deliver(n) \/ Process(n)

Spec == Init /\ [][Next]_vars

\* TCP delivers and the reading loop keeps running.
FairSpec == Spec /\ \A n \in Nodes : WF_vars(Deliver(n)) /\ WF_vars(Process(n))

-----------------------------------------------------------------------------
(* Properties *)

ShownAddress ==
    [ipv4 : BOOLEAN, ip : Seq(Byte), port : 0 .. B^2 - 1]
Understood ==
    [command : {"verack", "pong", "ping", "getdata", "object"}] \cup
    [command : {"version"}, version :
        [version : 0 .. B^4 - 1, timestamp : Number, to : ShownAddress,
         from : ShownAddress, nonce : Number, agent : Seq(Byte), streams : Seq(Number)]] \cup
    [command : {"addr"}, addresses :
        Seq([time : Number, stream : 0 .. B^4 - 1, address : ShownAddress, valid : BOOLEAN])] \cup
    [command : {"inv"}, items : Seq([1 .. 32 -> Byte])]

\* Every variable has its type, and the buffer holds what it can hold.
TypeOK ==
    /\ wire \in [Nodes -> Seq(Byte)]
    /\ buffer \in [Nodes -> Seq(Byte)]
    /\ \A n \in Nodes : Len(buffer[n]) <= BufferSize
    /\ said \in [Nodes -> Seq(Hellos \cup Others
                                \cup {[command |-> "verack"], [command |-> "pong"]})]
    /\ heard \in [Nodes -> Seq(Understood)]
    /\ says \in [Nodes -> 0 .. MaxSays]

\* A message that has arrived whole is never refused.  parse_message answers
\* NULL both to half a message and to a wrong checksum: a caller waits for more
\* in either case, and a refused message would block the connection for good.
NeverRefused ==
    \A n \in Nodes : HasMessage(buffer[n]) => parse_message(buffer[n]) # {}

\* However the bytes are cut into pieces, a node hears what its peer said, in
\* order and with every field intact, and answers what is to be answered.
Conversation == INSTANCE BmConversation WITH Says <- Hellos \cup Others

ImplementsConversation == Conversation!Spec

\* What is said is heard in the end: nothing stays behind in a buffer that waits
\* for bytes that will not come, and no buffer that is full waits for ever.
AllHeard ==
    \A n \in Nodes : \A k \in 1 .. 2 * MaxSays :
        Len(said[Peer(n)]) >= k ~> Len(heard[n]) >= k

\* A version is answered: the handshake comes about whoever speaks first.
VersionAcknowledged ==
    \A n \in Nodes :
        (\E k \in DOMAIN said[n] : said[n][k].command = "version")
            ~> (\E k \in DOMAIN heard[n] : heard[n][k].command = "verack")

HeardVersions(n) == {k \in DOMAIN heard[n] : heard[n][k].command = "version"}

\* An IPv4 address is sent as an IPv4-mapped IPv6 address, as the comment in
\* encodeNetworkAddress says, and shown as the IPv4 address it is.
Ipv4Arrives ==
    \A n \in Nodes : \A k \in HeardVersions(n) :
        said[Peer(n)][k].from.family = "AF_INET" =>
            heard[n][k].version.from = Shown(said[Peer(n)][k].from)

\* An address of the two kinds that the comment in is_valid_bm_addr calls usual,
\* global and unique local, is shown.
UsualAddressesShown ==
    \A n \in Nodes : \A k \in DOMAIN heard[n] :
        heard[n][k].command = "addr" =>
            \A j \in DOMAIN heard[n][k].addresses :
                LET a == heard[n][k].addresses[j] IN
                    (~a.address.ipv4 /\ a.address.ip[1] \in {B \div 8, Mark(1)}) => a.valid
=============================================================================
