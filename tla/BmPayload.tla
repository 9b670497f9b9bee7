------------------------------ MODULE BmPayload ------------------------------
(***************************************************************************)
(* The messages of bm_protocol.c and bm_network.c as bytes: what is put    *)
(* into a message and how it is taken out again.  A socket address is a    *)
(* record whose ip and port are bytes in network order, as in sockaddr.    *)
(***************************************************************************)
EXTENDS Varint

\* The filter of addresses looks at three bits of a byte, and there are eight
\* commands.
ASSUME OctalAssumption == B % 8 = 0

Zeros(n) == [k \in 1 .. n |-> 0]
High == B - 1                                                       \* 0xff

Sockaddr ==
    [family : {"AF_INET"}, ip : [1 .. 4 -> Byte], port : [1 .. 2 -> Byte]] \cup
    [family : {"AF_INET6"}, ip : [1 .. 16 -> Byte], port : [1 .. 2 -> Byte]]

-----------------------------------------------------------------------------
\* Slips a change to this code could make.

port_unswapped(s) == LittleEndianValue(s)   \* forgets ntohs
no_checksum == Zeros(4)                     \* that of a message without payload
HasMessageLater(data) ==                    \* waits for a byte too many
    LET length == Value(Slice(data, 17, 4)) IN
        Len(data) >= 24 /\ 2 * length < B^4 /\ Len(data) > 24 + length

-----------------------------------------------------------------------------
(* addresses *)

\* The 26 bytes of an address: services, ip, port.  For IPv4 the code writes
\* 0xff at 14 and 15 and the address at 16, that is at 6, 7 and 8 of the ip.
encodeNetworkAddress(a) ==
    IF a.family = "AF_INET"
    THEN Zeros(14) \o <<High, High>> \o a.ip \o Zeros(4) \o a.port
    ELSE Zeros(8) \o a.ip \o a.port

\* The 12 bytes before them in an addr message.
encodeTimeAndStreamInNetworkAddress(time, stream) ==
    BigEndian(time, 8) \o BigEndian(stream, 4)

\* ntohs
port_of(s) == Value(s)

\* The test of printNetworkAddress and printAddrMessage on the 16 ip bytes.
IsIpv4Mapped(ip) == SubSeq(ip, 1, 12) = Zeros(10) \o <<High, High>>

\* What printNetworkAddress shows of 26 bytes.
printNetworkAddress(s) ==
    LET ip == Slice(s, 9, 16) IN
    [ipv4 |-> IsIpv4Mapped(ip),
     ip   |-> IF IsIpv4Mapped(ip) THEN SubSeq(ip, 13, 16) ELSE ip,
     port |-> port_of(Slice(s, 25, 2))]

\* What it should show of a socket address.
Shown(a) == [ipv4 |-> a.family = "AF_INET", ip |-> a.ip, port |-> Value(a.port)]

\* Whether printAddrMessage shows an address at all: IPv4-mapped or in 2000::/3.
is_valid_bm_addr(ip) ==
    \/ IsIpv4Mapped(ip)
    \/ /\ SubSeq(ip, 1, 10) # Zeros(10)
       /\ ip[1] # 0
       /\ ip[1] \div (B \div 8) = 1

-----------------------------------------------------------------------------
(* payloads *)

get_version_payload_size(agent) == 82 + get_varstr_size(agent)

\* m is what the caller says: version, addresses and agent; the clock and the
\* random generator add timestamp and nonce.  Services are 0, the stream is 1.
create_version_payload(m) ==
    BigEndian(m.version, 4) \o BigEndian(0, 8) \o BigEndian(m.timestamp, 8)
      \o encodeNetworkAddress(m.to) \o encodeNetworkAddress(m.from)
      \o BigEndian(m.nonce, 8)
      \o encodeVarStr(m.agent) \o <<1, 1>>

parseVersionMessage(p) ==
    LET agent   == decodeVarint(p, 81)
        text    == 81 + agent.size
        streams == decodeVarint(p, text + agent.value)
        first   == text + agent.value + streams.size
        read[k \in 0 .. streams.value] ==       \* k numbers, and where they end
          IF k = 0 THEN [list |-> <<>>, next |-> first]
          ELSE LET e == decodeVarint(p, read[k - 1].next)
               IN  [list |-> Append(read[k - 1].list, e.value),
                    next |-> read[k - 1].next + e.size]
    IN  [version   |-> Value(Slice(p, 1, 4)),
         timestamp |-> Value(Slice(p, 13, 8)),
         to        |-> printNetworkAddress(Slice(p, 21, 26)),
         from      |-> printNetworkAddress(Slice(p, 47, 26)),
         nonce     |-> Value(Slice(p, 73, 8)),
         agent     |-> Slice(p, text, agent.value),
         streams   |-> read[streams.value].list]

\* An addr entry takes 38 bytes.
parseAddrMessage(p) ==
    LET count == decodeVarint(p, 1) IN
    [k \in 1 .. count.value |->
        LET at == count.size + 38 * (k - 1) + 1 IN
        [time    |-> Value(Slice(p, at, 8)),
         stream  |-> Value(Slice(p, at + 8, 4)),
         address |-> printNetworkAddress(Slice(p, at + 12, 26)),
         valid   |-> is_valid_bm_addr(Slice(p, at + 20, 16))]]

\* The count of an inv is taken from the length of its payload: 32 bytes each.
inventory_count(p, count) == (Len(p) - count.size) \div 32

parseInventoryMessage(p) ==
    LET count == decodeVarint(p, 1) IN
    [k \in 1 .. inventory_count(p, count) |-> Slice(p, count.size + 32 * (k - 1) + 1, 32)]

-----------------------------------------------------------------------------
(* messages *)

magicbytes == <<High, 1, 2, 3>>

\* A command is 12 bytes; which one matters, not how it is spelt.
Commands == <<"verack", "version", "addr", "inv", "ping", "getdata", "object", "pong">>
CommandBytes(c) == <<CHOOSE k \in Byte : Commands[k + 1] = c>> \o Zeros(11)
CommandOf(s) == Commands[s[1] + 1]

\* The first 4 bytes of SHA512.  All that matters is that both ends compute the
\* same from the same payload; here it tells lengths and first and last bytes apart.
Checksum(p) ==
    IF p = <<>> THEN <<3, 2, 1, 0>>
    ELSE <<Len(p) % B, (Len(p) \div B) % B, p[1], p[Len(p)]>>
empty_payload_checksum == <<3, 2, 1, 0>>

\* n bytes of memory that begin with s: what is not written is left as it was.
Allocated(n, s) == [k \in 1 .. n |-> IF k <= Len(s) THEN s[k] ELSE High]

new_version_message(m) ==
    LET size    == get_version_payload_size(m.agent)
        payload == Allocated(size, create_version_payload(m))
    IN  magicbytes \o CommandBytes("version") \o BigEndian(size, 4)
          \o Checksum(payload) \o payload

\* replyVarack and replyPong.
reply_header(command) ==
    magicbytes \o CommandBytes(command) \o BigEndian(0, 4) \o empty_payload_checksum

LengthField(data) == Value(Slice(data, 17, 4))
MessageSize(data) == 24 + LengthField(data)

\* The length is read into an int, so one of half of B^4 on is negative, and as a
\* size_t more than any data there is.  (Those of -24 to -1, with which the sum in
\* the code is small again and SHA512 runs over the end of the data, are in no
\* message that a node sends and are left out.)
HasMessage(data) ==
    /\ Len(data) >= 24
    /\ 2 * LengthField(data) < B^4
    /\ Len(data) >= MessageSize(data)

\* parse_message: the set of the message at the start of data; empty for NULL,
\* when more data is needed and when the checksum is wrong.
parse_message(data) ==
    IF ~HasMessage(data) THEN {}
    ELSE {[command |-> CommandOf(Slice(data, 5, 12)), payload |-> payload] :
             payload \in {q \in {Slice(data, 25, LengthField(data))} :
                             Checksum(q) = Slice(data, 21, 4)}}
=============================================================================
