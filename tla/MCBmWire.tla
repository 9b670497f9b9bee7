------------------------------ MODULE MCBmWire ------------------------------
(***************************************************************************)
(* BmWire with values chosen so that every multi-byte field shows its byte *)
(* order and the user agents and lists stand on both sides of the limit at *)
(* which their length takes three bytes.                                   *)
(***************************************************************************)
EXTENDS BmWire

Ip6(first) == [k \in 1 .. 16 |-> IF k = 1 THEN first ELSE k % B]
Global(port) == [family |-> "AF_INET6", ip |-> Ip6(B \div 8), port |-> port]
UniqueLocal == [family |-> "AF_INET6", ip |-> Ip6(Mark(1)), port |-> <<0, 1>>]
LinkLocal == [family |-> "AF_INET6", ip |-> Ip6(Mark(2)), port |-> <<0, 1>>]
Ipv4 == [family |-> "AF_INET", ip |-> <<1, 2, 3, 4>>, port |-> <<2, 1>>]

Agent(n) == [k \in 1 .. n |-> 1 + (k % (B - 1))]
Hello(n, from) ==
    [command |-> "version", version |-> 3, timestamp |-> 1 + 2 * B + 3 * B^5,
     to |-> Global(<<2, 1>>), from |-> from, nonce |-> 2 + B^7, agent |-> Agent(n)]

\* User agents of one length byte, of three, and none.
AgentHellos == {Hello(n, Global(<<0, 3>>)) : n \in {0, Mark(1) - 1, Mark(1)}}
OneHello    == {Hello(1, Global(<<0, 3>>))}
Ipv4Hellos  == {Hello(1, Ipv4)}

Entry(addr, valid) ==
    [time |-> 3 + B^4, stream |-> 1, addr |-> addr, valid |-> valid]
Pings   == {[command |-> "ping"]}
Vectors == {[command |-> "addr", addresses |-> <<Entry(Global(<<0, 3>>), TRUE),
                                                 Entry(LinkLocal, FALSE)>>],
            [command |-> "inv", items |-> [k \in 1 .. Mark(1) |-> [j \in 1 .. 32 |-> (k + j) % B]]],
            [command |-> "object"]}
Mixed   == Pings \cup Vectors
UniqueLocals == {[command |-> "addr", addresses |-> <<Entry(UniqueLocal, FALSE)>>]}
None    == {}
=============================================================================
