------------------------------ MODULE EpspParser ------------------------------
(***************************************************************************)
(* epsp-parser.c: a thread makes packets, has lines of up to three tokens  *)
(* (code, hop count, data) parsed into them, keeps those that were parsed  *)
(* in a chain, and frees the chain.                                        *)
(*                                                                         *)
(* A line is the sequence of its tokens, each of them a number or not.  A  *)
(* block has no size: the byte that validate_epsp_packet_line writes behind*)
(* its copy of the line is not seen.                                       *)
(***************************************************************************)
EXTENDS Heap, Integers, Sequences

CONSTANTS Lines, MaxChain   \* bound: packets kept

Tokens == {"number", "word"}
ASSUME LinesAssumption == Lines \subseteq Seq(Tokens)

VARIABLES parserPc,
          packet,       \* what epsp_packet_new gave
          line,         \* the line that is parsed
          work,         \* work_line, later the copy that validate makes
          ret,          \* the result of the function that ran last
          chain,        \* the packets that are kept
          at, callers,  \* epsp_packet_free: its argument, and those of its callers
          kept, gone    \* auxiliary: the packets of chain; those that are freed

parserVars == <<parserPc, packet, line, work, ret, chain, at, callers, kept, gone>>

ParserInit ==
    /\ parserPc = "none" /\ packet = Null /\ line = <<>> /\ work = Null /\ ret = 0
    /\ chain = Null /\ at = Null /\ callers = <<>> /\ kept = <<>> /\ gone = <<>>

\* A field is 0, -1 (unset), or what strtol has read.
Field == {"zero", "unset", "read"}

-----------------------------------------------------------------------------
\* Slips a change to this code could make.

FieldsHalfSet(p) == [p EXCEPT !.code = "unset"] \* the hop count forgotten

-----------------------------------------------------------------------------
Cleared == [code |-> "zero", hop_count |-> "zero", next |-> Null]

\* epsp_packet_new
NewPacket ==
    /\ parserPc = "none" /\ packet = Null
    /\ Len(kept) < MaxChain
    /\ \E b \in Fresh : Malloc(b, Cleared) /\ packet' = b
    /\ UNCHANGED <<parserPc, line, work, ret, chain, at, callers, kept, gone>>

(* validate_epsp_packet_line: the match of the pattern is not looked at *)

CallValidate ==
    /\ parserPc = "none" /\ packet # Null
    /\ line' \in Lines
    /\ \E b \in Fresh : Malloc(b, Text(line')) /\ work' = b
    /\ parserPc' = "validate"
    /\ UNCHANGED <<packet, ret, chain, at, callers, kept, gone>>

Validated ==
    /\ parserPc = "validate"
    /\ ret' = IF Len(heap[work].text) \in 1 .. 3 THEN 0 ELSE 1
    /\ Free({work})
    /\ work' = Null
    /\ parserPc' = "validated"
    /\ UNCHANGED <<packet, line, chain, at, callers, kept, gone>>

-----------------------------------------------------------------------------
(* epsp_packet_parse and parse_internal *)

\* Validated or not: nobody asks.
CallParse ==
    /\ ret' = 0
    /\ \/ parserPc = "none" /\ packet # Null /\ line' \in Lines
       \/ parserPc = "validated" /\ UNCHANGED line
    /\ Store(packet, Cleared)
    /\ parserPc' = "split"
    /\ UNCHANGED <<packet, work, chain, at, callers, kept, gone>>

Split ==
    /\ parserPc = "split"
    /\ \E b \in Fresh : Malloc(b, Text(line)) /\ work' = b
    /\ parserPc' = "free line"
    /\ UNCHANGED <<packet, line, ret, chain, at, callers, kept, gone>>

\* The tokens point into the line that is freed here.
FreeLine ==
    /\ parserPc = "free line"
    /\ Free({work})
    /\ work' = Null
    /\ parserPc' = "tokens"
    /\ UNCHANGED <<packet, line, ret, chain, at, callers, kept, gone>>

\* goto clean past the initialisation of ret.
SkipTokens ==
    /\ parserPc = "tokens"
    /\ line = <<>> \/ Len(line) > 3
    /\ ret' \in {0, 1}
    /\ parserPc' = "clean"
    /\ UNCHANGED <<heap, freedTwice, packet, line, work, chain, at, callers, kept, gone>>

Fields(p) == [p EXCEPT !.code = "unset", !.hop_count = "unset"]

SetFields ==
    /\ parserPc = "tokens"
    /\ Len(line) \in 1 .. 3
    /\ ret' = 0
    /\ Store(packet, Fields(heap[packet]))
    /\ parserPc' = "code"
    /\ UNCHANGED <<packet, line, work, chain, at, callers, kept, gone>>

\* What strtol finds where the token was is whatever free, or another thread
\* that was given the block, has put there: a number or not.
ReadCode ==
    /\ parserPc = "code"
    /\ Store(packet, [heap[packet] EXCEPT !.code = "read"])
    /\ \/ ret' = 1 /\ parserPc' = "clean"
       \/ ret' = 0 /\ parserPc' = IF Len(line) > 1 THEN "hop" ELSE "clean"
    /\ UNCHANGED <<packet, line, work, chain, at, callers, kept, gone>>

ReadHop ==
    /\ parserPc = "hop"
    /\ Store(packet, [heap[packet] EXCEPT !.hop_count = "read"])
    /\ ret' \in {0, 1}
    /\ parserPc' = "clean"
    /\ UNCHANGED <<packet, line, work, chain, at, callers, kept, gone>>

Failed(r) == r # 0

\* A packet that could not be parsed is freed; it is the caller's, who has to
\* know that it is gone.
ParseFails ==
    /\ parserPc = "clean" /\ Failed(ret)
    /\ at' = packet /\ gone' = <<packet>>
    /\ packet' = Null /\ line' = <<>> /\ ret' = 0
    /\ parserPc' = "free"
    /\ UNCHANGED <<heap, freedTwice, work, chain, callers, kept>>

ParseSucceeds ==
    /\ parserPc = "clean" /\ ~Failed(ret)
    /\ ret' = 0
    /\ parserPc' = "parsed"
    /\ UNCHANGED <<heap, freedTwice, packet, line, work, chain, at, callers, kept, gone>>

\* The caller puts the packet in front of those it has.
Keep ==
    /\ parserPc = "parsed"
    /\ Store(packet, [heap[packet] EXCEPT !.next = chain])
    /\ chain' = packet /\ kept' = <<packet>> \o kept
    /\ packet' = Null /\ line' = <<>> /\ ret' = 0
    /\ parserPc' = "none"
    /\ UNCHANGED <<work, at, callers, gone>>

-----------------------------------------------------------------------------
(* parsePacket: a packet of its own kind, with a copy of its data *)

ParsePacket ==
    /\ parserPc = "none" /\ packet = Null
    /\ line' \in Lines /\ Len(line') > 1
    /\ \E b \in Fresh :
          /\ Malloc(b, [code |-> "read", hop_count |-> "read", next |-> Null])
          /\ packet' = b
    /\ parserPc' = "data"
    /\ UNCHANGED <<work, ret, chain, at, callers, kept, gone>>

\* strtoul of a token that is not there: the program ends.
ParsePacketCrashes ==
    /\ parserPc = "none" /\ packet = Null
    /\ line' \in Lines /\ Len(line') < 2
    /\ parserPc' = "crashed"
    /\ UNCHANGED <<heap, freedTwice, packet, work, ret, chain, at, callers, kept, gone>>

CopyData ==
    /\ parserPc = "data"
    /\ IF Len(line) > 2
       THEN \E b \in Fresh : Malloc(b, Text(line[3])) /\ work' = b
       ELSE UNCHANGED <<heap, freedTwice, work>>
    /\ parserPc' = "pack"
    /\ UNCHANGED <<packet, line, ret, chain, at, callers, kept, gone>>

\* The caller frees what it was given.
UsePack ==
    /\ parserPc = "pack"
    /\ Free({packet, work} \ {Null})
    /\ packet' = Null /\ work' = Null /\ line' = <<>>
    /\ parserPc' = "none"
    /\ UNCHANGED <<ret, chain, at, callers, kept, gone>>

-----------------------------------------------------------------------------
(* epsp_packet_free *)

HasNext(b) == heap[b].next # Null

CallFreePacket ==
    /\ parserPc = "none" /\ packet = Null /\ chain # Null
    /\ at' = chain /\ gone' = kept
    /\ chain' = Null /\ kept' = <<>>
    /\ parserPc' = "free"
    /\ UNCHANGED <<heap, freedTwice, packet, line, work, ret, callers>>

\* The packet behind is freed first, by a call from within.
FreeInner ==
    /\ parserPc = "free" /\ HasNext(at)
    /\ Store(at, [heap[at] EXCEPT !.code = "zero", !.hop_count = "zero"])
    /\ callers' = Append(callers, at)
    /\ at' = heap[at].next
    /\ UNCHANGED <<parserPc, packet, line, work, ret, chain, kept, gone>>

\* The call returns to the one that it came from.
FreePacket ==
    /\ parserPc = "free" /\ ~HasNext(at)
    /\ IF callers = <<>>
       THEN /\ Free({at})
            /\ at' = Null
            /\ parserPc' = "none"
            /\ UNCHANGED callers
       ELSE LET caller == callers[Len(callers)]
            IN  /\ heap' = [Restrict(heap, Allocated \ {at}) EXCEPT ![caller].next = Null]
                /\ freedTwice' = (freedTwice \/ at \notin Allocated)
                /\ at' = caller
                /\ callers' = SubSeq(callers, 1, Len(callers) - 1)
                /\ UNCHANGED parserPc
    /\ gone' = SubSeq(gone, 1, Len(gone) - 1)
    /\ UNCHANGED <<packet, line, work, ret, chain, kept>>

-----------------------------------------------------------------------------
ParserNext ==
    \/ NewPacket \/ CallValidate \/ Validated
    \/ CallParse \/ Split \/ FreeLine \/ SkipTokens \/ SetFields \/ ReadCode \/ ReadHop
    \/ ParseFails \/ ParseSucceeds \/ Keep
    \/ ParsePacket \/ ParsePacketCrashes \/ CopyData \/ UsePack
    \/ CallFreePacket \/ FreeInner \/ FreePacket

-----------------------------------------------------------------------------
(* Properties *)

Packets == Range(kept) \cup Range(gone) \cup ({packet} \ {Null})
PacketType == [code : Field, hop_count : Field, next : Blocks \cup {Null}]

ParserTypeOK ==
    /\ {packet, work, chain, at} \subseteq Blocks \cup {Null}
    /\ line \in Seq(Tokens) /\ ret \in {0, 1}
    /\ {kept, gone, callers} \subseteq Seq(Blocks)
    /\ \A b \in Packets : b \in Allocated /\ heap[b] \in PacketType

\* Each packet of the chain leads to the one behind it; of the chain that is
\* freed, the calls of epsp_packet_free hold those in front of the one in at.
PacketsLinked ==
    /\ chain = IF kept = <<>> THEN Null ELSE kept[1]
    /\ \A i \in 1 .. Len(kept) :
          heap[kept[i]].next = IF i = Len(kept) THEN Null ELSE kept[i + 1]
    /\ \A i \in 1 .. Len(gone) :
          heap[gone[i]].next = IF i = Len(gone) THEN Null ELSE gone[i + 1]
    /\ parserPc = "free" <=> gone # <<>>
    /\ IF gone = <<>> THEN at = Null /\ callers = <<>>
       ELSE /\ Len(callers) < Len(gone) /\ at = gone[Len(callers) + 1]
            /\ \A i \in 1 .. Len(callers) : callers[i] = gone[i]

\* What the thread has to free one day: its packets and the line.
ParserOwned == Packets \cup ({work} \ {Null})
PacketsApart ==
    /\ IsInjective(kept) /\ IsInjective(gone)
    /\ Range(kept) \cap Range(gone) = {}
    /\ packet \notin Range(kept) \cup Range(gone)
    /\ work \notin Packets

\* A packet that was parsed has no field that is neither 0 nor read, but for the
\* hop count of a line that has none: a packet without a code comes only of a
\* line of no tokens or of too many.  parsePacket keeps the data of every line
\* that has any.
ParsedFields ==
    /\ parserPc = "parsed" =>
          LET p == heap[packet]
          IN  IF Len(line) \in 1 .. 3
              THEN /\ p.code = "read"
                   /\ p.hop_count = IF Len(line) = 1 THEN "unset" ELSE "read"
              ELSE p = Cleared
    /\ parserPc = "pack" => (work # Null <=> Len(line) > 2)

\* A line of no tokens, or of four or more, is not parsed.
CountRefused ==
    parserPc = "parsed" => Len(line) \in 1 .. 3
=============================================================================
