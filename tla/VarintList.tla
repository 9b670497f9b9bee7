----------------------------- MODULE VarintList -----------------------------
(***************************************************************************)
(* A list of numbers on its way through a payload: get_varint_list_size    *)
(* and endodeVariableLengthListOfIntegers on the sending side, the loop of *)
(* parseVersionMessage on the receiving one.  Every loop of the code is an *)
(* action that takes one number.                                           *)
(***************************************************************************)
EXTENDS Varint, Calls

CONSTANTS ListNumbers,      \* the numbers that lists are made of
          MaxLen            \* bound: numbers in a list

ASSUME ListNumbersAssumption == ListNumbers \subseteq Number
ASSUME MaxLenAssumption == MaxLen \in Number

VARIABLES
    taken,      \* the numbers that the running loop has dealt with
    size,       \* the bytes to allocate, as far as they are summed up
    out,        \* the bytes written
    offset,     \* where the sender writes, later the receiver reads, next
    got         \* the numbers read

listVars == <<taken, size, out, offset, got>>

ListCalls ==
    {[f |-> "list", list |-> list] :
        list \in UNION {[1 .. n -> ListNumbers] : n \in 0 .. MaxLen}}

\* memcpy(out + offset, s): what is there already is overwritten, what lies
\* between is whatever malloc left.
Write(at, s) ==
    [k \in 1 .. (IF at + Len(s) > Len(out) THEN at + Len(s) ELSE Len(out)) |->
        IF k \in at + 1 .. at + Len(s) THEN s[k - at]
        ELSE IF k <= Len(out) THEN out[k] ELSE 0]

ListIdle == taken = 0 /\ size = 0 /\ out = <<>> /\ offset = 0 /\ got = <<>>

\* get_varint_list_size
MeasureLength ==
    /\ Called("list")
    /\ size' = get_varint_size(Len(call.list))
    /\ pc' = "size"
    /\ UNCHANGED <<call, taken, out, offset, got>>

Measure ==
    /\ pc = "size"
    /\ taken < Len(call.list)
    /\ size' = size + get_varint_size(call.list[taken + 1])
    /\ taken' = taken + 1
    /\ UNCHANGED <<call, pc, out, offset, got>>

\* endodeVariableLengthListOfIntegers: the length first
EncodeLength ==
    /\ pc = "size"
    /\ taken = Len(call.list)
    /\ out' = Write(0, encodeVarint(Len(call.list)))
    /\ offset' = get_varint_size(Len(call.list))
    /\ pc' = "encode"
    /\ taken' = 0
    /\ UNCHANGED <<call, size, got>>

EncodeNumber ==
    /\ pc = "encode"
    /\ taken < Len(call.list)
    /\ out' = Write(offset, encodeVarint(call.list[taken + 1]))
    /\ offset' = offset + get_varint_size(call.list[taken + 1])
    /\ taken' = taken + 1
    /\ UNCHANGED <<call, pc, size, got>>

\* parseVersionMessage: the count, and memory for that many numbers
DecodeLength ==
    /\ pc = "encode"
    /\ taken = Len(call.list)
    /\ LET count == decodeVarint(out, 1) IN
          /\ offset' = count.size
          /\ taken' = count.value
    /\ pc' = "decode"
    /\ UNCHANGED <<call, size, out, got>>

DecodeNumber ==
    /\ pc = "decode"
    /\ Len(got) < taken
    /\ LET number == decodeVarint(out, offset + 1) IN
          /\ got' = Append(got, number.value)
          /\ offset' = offset + number.size
    /\ UNCHANGED <<call, pc, taken, size, out>>

EndOfList ==
    /\ pc = "decode"
    /\ Len(got) = taken
    /\ Return
    /\ UNCHANGED <<call, listVars>>

ListNext ==
    \/ MeasureLength \/ Measure
    \/ EncodeLength \/ EncodeNumber
    \/ DecodeLength \/ DecodeNumber \/ EndOfList

-----------------------------------------------------------------------------
(* Properties *)

\* Every variable has its type: what is written are bytes, what is read back
\* numbers of 64 bits.
ListTypeOK ==
    /\ taken \in Nat
    /\ size \in Nat
    /\ out \in Seq(Byte)
    /\ offset \in Nat
    /\ got \in Seq(Number)

\* The three loops agree on the size of every number: nothing is written or
\* read outside the block that was measured, and the block is filled.
SizesAgree ==
    /\ pc \in {"encode", "decode"} => Len(out) <= size
    /\ offset <= size
    /\ (pc = "encode" /\ taken = Len(call.list)) => offset = size /\ Len(out) = size
    /\ Returned("list") => offset = size

\* The numbers read are the numbers sent, in their order, whatever their sizes,
\* out of a block that was measured for them and filled.
ListReadsBack ==
    /\ SizesAgree
    /\ pc = "decode" => taken = Len(call.list) /\ got = SubSeq(call.list, 1, Len(got))
    /\ Returned("list") => got = call.list
=============================================================================
