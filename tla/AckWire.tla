------------------------------- MODULE AckWire -------------------------------
(***************************************************************************)
(* AckLink over the wire format of transport/packet.rs: what its packets   *)
(* have in front, and the ACK frame in flight, as they are written and     *)
(* read.                                                                   *)
(***************************************************************************)
EXTENDS AckLink, PacketWire

CONSTANTS Headers,    \* packet headers that may be sent
          Payloads,   \* what may follow a header
          Delays      \* ack delays in nanoseconds

ConnectionIds == [1 .. IdLen -> 0 .. Base - 1]

\* A version is a u32, -1 where there is none; a number is a u64.
HeaderSet ==
  [type : PacketTypes, version : {-1} \cup 0 .. Limit32 - 1,
   id : ConnectionIds, source : ConnectionIds \cup {NoId}, number : Nat]

ASSUME WireInputs ==
  /\ Headers \subseteq HeaderSet
  /\ Payloads \subseteq Seq(0 .. Base - 1)
  /\ Delays \subseteq Nat

\* The orders the ranges of an ACK frame may be listed in.
Listings(ranges) ==
  {list \in [1 .. Cardinality(ranges) -> ranges] :
     \A r \in ranges : \E i \in DOMAIN list : list[i] = r}

HeadersReadBack == \A h \in Headers, payload \in Payloads : HeaderReadsBack(h, payload)

\* Headers and the ACK frame in flight survive the wire: the payload begins where
\* the header ends, ids, version and ranges come back, a number comes back modulo
\* 2^32, and so does the type of an Initial, a 1-RTT or a version negotiation
\* packet (the other three lose theirs, see TypesKept); cut anywhere, neither
\* reads as more than is there.
WireReadsBack ==
  /\ HeadersReadBack
  /\ ack # NoAck =>
       \A d \in Delays, list \in Listings(ack.ranges) :
         AckReadsBack([largest |-> ack.largest, delay |-> d, ranges |-> list])
=============================================================================
