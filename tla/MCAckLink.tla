------------------------------ MODULE MCAckLink ------------------------------
(* Instances of AckWire for TLC.  Three packets are enough for a number    *)
(* between two gaps, and a list of three numbers for one that arrived       *)
(* twice, for a neighbour that was evicted and for a list filled by         *)
(* retransmissions.                                                         *)
EXTENDS AckWire

\* Ids of two bytes, one that begins with a zero and one that reads as a length.
SomeIds == {<<0, 1>>, <<2, 2>>}
MCHeaders ==
  [type : PacketTypes, version : {-1, 1}, id : SomeIds, source : SomeIds \cup {NoId},
   number : {0, 5, Limit32 - 1, Limit32, Limit32 + 5}]
MCPayloads == {<<>>, <<0, 2, 1, 2, 3, 0, 1>>}

MCDelays == {0, 999, 25001}
=============================================================================
