---------------------------- MODULE FrameEncoding ----------------------------
(***************************************************************************)
(* What encode_frame of protocol/frame.rs makes of a frame: how many bytes *)
(* the type, the length and the payload take, and the varints in it.  An   *)
(* H3Frame is a record with the fields of its kind.  The bytes of DATA and *)
(* of header blocks are counted, not told apart; QPACK is a stub that      *)
(* encodes every header map as nothing.                                    *)
(***************************************************************************)
EXTENDS Varint

FrameCode(type) ==
  CASE type = "Data" -> 0       [] type = "Headers" -> 1     [] type = "CancelPush" -> 3
    [] type = "Settings" -> 4   [] type = "PushPromise" -> 5 [] type = "Goaway" -> 7
    [] type = "MaxPushId" -> 13

\* The sizes of the varints in a payload: the settings in the order the map
\* gives them, the id of a push or of a stream.
PayloadVarints(frame) ==
  CASE frame.type \in {"Data", "Headers"} -> <<>>
    [] frame.type = "Settings" ->
         [i \in 1 .. 2 * Len(frame.settings) |->
            VarintSize(frame.settings[(i + 1) \div 2][IF i % 2 = 1 THEN 1 ELSE 2])]
    [] OTHER -> <<VarintSize(frame.id)>>

SumOf(sizes) ==
  LET Sum[i \in 0 .. Len(sizes)] == IF i = 0 THEN 0 ELSE sizes[i] + Sum[i - 1]
  IN Sum[Len(sizes)]

\* encode_frame, without a check against the peer's max_frame_size.
EncodeFrame(frame) ==
  LET varints == PayloadVarints(frame)
      len == IF frame.type = "Data" THEN frame.data ELSE SumOf(varints)
  IN [type |-> frame.type, typeLen |-> VarintSize(FrameCode(frame.type)),
      lenLen |-> VarintSize(len), len |-> len, varints |-> varints]
=============================================================================
