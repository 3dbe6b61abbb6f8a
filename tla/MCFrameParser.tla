---------------------------- MODULE MCFrameParser ----------------------------
(* Instances of FrameWire for TLC.  The streams are sequences of two        *)
(* frames that begin with any of ten kinds, and of three with a good or a   *)
(* bad frame in the middle: an empty payload, one at the size limit, one    *)
(* above it, well-formed and malformed varints and settings, an unknown     *)
(* type, and types and lengths written in one byte or two.  The buffer      *)
(* holds one frame at the limit with its header, so it overflows when       *)
(* several frames, or a large chunk, are in it.                             *)
EXTENDS FrameWire

Empty    == EncodeFrame([type |-> "Data", data |-> 0])
Full     == EncodeFrame([type |-> "Data", data |-> 3])
TooLarge == EncodeFrame([type |-> "Data", data |-> 4])
Headers  == EncodeFrame([type |-> "Headers"])
Push     == EncodeFrame([type |-> "MaxPushId", id |-> 1])
Promise  == EncodeFrame([type |-> "PushPromise", id |-> 13])
Settings == EncodeFrame([type |-> "Settings", settings |-> <<<<6, 1>>>>])

\* Frames this encoder would not write.
CutPush     == [type |-> "CancelPush", typeLen |-> 1, lenLen |-> 1, len |-> 1, varints |-> <<2>>]
OddSettings == [type |-> "Settings", typeLen |-> 1, lenLen |-> 2, len |-> 3, varints |-> <<1, 1, 1>>]
Unknown     == [type |-> "Unknown", typeLen |-> 2, lenLen |-> 1, len |-> 1, varints |-> <<1>>]

Kinds == {Empty, Full, TooLarge, Headers, Push, Promise, Settings, CutPush, OddSettings, Unknown}

\* Frames of these kinds, one after the other.
Stream(kinds) ==
  LET Start[i \in 1 .. Len(kinds)] ==
        IF i = 1 THEN 0
        ELSE Start[i - 1] + kinds[i - 1].typeLen + kinds[i - 1].lenLen + kinds[i - 1].len
  IN [i \in 1 .. Len(kinds) |->
        [type |-> kinds[i].type, start |-> Start[i], typeLen |-> kinds[i].typeLen,
         lenLen |-> kinds[i].lenLen, len |-> kinds[i].len, varints |-> kinds[i].varints]]

MCStreams ==
  {Stream(k) : k \in Kinds \X {Full, Push}}
  \cup {Stream(k) : k \in {Push, Empty} \X {Full, CutPush, Unknown} \X {Settings, Empty}}

\* With bytes of eight values: both sides of every limit, and the ends.
MCSamples ==
  0 .. 20 \cup {1022, 1023, 1024, 1025, 5000, 12345, 262143, 262144, 1234567,
                4194302, 4194303, 4194304, 4194305, 9999999, 16777214, 16777215}
=============================================================================
