---------------------------- MODULE MCFlowControl ----------------------------
(* Instance of FlowControl for TLC: two streams, a limit of two bytes      *)
(* (MaxWindow), so that amounts 0 to 2 reach every boundary.  A u32 has    *)
(* five values, of which 3 is not exact as an f32 and rounds to 4.         *)
EXTENDS FlowControl

MCStreams      == {4, 8}
MCAmounts      == 0 .. 2
MCInitialSizes == {0, 2, 3}   \* a resize refuses 0 and 3, new() does not
=============================================================================
