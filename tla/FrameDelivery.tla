---------------------------- MODULE FrameDelivery ----------------------------
(***************************************************************************)
(* What a frame parser promises the application: the frames of a stream    *)
(* reach it in the order the peer sent them and none twice, however the    *)
(* bytes were cut, and a frame is left out only when an error has been     *)
(* reported for the stream.                                                *)
(***************************************************************************)
EXTENDS Naturals, Sequences

CONSTANT Streams   \* the sequences of frames a peer may send on a stream

VARIABLES
  sent,     \* the frames of the current stream
  next,     \* the first of them that is neither handed over nor given up
  handed,   \* the frames the application got
  failed    \* an error has been reported for the stream

vars == <<sent, next, handed, failed>>

NewStream ==
  /\ sent \in Streams
  /\ next = 1
  /\ handed = <<>>
  /\ failed = FALSE

Init == NewStream

HandOver ==
  \E last \in next .. Len(sent) :
    /\ handed' = handed \o SubSeq(sent, next, last)
    /\ next' = last + 1
    /\ UNCHANGED <<sent, failed>>

\* An error: frames up to last are given up, none if last = next - 1.
ReportError ==
  \E last \in next - 1 .. Len(sent) :
    /\ next' = last + 1
    /\ failed' = TRUE
    /\ UNCHANGED <<sent, handed>>

StartOver ==
  /\ sent' \in Streams
  /\ next' = 1
  /\ handed' = <<>>
  /\ failed' = FALSE

Next == HandOver \/ ReportError \/ StartOver

Spec == Init /\ [][Next]_vars
=============================================================================
