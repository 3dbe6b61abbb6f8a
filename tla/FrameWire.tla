------------------------------ MODULE FrameWire ------------------------------
(***************************************************************************)
(* The two halves of protocol/frame.rs side by side: the parser, and the   *)
(* encoder whose frames it is to read.                                     *)
(***************************************************************************)
EXTENDS FrameParser, FrameEncoding

\* What the encoder writes is what the parser reads: every length in the current
\* stream, and every sample up to the largest u64, survives write_varint and
\* read_varint, except that a number eight bytes cannot hold silently loses its
\* upper two bits.
NumbersReadBack == VarintsRoundTrip /\ \A f \in Sent : RoundTrips(f.len)
=============================================================================
