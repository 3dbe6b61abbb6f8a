--------------------------- MODULE MCQuicConnection ---------------------------
(* Instance of QuicConnection for TLC: three packets in flight let a late    *)
(* Handshake, a repeated Data and a Close cross each other.                  *)
EXTENDS QuicConnection
=============================================================================
