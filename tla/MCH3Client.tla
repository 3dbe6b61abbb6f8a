----------------------------- MODULE MCH3Client -----------------------------
(* Instance of H3Client for TLC: channels of two messages, and one request  *)
(* more than it takes to fill the task and both channels, and to find them  *)
(* full.                                                                    *)
EXTENDS H3Client
=============================================================================
