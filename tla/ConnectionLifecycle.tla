------------------------- MODULE ConnectionLifecycle -------------------------
(***************************************************************************)
(* What the two ends of a QUIC connection promise: each goes from its      *)
(* handshake to an open connection to its end and never back, and a client *)
(* is open only if the server it talks to has answered it.                 *)
(***************************************************************************)
VARIABLES
  phase,     \* of each end: "handshake", "open", "done"
  answered   \* the server has answered the client

vars == <<phase, answered>>

Ends == {"client", "server"}

Init ==
  /\ phase = [e \in Ends |-> "handshake"]
  /\ answered = FALSE

\* The server answers a client as long as its own handshake lasts.
Answer ==
  /\ phase["server"] = "handshake"
  /\ answered' = TRUE
  /\ UNCHANGED phase

Open(e) ==
  /\ phase[e] = "handshake"
  /\ e = "client" => answered
  /\ phase' = [phase EXCEPT ![e] = "open"]
  /\ UNCHANGED answered

Finish(e) ==
  /\ phase[e] # "done"
  /\ phase' = [phase EXCEPT ![e] = "done"]
  /\ UNCHANGED answered

Next == Answer \/ \E e \in Ends : Open(e) \/ Finish(e)

Spec == Init /\ [][Next]_vars
=============================================================================
