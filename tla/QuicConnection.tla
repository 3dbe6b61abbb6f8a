---------------------------- MODULE QuicConnection ----------------------------
(***************************************************************************)
(* The two ends of a connection of transport/connection.rs: a client made  *)
(* by connect, a server made by new, and the packets between them, which   *)
(* the network loses, repeats and reorders.                                *)
(*                                                                         *)
(* No method of QuicConnection suspends: the socket never blocks, so each  *)
(* call is one step.  Time counts only as far as maintain asks for it: the *)
(* age of last_activity is fresh, quiet (above keep_alive) or idle (above  *)
(* idle_timeout).                                                          *)
(*                                                                         *)
(* process_incoming takes packets from the socket but hands none on, see   *)
(* ReceiveNothing.  Packets reach their handlers through process_packet,   *)
(* called as the unit tests call it.                                       *)
(***************************************************************************)
EXTENDS FiniteSets, Naturals

CONSTANTS KeepAlive,     \* config.keep_alive is set
          PeerFinishes,  \* the client's Handshake packet may reach the server
          MaxInFlight    \* bound on the packets between the ends

ASSUME ConnectionArguments ==
  /\ KeepAlive \in BOOLEAN
  /\ PeerFinishes \in BOOLEAN
  /\ MaxInFlight \in Nat

Ends == {"client", "server"}
Other(e) == IF e = "client" THEN "server" ELSE "client"

States == {"Connecting", "Connected", "Closing", "Closed"}
Ages   == {"fresh", "quiet", "idle"}

\* The first bytes 0x80 to 0x85.
Kinds   == {"Initial", "Handshake", "Data", "Ack", "Datagram", "Close"}
Packets == [to : Ends, kind : Kinds]

VARIABLES
  state,     \* QuicConnection::state of each end
  age,       \* of last_activity
  net,       \* packets in flight or in the socket's queue
  answered   \* history: the server has sent a Handshake packet

vars == <<state, age, net, answered>>

\* connect sends an Initial packet, which may be lost.  Nothing in the code sends
\* a server a Handshake packet, which its handler waits for; with PeerFinishes the
\* client's side does, at any time and as often as the network likes.
Early ==
  {[to |-> "server", kind |-> "Initial"]}
    \cup (IF PeerFinishes THEN {[to |-> "server", kind |-> "Handshake"]} ELSE {})

Init ==
  /\ state = [e \in Ends |-> "Connecting"]
  /\ age = [e \in Ends |-> "fresh"]
  /\ net \in SUBSET Early
  /\ answered = FALSE

-----------------------------------------------------------------------------
Touch(e) == age' = [age EXCEPT ![e] = "fresh"]

Become(e, s) == state' = [state EXCEPT ![e] = s]

Outgoing(e, kind) == [to |-> Other(e), kind |-> kind]

\* send_packet, given what is left in the network: the packet is on its way, or
\* lost, or was dropped because the socket would block, which counts as sent.
Sent(e, kind, rest) ==
  /\ Touch(e)
  /\ \/ net' = rest \cup {Outgoing(e, kind)}
     \/ net' = rest
  /\ Cardinality(net') <= MaxInFlight

\* The socket returns an error: nothing is counted.
NotSent(rest) ==
  /\ net' = rest
  /\ UNCHANGED age

SendPacket(e, kind, rest) == Sent(e, kind, rest) \/ NotSent(rest)

-----------------------------------------------------------------------------
(* Handlers of process_packet.  rest is the network without the packet, or  *)
(* with it when the packet will come again.                                 *)

Ignore(rest) ==
  /\ net' = rest
  /\ UNCHANGED <<state, age, answered>>

\* A server answers and stays Connecting; a client does not care.
HandleInitial(e, rest) ==
  /\ UNCHANGED state
  /\ IF state[e] = "Connecting" /\ e = "server"
     THEN \/ Sent(e, "Handshake", rest) /\ answered' = TRUE
          \/ NotSent(rest) /\ UNCHANGED answered
     ELSE Ignore(rest)

\* Faulty: a Handshake packet establishes a connection in any state.
HandleHandshakeAnyState(e, rest) ==
  /\ Become(e, "Connected")
  /\ IF e = "client" THEN SendPacket(e, "Data", rest) ELSE NotSent(rest)
  /\ UNCHANGED answered

\* The state changes before the client's acknowledgement is sent, and stays
\* changed if sending fails.
HandleHandshake(e, rest) ==
  IF state[e] # "Connecting" THEN Ignore(rest)
  ELSE /\ Become(e, "Connected")
       /\ IF e = "client" THEN SendPacket(e, "Data", rest) ELSE NotSent(rest)
       /\ UNCHANGED answered

\* Faulty: acknowledges whatever the state.
HandleDataAnyState(e, rest) ==
  /\ UNCHANGED <<state, answered>>
  /\ SendPacket(e, "Ack", rest)

HandleData(e, rest) ==
  IF state[e] # "Connected" THEN Ignore(rest)
  ELSE /\ SendPacket(e, "Ack", rest)
       /\ UNCHANGED <<state, answered>>

ProcessPacket(e, p) ==
  /\ p \in net /\ p.to = e
  /\ \E rest \in {net, net \ {p}} :
       CASE p.kind = "Initial"   -> HandleInitial(e, rest)
         [] p.kind = "Handshake" -> HandleHandshake(e, rest)
         [] p.kind = "Data"      -> HandleData(e, rest)
         [] OTHER                -> Ignore(rest)

\* The native socket's recv_from: a packet, or 0 bytes because it would block, or
\* an error.  The placeholder of the wasm build, which reports a byte that it did
\* not read, is left out.
RecvFrom(e, before, after) ==
  \/ after = before
  \/ \E p \in before : p.to = e /\ after = before \ {p}

\* process_incoming clears recv_buffer and passes it to recv_from as a slice of
\* its length, which is 0: a packet that was waiting is taken from the socket,
\* 0 bytes of it are read, and the call returns as if nothing had arrived.
ReceiveNothing(e, before, after) == RecvFrom(e, before, after)

-----------------------------------------------------------------------------
(* The public methods. *)

\* Like the next three, an error unless Connected.  It looks for packets, and
\* makes up a stream.
AcceptStream(e) ==
  /\ state[e] = "Connected"
  /\ ReceiveNothing(e, net, net')
  /\ UNCHANGED <<state, age, answered>>

\* Looks for packets, and returns no datagram.
RecvDatagram(e) ==
  /\ state[e] = "Connected"
  /\ ReceiveNothing(e, net, net')
  /\ UNCHANGED <<state, age, answered>>

SendStreamData(e) ==
  /\ state[e] = "Connected"
  /\ SendPacket(e, "Data", net)
  /\ UNCHANGED <<state, answered>>

SendDatagram(e) ==
  /\ state[e] = "Connected"
  /\ SendPacket(e, "Datagram", net)
  /\ UNCHANGED <<state, answered>>

\* In any state, closed or closing included.
Close(e) ==
  /\ \/ Become(e, "Closed") /\ Sent(e, "Close", net)
     \/ Become(e, "Closing") /\ NotSent(net)
  /\ UNCHANGED answered

\* Faulty: only an established connection times out.
TimesOutConnected(e) == age[e] = "idle" /\ state[e] = "Connected"

TimesOut(e) == age[e] = "idle"

MaintainIdle(e) ==
  /\ TimesOut(e)
  /\ Become(e, "Closed")
  /\ UNCHANGED <<age, net, answered>>

\* A failed keep-alive returns before packets are looked for.
MaintainQuiet(e) ==
  /\ ~TimesOut(e)
  /\ KeepAlive /\ age[e] # "fresh" /\ state[e] = "Connected"
  /\ \/ NotSent(net)
     \/ \E rest \in SUBSET net :
          ReceiveNothing(e, net, rest) /\ Sent(e, "Data", rest)
  /\ UNCHANGED <<state, answered>>

MaintainOnly(e) ==
  /\ ~TimesOut(e)
  /\ ~(KeepAlive /\ age[e] # "fresh" /\ state[e] = "Connected")
  /\ ReceiveNothing(e, net, net')
  /\ UNCHANGED <<state, age, answered>>

Maintain(e) == MaintainIdle(e) \/ MaintainQuiet(e) \/ MaintainOnly(e)

-----------------------------------------------------------------------------
Age(e) ==
  /\ age[e] # "idle"
  /\ age' = [age EXCEPT ![e] = IF @ = "fresh" THEN "quiet" ELSE "idle"]
  /\ UNCHANGED <<state, net, answered>>

Lose(p) ==
  /\ p \in net
  /\ net' = net \ {p}
  /\ UNCHANGED <<state, age, answered>>

Next ==
  \/ \E e \in Ends :
       \/ \E p \in net : ProcessPacket(e, p)
       \/ AcceptStream(e) \/ RecvDatagram(e)
       \/ SendStreamData(e) \/ SendDatagram(e)
       \/ Close(e)
       \/ Maintain(e)
       \/ Age(e)
  \/ \E p \in net : Lose(p)

Spec == Init /\ [][Next]_vars

\* Time passes, and the owner of a connection calls maintain again and again.
Fairness ==
  \A e \in Ends : WF_vars(Age(e)) /\ WF_vars(Maintain(e))

FairSpec == Spec /\ Fairness

-----------------------------------------------------------------------------
(* Properties. *)

TypeOK ==
  /\ state \in [Ends -> States]
  /\ age \in [Ends -> Ages]
  /\ net \subseteq Packets
  /\ answered \in BOOLEAN

\* After it began to close, or timed out, an end sends nothing but Close packets,
\* whatever arrives late and whoever still calls it (handle_data_packet,
\* handle_handshake_packet, maintain's keep-alive).
Done(e) == state[e] \in {"Closing", "Closed"}

SilentWhenDone ==
  [][\A e \in Ends :
       Done(e) => \A p \in net' \ net : p.to = Other(e) => p.kind = "Close"]_vars

\* A client does not wait for its handshake for ever: nothing refreshes the
\* activity of a client that is Connecting, so maintain closes it
\* (maintain, is_timed_out).
ClientSettles == state["client"] = "Connecting" ~> state["client"] # "Connecting"

\* The ends implement ConnectionLifecycle: no late packet, keep-alive, timeout or
\* failed close takes an end back, and no loss or repetition connects a client
\* that was not answered.
Lifecycle ==
  INSTANCE ConnectionLifecycle
    WITH phase <- [e \in Ends |->
                     CASE state[e] = "Connecting" -> "handshake"
                       [] state[e] = "Connected"  -> "open"
                       [] OTHER                   -> "done"]

LifecycleSpec == Lifecycle!Spec
=============================================================================
