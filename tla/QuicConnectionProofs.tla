------------------------- MODULE QuicConnectionProofs -------------------------
(***************************************************************************)
(* Proofs about the two ends of a QuicConnection, for either setting of    *)
(* keep-alive, with and without the client's Handshake packet, and any     *)
(* number of packets between the ends.                                     *)
(***************************************************************************)
EXTENDS QuicConnection, TLAPS

\* A Handshake packet on its way to the client is an answer of the server.
AnswersAreAnswers ==
  \A p \in net : p.to = "client" /\ p.kind = "Handshake" => answered

IInv == TypeOK /\ AnswersAreAnswers

-----------------------------------------------------------------------------
(* What sending and receiving do to the network. *)

LEMMA SendingKeepsTypes ==
  ASSUME NEW e \in Ends, NEW kind \in Kinds, NEW rest, rest \subseteq Packets,
         age \in [Ends -> Ages], SendPacket(e, kind, rest)
  PROVE  /\ age' \in [Ends -> Ages]
         /\ net' \subseteq Packets
         /\ net' \subseteq rest \cup {Outgoing(e, kind)}
<1>1. Outgoing(e, kind) \in Packets
  BY DEF Outgoing, Other, Ends, Packets
<1>2. net' = rest \/ net' = rest \cup {Outgoing(e, kind)}
  BY DEF SendPacket, Sent, NotSent
<1>3. age' = age \/ age' = [age EXCEPT ![e] = "fresh"]
  BY DEF SendPacket, Sent, NotSent, Touch
<1> QED
  BY <1>1, <1>2, <1>3 DEF Ages

\* Looking for packets takes at most one of them away.
LEMMA ReceivingOnlyTakes ==
  ASSUME NEW e \in Ends, NEW before, NEW after, ReceiveNothing(e, before, after)
  PROVE  after \subseteq before
BY DEF ReceiveNothing, RecvFrom

-----------------------------------------------------------------------------
(* The invariant. *)

LEMMA InitInvariant == Init => IInv
<1> SUFFICES ASSUME Init PROVE IInv
  OBVIOUS
<1>1. \A p \in Early : p \in Packets /\ p.to = "server"
  BY DEF Early, Packets, Ends, Kinds
<1>2. net \subseteq Early
  BY DEF Init
<1>3. TypeOK
  BY <1>1, <1>2 DEF Init, TypeOK, States, Ages
<1>4. AnswersAreAnswers
  BY <1>1, <1>2 DEF AnswersAreAnswers
<1> QED
  BY <1>3, <1>4 DEF IInv

\* What a handler leaves behind, whatever the packet was.
LEMMA ProcessPacketStep ==
  ASSUME IInv, NEW e \in Ends, NEW p \in net, ProcessPacket(e, p)
  PROVE  IInv'
<1>1. PICK rest \in {net, net \ {p}} :
        CASE p.kind = "Initial"   -> HandleInitial(e, rest)
          [] p.kind = "Handshake" -> HandleHandshake(e, rest)
          [] p.kind = "Data"      -> HandleData(e, rest)
          [] OTHER                -> Ignore(rest)
  BY DEF ProcessPacket
<1>2. /\ rest \subseteq net
      /\ rest \subseteq Packets
  BY DEF IInv, TypeOK
<1>3. CASE Ignore(rest)
  BY <1>2, <1>3 DEF Ignore, IInv, TypeOK, AnswersAreAnswers
<1>4. CASE HandleInitial(e, rest)
  <2>1. CASE Ignore(rest)
    BY <1>3, <2>1
  <2>2. CASE /\ e = "server" /\ UNCHANGED state
             /\ Sent(e, "Handshake", rest) /\ answered' = TRUE
    <3>1. SendPacket(e, "Handshake", rest)
      BY <2>2 DEF SendPacket
    <3>2. age' \in [Ends -> Ages] /\ net' \subseteq Packets
      BY <3>1, <1>2, SendingKeepsTypes DEF IInv, TypeOK, Kinds
    <3> QED
      BY <2>2, <3>2 DEF IInv, TypeOK, AnswersAreAnswers
  <2>3. CASE UNCHANGED <<state, answered>> /\ NotSent(rest)
    BY <1>2, <2>3 DEF NotSent, IInv, TypeOK, AnswersAreAnswers
  <2> QED
    BY <1>4, <2>1, <2>2, <2>3 DEF HandleInitial
<1>5. CASE HandleHandshake(e, rest)
  <2>1. CASE Ignore(rest)
    BY <1>3, <2>1
  <2>2. CASE /\ Become(e, "Connected") /\ UNCHANGED answered
             /\ SendPacket(e, "Data", rest)
    <3>1. /\ age' \in [Ends -> Ages] /\ net' \subseteq Packets
          /\ net' \subseteq rest \cup {Outgoing(e, "Data")}
      BY <2>2, <1>2, SendingKeepsTypes DEF IInv, TypeOK, Kinds
    <3>2. state' \in [Ends -> States]
      BY <2>2 DEF IInv, TypeOK, Become, States
    <3> QED
      BY <1>2, <2>2, <3>1, <3>2 DEF IInv, TypeOK, AnswersAreAnswers, Outgoing
  <2>3. CASE Become(e, "Connected") /\ UNCHANGED answered /\ NotSent(rest)
    BY <2>2, <2>3 DEF SendPacket
  <2> QED
    BY <1>5, <2>1, <2>2, <2>3 DEF HandleHandshake
<1>6. CASE HandleData(e, rest)
  <2>1. CASE Ignore(rest)
    BY <1>3, <2>1
  <2>2. CASE SendPacket(e, "Ack", rest) /\ UNCHANGED <<state, answered>>
    <3>1. /\ age' \in [Ends -> Ages] /\ net' \subseteq Packets
          /\ net' \subseteq rest \cup {Outgoing(e, "Ack")}
      BY <2>2, <1>2, SendingKeepsTypes DEF IInv, TypeOK, Kinds
    <3> QED
      BY <1>2, <2>2, <3>1 DEF IInv, TypeOK, AnswersAreAnswers, Outgoing
  <2> QED
    BY <1>6, <2>1, <2>2 DEF HandleData
<1> QED
  BY <1>1, <1>3, <1>4, <1>5, <1>6

\* A call that at most looks for packets and sends one that is no answer.
LEMMA OrdinarySend ==
  ASSUME IInv, NEW e \in Ends, NEW kind \in Kinds \ {"Handshake"},
         NEW rest, rest \subseteq net, SendPacket(e, kind, rest),
         state' \in [Ends -> States], UNCHANGED answered
  PROVE  IInv'
<1>1. /\ age' \in [Ends -> Ages] /\ net' \subseteq Packets
      /\ net' \subseteq rest \cup {Outgoing(e, kind)}
  BY SendingKeepsTypes DEF IInv, TypeOK
<1> QED
  BY <1>1 DEF IInv, TypeOK, AnswersAreAnswers, Outgoing

LEMMA MethodStep ==
  ASSUME IInv, NEW e \in Ends,
         \/ AcceptStream(e) \/ RecvDatagram(e)
         \/ SendStreamData(e) \/ SendDatagram(e)
         \/ Close(e) \/ Maintain(e) \/ Age(e)
  PROVE  IInv'
<1>1. CASE AcceptStream(e) \/ RecvDatagram(e)
  <2>1. net' \subseteq net /\ UNCHANGED <<state, age, answered>>
    BY <1>1, ReceivingOnlyTakes DEF AcceptStream, RecvDatagram
  <2> QED
    BY <2>1 DEF IInv, TypeOK, AnswersAreAnswers
<1>2. CASE SendStreamData(e)
  BY <1>2, OrdinarySend DEF SendStreamData, Kinds, IInv, TypeOK
<1>3. CASE SendDatagram(e)
  BY <1>3, OrdinarySend DEF SendDatagram, Kinds, IInv, TypeOK
<1>4. CASE Close(e)
  <2>1. SendPacket(e, "Close", net) /\ UNCHANGED answered
    BY <1>4 DEF Close, SendPacket
  <2>2. state' \in [Ends -> States]
    BY <1>4 DEF Close, Become, States, IInv, TypeOK
  <2> QED
    BY <2>1, <2>2, OrdinarySend DEF Kinds
<1>5. CASE MaintainIdle(e)
  BY <1>5 DEF MaintainIdle, Become, States, IInv, TypeOK, AnswersAreAnswers
<1>6. CASE MaintainQuiet(e)
  <2>1. PICK rest \in SUBSET net : SendPacket(e, "Data", rest)
    BY <1>6 DEF MaintainQuiet, SendPacket
  <2>2. UNCHANGED <<state, answered>>
    BY <1>6 DEF MaintainQuiet
  <2> QED
    BY <2>1, <2>2, OrdinarySend DEF Kinds, IInv, TypeOK
<1>7. CASE MaintainOnly(e)
  <2>1. net' \subseteq net /\ UNCHANGED <<state, age, answered>>
    BY <1>7, ReceivingOnlyTakes DEF MaintainOnly
  <2> QED
    BY <2>1 DEF IInv, TypeOK, AnswersAreAnswers
<1>8. CASE Age(e)
  BY <1>8 DEF Age, Ages, IInv, TypeOK, AnswersAreAnswers
<1> QED
  BY <1>1, <1>2, <1>3, <1>4, <1>5, <1>6, <1>7, <1>8 DEF Maintain

LEMMA InvariantStep == IInv /\ [Next]_vars => IInv'
<1> SUFFICES ASSUME IInv, [Next]_vars PROVE IInv'
  OBVIOUS
<1>1. CASE \E e \in Ends : \E p \in net : ProcessPacket(e, p)
  BY <1>1, ProcessPacketStep
<1>2. CASE \E e \in Ends :
             \/ AcceptStream(e) \/ RecvDatagram(e)
             \/ SendStreamData(e) \/ SendDatagram(e)
             \/ Close(e) \/ Maintain(e) \/ Age(e)
  BY <1>2, MethodStep
<1>3. CASE \E p \in net : Lose(p)
  BY <1>3 DEF Lose, IInv, TypeOK, AnswersAreAnswers
<1>4. CASE UNCHANGED vars
  BY <1>4 DEF vars, IInv, TypeOK, AnswersAreAnswers
<1> QED
  BY <1>1, <1>2, <1>3, <1>4 DEF Next

\* Every reachable state satisfies the invariant.
THEOREM InvariantHolds == Spec => []IInv
BY InitInvariant, InvariantStep, PTL DEF Spec

-----------------------------------------------------------------------------
(* Silence after the end. *)

Silent ==
  \A e \in Ends :
    Done(e) => \A p \in net' \ net : p.to = Other(e) => p.kind = "Close"

\* A step that sends nothing but Close packets, or sends for one end while it is
\* not done.
LEMMA QuietStep ==
  ASSUME NEW e \in Ends, NEW kind, NEW rest, rest \subseteq net,
         net' \subseteq rest \cup {Outgoing(e, kind)},
         kind = "Close" \/ ~Done(e)
  PROVE  Silent
BY DEF Silent, Outgoing, Other, Ends

LEMMA SilentStep ==
  ASSUME IInv, [Next]_vars
  PROVE  Silent
<1>1. ASSUME NEW e \in Ends, NEW p \in net, ProcessPacket(e, p) PROVE Silent
  <2>1. PICK rest \in {net, net \ {p}} :
          \/ Ignore(rest)
          \/ HandleInitial(e, rest) \/ HandleHandshake(e, rest) \/ HandleData(e, rest)
    BY <1>1 DEF ProcessPacket
  <2>2. CASE net' \subseteq rest
    BY <2>1, <2>2 DEF Silent
  <2>3. CASE ~Done(e) /\ \E kind : net' \subseteq rest \cup {Outgoing(e, kind)}
    BY <2>1, <2>3, QuietStep
  <2>4. CASE Ignore(rest)
    BY <2>2, <2>4 DEF Ignore
  <2>5. CASE HandleInitial(e, rest)
    BY <2>2, <2>3, <2>5 DEF HandleInitial, Ignore, Sent, NotSent, Done
  <2>6. CASE HandleHandshake(e, rest)
    BY <2>2, <2>3, <2>6 DEF HandleHandshake, Ignore, SendPacket, Sent, NotSent, Done
  <2>7. CASE HandleData(e, rest)
    BY <2>2, <2>3, <2>7 DEF HandleData, Ignore, SendPacket, Sent, NotSent, Done
  <2> QED
    BY <2>1, <2>4, <2>5, <2>6, <2>7
<1>2. ASSUME NEW e \in Ends, Close(e) PROVE Silent
  BY <1>2, QuietStep DEF Close, Sent, NotSent
<1>3. ASSUME NEW e \in Ends, SendStreamData(e) \/ SendDatagram(e) PROVE Silent
  BY <1>3, QuietStep DEF SendStreamData, SendDatagram, SendPacket, Sent, NotSent, Done
<1>4. ASSUME NEW e \in Ends, Maintain(e) PROVE Silent
  <2>1. CASE MaintainIdle(e)
    BY <2>1 DEF MaintainIdle, Silent
  <2>2. CASE MaintainQuiet(e)
    BY <2>2, QuietStep DEF MaintainQuiet, Sent, NotSent, Done
  <2>3. CASE MaintainOnly(e)
    BY <2>3, ReceivingOnlyTakes DEF MaintainOnly, Silent
  <2> QED
    BY <1>4, <2>1, <2>2, <2>3 DEF Maintain
<1>5. ASSUME NEW e \in Ends, AcceptStream(e) \/ RecvDatagram(e) PROVE Silent
  BY <1>5, ReceivingOnlyTakes DEF AcceptStream, RecvDatagram, Silent
<1>6. CASE net' \subseteq net
  BY <1>6 DEF Silent
<1>7. ASSUME NEW e \in Ends, Age(e) PROVE Silent
  BY <1>6, <1>7 DEF Age
<1>8. ASSUME NEW p \in net, Lose(p) PROVE Silent
  BY <1>6, <1>8 DEF Lose
<1>9. CASE UNCHANGED vars
  BY <1>6, <1>9 DEF vars
<1> QED
  BY <1>1, <1>2, <1>3, <1>4, <1>5, <1>7, <1>8, <1>9 DEF Next

\* An end that began to close or timed out sends nothing but Close packets, for
\* any configuration, whatever arrives and whoever still calls it.
THEOREM DoneStaysSilent == Spec => SilentWhenDone
<1>1. IInv /\ [Next]_vars => Silent
  BY SilentStep
<1> QED
  BY <1>1, InvariantHolds, PTL DEF Spec, SilentWhenDone, Silent

-----------------------------------------------------------------------------
(* The ends implement ConnectionLifecycle. *)

phases == [e \in Ends |->
             CASE state[e] = "Connecting" -> "handshake"
               [] state[e] = "Connected"  -> "open"
               [] OTHER                   -> "done"]

LEMMA InitImplements == Init => Lifecycle!Init
BY DEF Init, Lifecycle!Init, Lifecycle!Ends, Ends

\* A step that changes nobody's state, nor whether the client was answered.
LEMMA StutterImplements ==
  ASSUME UNCHANGED <<state, answered>>
  PROVE  [Lifecycle!Next]_Lifecycle!vars
BY DEF Lifecycle!vars

\* One end establishes its connection, having been answered if it is the client.
LEMMA OpenImplements ==
  ASSUME TypeOK, NEW e \in Ends, state[e] = "Connecting", Become(e, "Connected"),
         e = "client" => answered, UNCHANGED answered
  PROVE  Lifecycle!Next
<1>1. phases[e] = "handshake"
  BY DEF phases
<1>2. phases' = [phases EXCEPT ![e] = "open"]
  BY DEF phases, Become, TypeOK
<1>3. Lifecycle!Open(e)
  BY <1>1, <1>2 DEF Lifecycle!Open, phases
<1> QED
  BY <1>3 DEF Lifecycle!Next, Lifecycle!Ends, Ends

\* One end closes, fails to, or times out: a step, or none if it was done.
LEMMA FinishImplements ==
  ASSUME TypeOK, NEW e \in Ends, NEW s \in {"Closing", "Closed"}, Become(e, s),
         UNCHANGED answered
  PROVE  [Lifecycle!Next]_Lifecycle!vars
<1>1. phases' = [phases EXCEPT ![e] = "done"]
  BY DEF phases, Become, TypeOK
<1>2. CASE phases[e] # "done"
  <2>1. Lifecycle!Finish(e)
    BY <1>1, <1>2 DEF Lifecycle!Finish, phases
  <2> QED
    BY <2>1 DEF Lifecycle!Next, Lifecycle!Ends, Ends
<1>3. CASE phases[e] = "done"
  <2>1. phases' = phases
    BY <1>1, <1>3 DEF phases
  <2> QED
    BY <2>1 DEF Lifecycle!vars, phases
<1> QED
  BY <1>2, <1>3

LEMMA ProcessImplements ==
  ASSUME IInv, NEW e \in Ends, NEW p \in net, ProcessPacket(e, p)
  PROVE  [Lifecycle!Next]_Lifecycle!vars
<1>1. PICK rest \in {net, net \ {p}} :
        CASE p.kind = "Initial"   -> HandleInitial(e, rest)
          [] p.kind = "Handshake" -> HandleHandshake(e, rest)
          [] p.kind = "Data"      -> HandleData(e, rest)
          [] OTHER                -> Ignore(rest)
  BY DEF ProcessPacket
<1>2. p.to = e
  BY DEF ProcessPacket
<1>3. CASE UNCHANGED <<state, answered>>
  BY <1>3, StutterImplements
<1>4. CASE Ignore(rest)
  BY <1>3, <1>4 DEF Ignore
<1>5. CASE p.kind = "Initial" /\ HandleInitial(e, rest)
  <2>1. CASE UNCHANGED state /\ answered' = TRUE /\ state["server"] = "Connecting"
    <3>1. Lifecycle!Answer
      BY <2>1 DEF Lifecycle!Answer, Ends
    <3> QED
      BY <3>1 DEF Lifecycle!Next
  <2> QED
    BY <1>3, <1>5, <2>1 DEF HandleInitial, Ignore
<1>6. CASE p.kind = "Handshake" /\ HandleHandshake(e, rest)
  <2>1. e = "client" => answered
    BY <1>2, <1>6 DEF IInv, AnswersAreAnswers
  <2>2. CASE state[e] = "Connecting" /\ Become(e, "Connected") /\ UNCHANGED answered
    BY <2>1, <2>2, OpenImplements DEF IInv
  <2> QED
    BY <1>4, <1>6, <2>2 DEF HandleHandshake
<1>7. CASE HandleData(e, rest)
  BY <1>3, <1>7 DEF HandleData, Ignore
<1> QED
  BY <1>1, <1>4, <1>5, <1>6, <1>7

LEMMA StepImplements == IInv /\ [Next]_vars => [Lifecycle!Next]_Lifecycle!vars
<1> SUFFICES ASSUME IInv, [Next]_vars PROVE [Lifecycle!Next]_Lifecycle!vars
  OBVIOUS
<1>1. CASE UNCHANGED <<state, answered>>
  BY <1>1, StutterImplements
<1>2. CASE \E e \in Ends : \E p \in net : ProcessPacket(e, p)
  BY <1>2, ProcessImplements
<1>3. CASE \E e \in Ends : Close(e) \/ MaintainIdle(e)
  BY <1>3, FinishImplements DEF Close, MaintainIdle, IInv
<1>4. CASE \E e \in Ends :
             \/ AcceptStream(e) \/ RecvDatagram(e) \/ SendStreamData(e) \/ SendDatagram(e)
             \/ MaintainQuiet(e) \/ MaintainOnly(e) \/ Age(e)
  BY <1>1, <1>4
     DEF AcceptStream, RecvDatagram, SendStreamData, SendDatagram,
         MaintainQuiet, MaintainOnly, Age
<1>5. CASE \E p \in net : Lose(p)
  BY <1>1, <1>5 DEF Lose
<1>6. CASE UNCHANGED vars
  BY <1>1, <1>6 DEF vars
<1> QED
  BY <1>2, <1>3, <1>4, <1>5, <1>6 DEF Next, Maintain

\* The two ends implement ConnectionLifecycle: neither ever goes back, and a client
\* is connected only if the server answered it, for any configuration and network.
THEOREM ImplementsLifecycle == Spec => LifecycleSpec
BY InitImplements, StepImplements, InvariantHolds, PTL
   DEF Spec, LifecycleSpec, Lifecycle!Spec
=============================================================================
