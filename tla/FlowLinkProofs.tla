---------------------------- MODULE FlowLinkProofs ----------------------------
(***************************************************************************)
(* Credit conservation between the two ends of FlowLink, for every choice  *)
(* of the windows, the streams, the frames and the modes.                  *)
(*                                                                         *)
(* CreditConserved is not inductive alone: an update that would take the   *)
(* sender past MAX_WINDOW_SIZE is dropped, and bytes that do not fit the   *)
(* receiver are refused, and either would break it.  LinkInv adds what     *)
(* excludes both: StreamInv keeps the bytes in flight on an open stream    *)
(* within the receiver's window, also after the sender closed the stream.  *)
(***************************************************************************)
EXTENDS FlowLink, FlowControllerProofs

SendW(s) == WindowOf(snd.send, s)
RecvW(s) == WindowOf(rcv.recv, s)

StreamInv(s) ==
  /\ sendLife[s] = "idle" => recvLife[s] = "idle" /\ wire[s] = 0
  /\ recvLife[s] = "idle" => credit[s] = 0 /\ wire[s] <= StreamWindow
  /\ recvLife[s] = "open" => wire[s] <= RecvW(s)
  /\ sendLife[s] = "open" /\ recvLife[s] = "idle" => SendW(s) + wire[s] = StreamWindow
  /\ sendLife[s] = "open" /\ recvLife[s] = "open" =>
       SendW(s) + wire[s] + credit[s] = RecvW(s)

LinkInv ==
  /\ TypeOK
  /\ ConnectionCreditConserved
  /\ \A s \in Streams : StreamInv(s)

\* The invariant contains the property.
LEMMA LinkInvConserves == LinkInv => CreditConserved
  BY DEF LinkInv, StreamInv, SendW, RecvW, TypeOK,
         CreditConserved, ConnectionCreditConserved, StreamCreditConserved

\* Both ends' windows have the limit as their top.
LEMMA TopIsNat == MaxWindow \in Nat /\ MaxWindow <= MaxWindow
  BY WindowLimits

\* What every step may use about the types.
LEMMA Facts ==
  ASSUME LinkInv
  PROVE  /\ snd \in Controllers(Streams, MaxWindow, MaxWindow)
         /\ rcv \in Controllers(Streams, MaxWindow, MaxWindow)
         /\ snd.connSend \in Nat /\ rcv.connRecv \in Nat
         /\ snd.connSend <= MaxWindow /\ rcv.connRecv <= MaxWindow
         /\ MaxWindow \in Nat /\ StreamWindow \in Window(MaxWindow) /\ ConnWindow \in Window(MaxWindow)
         /\ StreamWindow \in Nat /\ ConnWindow \in Nat
         /\ \A x \in StreamIds : wire[x] \in Nat /\ credit[x] \in Nat
         /\ \A s \in Streams : /\ SendW(s) \in Nat /\ SendW(s) <= MaxWindow
                               /\ RecvW(s) \in Nat /\ RecvW(s) <= MaxWindow
                               /\ s # Connection /\ s \in StreamIds
         /\ Connection \in StreamIds
         /\ snd.connSend + wire[Connection] + credit[Connection] = rcv.connRecv
         /\ Frames \subseteq Nat
<1>1. /\ TypeOK
      /\ snd.connSend + wire[Connection] + credit[Connection] = rcv.connRecv
  BY DEF LinkInv, ConnectionCreditConserved
<1>2. /\ snd.connSend \in Window(MaxWindow) /\ rcv.connRecv \in Window(MaxWindow)
      /\ \A s \in Streams : SendW(s) \in Window(MaxWindow) /\ RecvW(s) \in Window(MaxWindow)
      /\ snd \in Controllers(Streams, MaxWindow, MaxWindow) /\ rcv \in Controllers(Streams, MaxWindow, MaxWindow)
  <2>1. snd \in Controllers(Streams, MaxWindow, MaxWindow) /\ rcv \in Controllers(Streams, MaxWindow, MaxWindow)
    BY <1>1 DEF TypeOK
  <2>2. /\ snd.send \in WindowMaps(Streams, MaxWindow) /\ rcv.recv \in WindowMaps(Streams, MaxWindow)
        /\ snd.connSend \in Window(MaxWindow) /\ rcv.connRecv \in Window(MaxWindow)
    BY <2>1 DEF Controllers
  <2>3. QED
    BY <2>1, <2>2, WindowOfTyped, TopIsNat DEF SendW, RecvW
<1>3. /\ \A x \in StreamIds : wire[x] \in Nat /\ credit[x] \in Nat
      /\ \A s \in Streams : s # Connection /\ s \in StreamIds
      /\ Connection \in StreamIds
  BY <1>1, LinkArguments DEF TypeOK, StreamIds
<1>4. Frames \subseteq Nat
  BY LinkArguments DEF Frames
<1>5. /\ MaxWindow \in Nat /\ StreamWindow \in Window(MaxWindow) /\ ConnWindow \in Window(MaxWindow)
      /\ StreamWindow \in Nat /\ ConnWindow \in Nat
  BY LinkArguments, WindowLimits DEF Window
<1>6. QED
  BY <1>1, <1>2, <1>3, <1>4, <1>5, WindowLimits DEF Window

-----------------------------------------------------------------------------
(* The connection's bytes are the streams' bytes together.  Stream ids are  *)
(* numbers, so the sum can be stated without one: p[k] is what the streams  *)
(* below k have in flight.                                                  *)

SumsUpTo(p) ==
  /\ \A j, k \in Nat : j <= k => p[j] <= p[k]
  /\ \A s \in Streams : p[s] + wire[s] <= p[s + 1]
  /\ \A k \in Nat : p[k] <= wire[Connection]

Summed == \E p \in [Nat -> Nat] : SumsUpTo(p)

\* So no stream has more in flight than the connection.
LEMMA StreamWithinConnection ==
  ASSUME TypeOK, Summed, NEW s \in Streams
  PROVE  wire[s] <= wire[Connection]
<1>1. PICK p \in [Nat -> Nat] : SumsUpTo(p)
  BY DEF Summed
<1>2. s \in Nat /\ s + 1 \in Nat /\ wire[s] \in Nat /\ wire[Connection] \in Nat
  BY LinkArguments DEF TypeOK, StreamIds
<1>3. p[s] \in Nat /\ p[s + 1] \in Nat
  BY <1>2
<1>4. p[s] + wire[s] <= p[s + 1] /\ p[s + 1] <= wire[Connection]
  BY <1>1, <1>2 DEF SumsUpTo
<1> QED
  BY <1>2, <1>3, <1>4

\* Bytes put on the wire, or taken off it, count for the streams above.
LEMMA SummedAfter ==
  ASSUME TypeOK, Summed, NEW s \in Streams, NEW d \in Int, wire[s] + d >= 0,
         wire' = [wire EXCEPT ![s] = @ + d, ![Connection] = @ + d]
  PROVE  Summed'
<1>1. PICK p \in [Nat -> Nat] : SumsUpTo(p)
  BY DEF Summed
<1>2. /\ s \in Nat /\ s + 1 \in Nat /\ s \in StreamIds /\ s # Connection
      /\ Connection \in StreamIds /\ wire \in [StreamIds -> Nat]
      /\ \A t \in Streams : t \in Nat /\ t + 1 \in Nat /\ wire[t] \in Nat
      /\ wire[Connection] \in Nat
  BY LinkArguments DEF TypeOK, StreamIds
<1>3. /\ wire'[s] = wire[s] + d /\ wire'[Connection] = wire[Connection] + d
      /\ \A t \in Streams \ {s} : wire'[t] = wire[t]
  BY <1>2, LinkArguments DEF StreamIds
<1>4. \A k \in Nat : p[k] \in Nat /\ p[k] <= wire[Connection]
  BY <1>1 DEF SumsUpTo
<1>5. \A j, k \in Nat : j <= k => p[j] <= p[k]
  BY <1>1 DEF SumsUpTo
<1>6. \A t \in Streams : p[t] + wire[t] <= p[t + 1]
  BY <1>1 DEF SumsUpTo
<1>7. \A j, k \in Nat : j <= s /\ k > s => p[j] <= p[k] + d
  <2> SUFFICES ASSUME NEW j \in Nat, NEW k \in Nat, j <= s, k > s
               PROVE  p[j] <= p[k] + d
    OBVIOUS
  <2>1. p[j] <= p[s] /\ p[s] + wire[s] <= p[s + 1]
    BY <1>2, <1>5, <1>6
  <2>2. p[s + 1] <= p[k]
    <3>1. s + 1 <= k
      BY <1>2
    <3> QED
      BY <1>2, <1>5, <3>1
  <2>3. /\ p[j] \in Nat /\ p[s] \in Nat /\ p[s + 1] \in Nat /\ p[k] \in Nat
        /\ wire[s] \in Nat
    BY <1>2, <1>4
  <2> QED
    BY <2>1, <2>2, <2>3
<1> DEFINE q == [k \in Nat |-> IF k > s THEN p[k] + d ELSE p[k]]
<1>8. q \in [Nat -> Nat]
  <2>1. ASSUME NEW k \in Nat, k > s PROVE p[k] + d \in Nat
    <3>1. p[s] <= p[k] + d /\ p[s] \in Nat /\ p[k] \in Nat
      BY <1>2, <1>4, <1>7, <2>1
    <3> QED
      BY <3>1
  <2> QED
    BY <1>4, <2>1
<1>9. \A j, k \in Nat : j <= k => q[j] <= q[k]
  <2> SUFFICES ASSUME NEW j \in Nat, NEW k \in Nat, j <= k PROVE q[j] <= q[k]
    OBVIOUS
  <2>1. p[j] \in Nat /\ p[k] \in Nat /\ p[j] <= p[k]
    BY <1>4, <1>5
  <2>2. CASE k > s /\ j <= s
    <3>1. q[j] = p[j] /\ q[k] = p[k] + d
      BY <1>2, <2>2
    <3> QED
      BY <1>7, <2>2, <3>1
  <2>3. CASE j > s
    BY <1>2, <2>1, <2>3
  <2>4. CASE k <= s
    BY <1>2, <2>1, <2>4
  <2> QED
    BY <1>2, <2>2, <2>3, <2>4
<1>10. ASSUME NEW t \in Streams PROVE q[t] + wire'[t] <= q[t + 1]
  <2>1. /\ t \in Nat /\ t + 1 \in Nat /\ wire[t] \in Nat
        /\ p[t] \in Nat /\ p[t + 1] \in Nat /\ p[t] + wire[t] <= p[t + 1]
    BY <1>2, <1>4, <1>6
  <2>2. CASE t = s
    <3>1. q[t] = p[t] /\ q[t + 1] = p[t + 1] + d /\ wire'[t] = wire[t] + d
      BY <1>2, <1>3, <2>1, <2>2
    <3> QED
      BY <2>1, <3>1
  <2>3. CASE t > s
    <3>1. q[t] = p[t] + d /\ q[t + 1] = p[t + 1] + d
      BY <1>2, <2>1, <2>3
    <3>2. wire'[t] = wire[t]
      <4>1. t # s
        BY <1>2, <2>3
      <4> QED
        BY <1>3, <4>1
    <3> QED
      BY <2>1, <3>1, <3>2
  <2>4. CASE t < s
    <3>1. q[t] = p[t] /\ q[t + 1] = p[t + 1]
      BY <1>2, <2>1, <2>4
    <3>2. wire'[t] = wire[t]
      <4>1. t # s
        BY <1>2, <2>4
      <4> QED
        BY <1>3, <4>1
    <3> QED
      BY <2>1, <3>1, <3>2
  <2> QED
    BY <1>2, <2>1, <2>2, <2>3, <2>4
<1>11. ASSUME NEW k \in Nat PROVE q[k] <= wire'[Connection]
  <2>1. CASE k > s
    BY <1>2, <1>3, <1>4, <2>1
  <2>2. CASE k <= s
    <3>1. p[k] <= p[s + 1] + d /\ p[s + 1] <= wire[Connection]
      BY <1>2, <1>4, <1>7, <2>2
    <3>2. q[k] = p[k] /\ p[k] \in Nat /\ p[s + 1] \in Nat
      BY <1>2, <1>4, <2>2
    <3> QED
      BY <1>2, <1>3, <3>1, <3>2
  <2> QED
    BY <1>2, <2>1, <2>2
<1> HIDE DEF q
<1>12. SumsUpTo(q)'
  BY <1>9, <1>10, <1>11 DEF SumsUpTo
<1> QED
  BY <1>8, <1>12 DEF Summed

\* Only sending and delivering change what is in flight.
LEMMA SummedStep == LinkInv /\ Summed /\ [Next]_vars => Summed'
<1> SUFFICES ASSUME LinkInv, Summed, [Next]_vars PROVE Summed'
  OBVIOUS
<1>1. TypeOK /\ \A s \in Streams : wire[s] \in Nat /\ s \in StreamIds /\ s # Connection
  BY Facts DEF LinkInv
<1>2. ASSUME UNCHANGED wire PROVE Summed'
  BY <1>2 DEF Summed, SumsUpTo
<1>3. ASSUME NEW s \in Streams, NEW n \in Frames, Send(s, n) PROVE Summed'
  <2>1. n \in Int /\ n >= 0 /\ wire' = [wire EXCEPT ![s] = @ + n, ![Connection] = @ + n]
    BY <1>3, LinkArguments DEF Send, Frames
  <2>2. wire[s] + n >= 0
    BY <1>1, <2>1
  <2> QED
    BY <1>1, <2>1, <2>2, SummedAfter
<1>4. ASSUME NEW s \in Streams, NEW n \in Frames, Deliver(s, n) PROVE Summed'
  <2>1. /\ n \in Nat /\ -n \in Int /\ n <= wire[s]
        /\ wire' = [wire EXCEPT ![s] = @ - n, ![Connection] = @ - n]
    BY <1>4, LinkArguments DEF Deliver, Frames
  <2>2. /\ wire[s] + (-n) >= 0
        /\ wire' = [wire EXCEPT ![s] = @ + (-n), ![Connection] = @ + (-n)]
    <3>1. wire[s] \in Nat /\ wire[Connection] \in Nat
      BY <1>1 DEF TypeOK, StreamIds
    <3>2. /\ wire[s] - n = wire[s] + (-n) /\ wire[s] + (-n) >= 0
          /\ wire[Connection] - n = wire[Connection] + (-n)
      BY <2>1, <3>1
    <3>3. wire' = [wire EXCEPT ![s] = wire[s] - n, ![Connection] = wire[Connection] - n]
      BY <1>1, <2>1
    <3>4. wire' = [wire EXCEPT ![s] = wire[s] + (-n), ![Connection] = wire[Connection] + (-n)]
      BY <3>2, <3>3, Zenon
    <3> QED
      BY <1>1, <3>2, <3>4
  <2> QED
    BY <1>1, <2>1, <2>2, SummedAfter
<1>5. ASSUME NEW s \in Streams,
             Open(s) \/ CloseSend(s) \/ Accept(s) \/ CloseRecv(s) \/ CleanUp(s)
      PROVE  UNCHANGED wire
  BY <1>5 DEF Open, CloseSend, Accept, CloseRecv, CleanUp
<1>6. ASSUME NEW x \in StreamIds, CreditArrives(x) \/ Poll(x) PROVE UNCHANGED wire
  BY <1>6 DEF CreditArrives, Poll
<1>7. ASSUME UNCHANGED vars PROVE UNCHANGED wire
  BY <1>7 DEF vars
<1> QED
  BY <1>2, <1>3, <1>4, <1>5, <1>6, <1>7 DEF Next

\* What is delivered on a stream was in flight on the connection.
LEMMA DeliveryFits ==
  ASSUME LinkInv, Summed, NEW s \in Streams, NEW n \in Nat, n <= wire[s]
  PROVE  n <= wire[Connection]
<1>1. wire[s] \in Nat /\ wire[Connection] \in Nat
  BY Facts
<1>2. wire[s] <= wire[Connection]
  BY StreamWithinConnection DEF LinkInv
<1> QED
  BY <1>1, <1>2

-----------------------------------------------------------------------------
(* The receiver's grants. *)

\* A full window is above the threshold.
LEMMA WindowHasRoom ==
  /\ ConnWindow > Threshold(ConnWindow) /\ Threshold(ConnWindow) \in Nat
  /\ StreamWindow > Threshold(StreamWindow) /\ Threshold(StreamWindow) \in Nat
<1>1. /\ ConnWindow \in 0 .. U32 - 1 /\ ConnWindow > 0
      /\ StreamWindow \in 0 .. U32 - 1 /\ StreamWindow > 0
  BY LinkArguments, WindowLimits
<1>2. QED
  BY <1>1, ThresholdBounded

\* A grant that fits keeps the controller well typed and adds to one window.
LEMMA GrantedEffect ==
  ASSUME NEW c \in Controllers(Streams, MaxWindow, MaxWindow), NEW x \in StreamIds, NEW inc \in Nat,
         RecvWindow(c, x) + inc <= MaxWindow
  PROVE  LET d == Granted(c, x, inc)
         IN /\ d \in Controllers(Streams, MaxWindow, MaxWindow)
            /\ d.initialConn = c.initialConn /\ d.initialStream = c.initialStream
            /\ x = Connection => d.connRecv = c.connRecv + inc
            /\ x # Connection => d.connRecv = c.connRecv
            /\ \A t : t # x \/ x = Connection => WindowOf(d.recv, t) = WindowOf(c.recv, t)
            /\ x # Connection => WindowOf(d.recv, x) = WindowOf(c.recv, x) + inc
<1> DEFINE d == Granted(c, x, inc)
<1>1. c.connRecv \in Nat /\ WindowOf(c.recv, x) \in Nat
  BY WindowOfTyped, TopIsNat, WindowLimits DEF Controllers, Window
<1>2. CASE inc = 0
  <2>1. d = c
    BY <1>2 DEF Granted
  <2>2. QED
    BY <1>1, <1>2, <2>1
<1>3. CASE inc # 0
  <2> DEFINE e == UpdateRecvWindow(c, x, inc).fc
  <2>1. d = e
    BY <1>3 DEF Granted
  <2>2. x \in Streams \cup {Connection}
    BY DEF StreamIds
  <2>3. /\ e \in Controllers(Streams, MaxWindow, MaxWindow)
        /\ e.initialConn = c.initialConn /\ e.initialStream = c.initialStream
    BY <2>2, UpdateRecvTyped, TopIsNat
  <2>4. /\ x = Connection => e.connRecv = c.connRecv + inc /\ e.recv = c.recv
        /\ x # Connection => /\ e.connRecv = c.connRecv
                             /\ e.recv = Insert(c.recv, x, WindowOf(c.recv, x) + inc)
    BY <2>2, UpdateRecvEffect, TopIsNat
  <2> HIDE DEF e
  <2>5. QED
    BY <2>1, <2>3, <2>4, WindowOfInsert
<1>4. QED
  BY <1>2, <1>3

\* The increment read from the events of a delivery is what is missing to the
\* initial window i when the window w needs an update, and nothing otherwise.
LEMMA AnnouncedValue ==
  ASSUME NEW out, NEW x, NEW w, NEW i, NEW y, NEW v, NEW j, x # y,
         out.events = UpdateNeededIf(w, i, x) \cup UpdateNeededIf(v, j, y)
  PROVE  /\ NeedsWindowUpdate(w, i) => Announced(out, x) = i - w
         /\ ~NeedsWindowUpdate(w, i) => Announced(out, x) = 0
<1>1. CASE NeedsWindowUpdate(w, i)
  <2>1. /\ UpdateNeeded(x, i - w) \in out.events
        /\ \A e \in out.events : e.stream = x => e = UpdateNeeded(x, i - w)
    BY <1>1 DEF UpdateNeededIf, UpdateNeeded, CalculateWindowUpdate
  <2>2. /\ UpdateNeeded(x, i - w).type = "WindowUpdateNeeded"
        /\ UpdateNeeded(x, i - w).stream = x
        /\ UpdateNeeded(x, i - w).increment = i - w
    BY DEF UpdateNeeded
  <2>3. (CHOOSE e \in out.events : e.type = "WindowUpdateNeeded" /\ e.stream = x)
           = UpdateNeeded(x, i - w)
    BY <2>1, <2>2
  <2>4. QED
    BY <1>1, <2>1, <2>2, <2>3 DEF Announced
<1>2. CASE ~NeedsWindowUpdate(w, i)
  <2>1. \A e \in out.events : e.stream # x
    BY <1>2 DEF UpdateNeededIf, UpdateNeeded
  <2>2. QED
    BY <1>2, <2>1 DEF Announced
<1>3. QED
  BY <1>1, <1>2

\* ReceiveEffect for the receiving end.
LEMMA ReceiveOnLink ==
  ASSUME NEW c \in Controllers(Streams, MaxWindow, MaxWindow), NEW s \in Streams,
         NEW n \in Nat, s # Connection, n <= c.connRecv
  PROVE  LET out == ProcessReceivedData(c, s, n)
             d   == out.fc
         IN /\ d.connRecv = c.connRecv - n
            /\ WindowOf(c.recv, s) < n => ~out.ok /\ out.events = {} /\ d.recv = c.recv
            /\ n <= WindowOf(c.recv, s) =>
                 /\ out.ok
                 /\ d.recv = Insert(c.recv, s, WindowOf(c.recv, s) - n)
                 /\ out.events =
                      UpdateNeededIf(c.connRecv - n, c.initialConn, Connection) \cup
                      UpdateNeededIf(WindowOf(c.recv, s) - n, c.initialStream, s)
  BY ReceiveEffect, TopIsNat, Zenon

\* A delivery takes the bytes from the connection, and from the stream if that is
\* open, and whatever the driver grants on top is also put in flight.
LEMMA DeliverEffect ==
  ASSUME LinkInv, NEW s \in Streams, NEW n \in Nat, Deliver(s, n),
         n <= wire[Connection]
  PROVE  /\ rcv' \in Controllers(Streams, MaxWindow, MaxWindow)
         /\ rcv'.initialConn = ConnWindow /\ rcv'.initialStream = StreamWindow
         /\ credit' \in [StreamIds -> Nat]
         /\ rcv'.connRecv - credit'[Connection] = rcv.connRecv - n - credit[Connection]
         /\ \A t \in Streams \ {s} :
              WindowOf(rcv'.recv, t) = RecvW(t) /\ credit'[t] = credit[t]
         /\ n <= RecvW(s) =>
              /\ WindowOf(rcv'.recv, s) - credit'[s] = RecvW(s) - n - credit[s]
              /\ WindowOf(rcv'.recv, s) >= RecvW(s) - n
         /\ rcv'.connRecv <= rcv.connRecv \/ rcv'.connRecv = ConnWindow
         /\ WindowOf(rcv'.recv, s) <= RecvW(s) \/ WindowOf(rcv'.recv, s) = StreamWindow
         /\ mode.driver = "events" /\ n <= RecvW(s) =>
              rcv'.connRecv = ConnWindow \/ rcv'.connRecv > Threshold(ConnWindow)
<1> DEFINE out == ProcessReceivedData(rcv, s, n)
           c   == out.fc
           incS == Announced(out, s)
           incC == Announced(out, Connection)
<1>1. /\ rcv \in Controllers(Streams, MaxWindow, MaxWindow) /\ rcv.connRecv \in Nat /\ RecvW(s) \in Nat
      /\ s # Connection /\ n <= rcv.connRecv
      /\ rcv.initialConn = ConnWindow /\ rcv.initialStream = StreamWindow
      /\ ConnWindow \in Nat /\ StreamWindow \in Nat /\ MaxWindow \in Nat
      /\ ConnWindow <= MaxWindow /\ StreamWindow <= MaxWindow
      /\ rcv.connRecv <= MaxWindow /\ RecvW(s) <= MaxWindow
      /\ credit \in [StreamIds -> Nat]
  <2>1. n <= rcv.connRecv
    BY Facts
  <2>2. TypeOK
    BY DEF LinkInv
  <2>3. QED
    BY <2>1, <2>2, Facts, LinkArguments DEF TypeOK
<1>2. /\ c \in Controllers(Streams, MaxWindow, MaxWindow)
      /\ c.initialConn = ConnWindow /\ c.initialStream = StreamWindow
  BY <1>1, ProcessReceivedTyped, TopIsNat
<1>3. /\ c.connRecv = rcv.connRecv - n
      /\ RecvW(s) < n => ~out.ok /\ out.events = {} /\ c.recv = rcv.recv
      /\ n <= RecvW(s) =>
           /\ c.recv = Insert(rcv.recv, s, RecvW(s) - n)
           /\ out.events = UpdateNeededIf(rcv.connRecv - n, ConnWindow, Connection) \cup
                           UpdateNeededIf(RecvW(s) - n, StreamWindow, s)
  BY <1>1, ReceiveOnLink DEF RecvW
<1>4. /\ \A t \in Streams \ {s} : WindowOf(c.recv, t) = RecvW(t)
      /\ WindowOf(c.recv, s) = IF n <= RecvW(s) THEN RecvW(s) - n ELSE RecvW(s)
  BY <1>1, <1>3, WindowOfInsert DEF RecvW
<1>5. /\ incS \in Nat /\ WindowOf(c.recv, s) + incS <= MaxWindow
      /\ incC \in Nat /\ c.connRecv + incC <= MaxWindow
      /\ incS = 0 \/ WindowOf(c.recv, s) + incS = StreamWindow
      /\ incC = 0 \/ c.connRecv + incC = ConnWindow
      /\ n <= RecvW(s) => c.connRecv + incC = ConnWindow \/ c.connRecv > Threshold(ConnWindow)
  <2>1. CASE RecvW(s) < n
    <3>1. incS = 0 /\ incC = 0
      BY <1>3, <2>1 DEF Announced
    <3> HIDE DEF incS, incC, c
    <3>2. QED
      BY <1>1, <1>3, <1>4, <2>1, <3>1
  <2>2. CASE n <= RecvW(s)
    <3>1. /\ NeedsWindowUpdate(rcv.connRecv - n, ConnWindow) =>
               incC = ConnWindow - (rcv.connRecv - n)
          /\ ~NeedsWindowUpdate(rcv.connRecv - n, ConnWindow) => incC = 0
          /\ NeedsWindowUpdate(RecvW(s) - n, StreamWindow) =>
               incS = StreamWindow - (RecvW(s) - n)
          /\ ~NeedsWindowUpdate(RecvW(s) - n, StreamWindow) => incS = 0
      <4> DEFINE a == rcv.connRecv - n
                 b == RecvW(s) - n
      <4>1. out.events = UpdateNeededIf(a, ConnWindow, Connection) \cup
                         UpdateNeededIf(b, StreamWindow, s)
        BY <1>3, <2>2
      <4>2. s # Connection
        BY <1>1
      <4> HIDE DEF a, b, out
      <4>3. /\ NeedsWindowUpdate(a, ConnWindow) => Announced(out, Connection) = ConnWindow - a
            /\ ~NeedsWindowUpdate(a, ConnWindow) => Announced(out, Connection) = 0
        BY <4>1, <4>2, AnnouncedValue
      <4>4. out.events = UpdateNeededIf(b, StreamWindow, s) \cup
                         UpdateNeededIf(a, ConnWindow, Connection)
        BY <4>1
      <4>5. /\ NeedsWindowUpdate(b, StreamWindow) => Announced(out, s) = StreamWindow - b
            /\ ~NeedsWindowUpdate(b, StreamWindow) => Announced(out, s) = 0
        BY <4>2, <4>4, AnnouncedValue
      <4>6. QED
        BY <4>3, <4>5 DEF a, b
    <3> HIDE DEF incS, incC, c
    <3>2. /\ rcv.connRecv - n \in Nat /\ rcv.connRecv - n <= MaxWindow
          /\ RecvW(s) - n \in Nat /\ RecvW(s) - n <= MaxWindow
          /\ c.connRecv = rcv.connRecv - n /\ WindowOf(c.recv, s) = RecvW(s) - n
      BY <1>1, <1>3, <1>4, <2>2
    <3>3. /\ incC \in Nat /\ c.connRecv + incC <= MaxWindow
          /\ incC = 0 \/ c.connRecv + incC = ConnWindow
          /\ c.connRecv + incC = ConnWindow \/ c.connRecv > Threshold(ConnWindow)
      <4>1. CASE NeedsWindowUpdate(rcv.connRecv - n, ConnWindow)
        <5>1. rcv.connRecv - n <= Threshold(ConnWindow) /\ incC = ConnWindow - (rcv.connRecv - n)
          BY <3>1, <4>1 DEF NeedsWindowUpdate
        <5>2. QED
          BY <1>1, <3>2, <5>1, WindowHasRoom
      <4>2. CASE ~NeedsWindowUpdate(rcv.connRecv - n, ConnWindow)
        <5>1. ~(rcv.connRecv - n <= Threshold(ConnWindow)) /\ incC = 0
          BY <3>1, <4>2 DEF NeedsWindowUpdate
        <5>2. QED
          BY <1>1, <3>2, <5>1, WindowHasRoom
      <4>3. QED
        BY <4>1, <4>2
    <3>4. /\ incS \in Nat /\ WindowOf(c.recv, s) + incS <= MaxWindow
          /\ incS = 0 \/ WindowOf(c.recv, s) + incS = StreamWindow
      <4>1. CASE NeedsWindowUpdate(RecvW(s) - n, StreamWindow)
        <5>1. RecvW(s) - n <= Threshold(StreamWindow) /\ incS = StreamWindow - (RecvW(s) - n)
          BY <3>1, <4>1 DEF NeedsWindowUpdate
        <5>2. QED
          BY <1>1, <3>2, <5>1, WindowHasRoom
      <4>2. CASE ~NeedsWindowUpdate(RecvW(s) - n, StreamWindow)
        BY <1>1, <3>1, <3>2, <4>2
      <4>3. QED
        BY <4>1, <4>2
    <3>5. QED
      BY <3>3, <3>4
  <2>3. QED
    BY <1>1, <2>1, <2>2
<1>6. CASE mode.driver = "poll" /\ rcv' = c /\ UNCHANGED credit
  <2> HIDE DEF c
  <2>1. QED
    BY <1>1, <1>2, <1>3, <1>4, <1>6, LinkArguments DEF StreamIds
<1>7. CASE /\ mode.driver = "events"
           /\ rcv' = Granted(Granted(c, s, incS), Connection, incC)
           /\ credit' = [credit EXCEPT ![s] = @ + incS, ![Connection] = @ + incC]
  <2> DEFINE d == Granted(c, s, incS)
             e == Granted(d, Connection, incC)
  <2> HIDE DEF c, incS, incC
  <2>1. s \in StreamIds /\ Connection \in StreamIds /\ s # Connection
    BY <1>1 DEF StreamIds
  <2>2. RecvWindow(c, s) + incS <= MaxWindow
    BY <1>5, <2>1 DEF RecvWindow
  <2>3. /\ d \in Controllers(Streams, MaxWindow, MaxWindow)
        /\ d.initialConn = ConnWindow /\ d.initialStream = StreamWindow
        /\ d.connRecv = c.connRecv
        /\ \A t : t # s => WindowOf(d.recv, t) = WindowOf(c.recv, t)
        /\ WindowOf(d.recv, s) = WindowOf(c.recv, s) + incS
    BY <1>2, <1>5, <2>1, <2>2, GrantedEffect
  <2> HIDE DEF d
  <2>4. RecvWindow(d, Connection) + incC <= MaxWindow
    BY <1>5, <2>3 DEF RecvWindow
  <2>5. /\ e \in Controllers(Streams, MaxWindow, MaxWindow)
        /\ e.initialConn = ConnWindow /\ e.initialStream = StreamWindow
        /\ e.connRecv = c.connRecv + incC
        /\ \A t : WindowOf(e.recv, t) = WindowOf(d.recv, t)
    BY <1>5, <2>1, <2>3, <2>4, GrantedEffect
  <2>6. rcv' = e
    BY <1>7 DEF d
  <2> HIDE DEF e
  <2>7. /\ credit' \in [StreamIds -> Nat]
        /\ credit'[s] = credit[s] + incS
        /\ credit'[Connection] = credit[Connection] + incC
        /\ \A t \in Streams \ {s} : credit'[t] = credit[t]
    <3>1. /\ credit \in [StreamIds -> Nat] /\ incS \in Nat /\ incC \in Nat
          /\ credit' = [credit EXCEPT ![s] = credit[s] + incS,
                                      ![Connection] = credit[Connection] + incC]
      BY <1>1, <1>5, <1>7, <2>1
    <3>2. \A t \in Streams \ {s} : t \in StreamIds /\ t # s /\ t # Connection
      BY LinkArguments DEF StreamIds
    <3>3. QED
      BY <2>1, <3>1, <3>2
  <2>8. credit[s] \in Nat /\ credit[Connection] \in Nat
    BY <1>1, <2>1
  <2>9. rcv'.connRecv - credit'[Connection] = rcv.connRecv - n - credit[Connection]
    BY <1>1, <1>3, <1>5, <2>5, <2>6, <2>7, <2>8
  <2>10. n <= RecvW(s) =>
           /\ WindowOf(rcv'.recv, s) - credit'[s] = RecvW(s) - n - credit[s]
           /\ WindowOf(rcv'.recv, s) >= RecvW(s) - n
    BY <1>1, <1>4, <1>5, <2>3, <2>5, <2>6, <2>7, <2>8
  <2>11. /\ rcv'.connRecv <= rcv.connRecv \/ rcv'.connRecv = ConnWindow
         /\ WindowOf(rcv'.recv, s) <= RecvW(s) \/ WindowOf(rcv'.recv, s) = StreamWindow
         /\ n <= RecvW(s) => rcv'.connRecv = ConnWindow \/ rcv'.connRecv > Threshold(ConnWindow)
    BY <1>1, <1>3, <1>4, <1>5, <2>3, <2>5, <2>6
  <2>12. QED
    BY <1>4, <2>3, <2>5, <2>6, <2>7, <2>9, <2>10, <2>11
<1>8. QED
  <2>1. \/ /\ mode.driver = "events"
           /\ rcv' = Granted(Granted(c, s, incS), Connection, incC)
           /\ credit' = [credit EXCEPT ![s] = @ + incS, ![Connection] = @ + incC]
        \/ mode.driver = "poll" /\ rcv' = c /\ UNCHANGED credit
    BY <1>1 DEF Deliver
  <2>2. QED
    BY <1>6, <1>7, <2>1

-----------------------------------------------------------------------------
(* Every action keeps the invariant. *)

\* The controllers start with equal connection windows and nothing in flight.
LEMMA InitLink == Init => LinkInv
<1> SUFFICES ASSUME Init PROVE LinkInv
  OBVIOUS
<1>1. /\ ConnWindow \in Window(MaxWindow) /\ StreamWindow \in Window(MaxWindow)
      /\ ConnWindow \in Nat /\ StreamWindow \in Nat
  BY LinkArguments, WindowLimits DEF Window
<1>2. snd \in Controllers(Streams, MaxWindow, MaxWindow) /\ rcv \in Controllers(Streams, MaxWindow, MaxWindow)
  BY <1>1, NewTyped, TopIsNat DEF Init
<1>3. /\ rcv.initialConn = ConnWindow /\ rcv.initialStream = StreamWindow
      /\ snd.initialStream = StreamWindow
      /\ snd.connSend = ConnWindow /\ rcv.connRecv = ConnWindow
  BY DEF Init, NewController
<1>4. TypeOK
  BY <1>2, <1>3 DEF Init, TypeOK
<1>5. ConnectionCreditConserved
  BY <1>1, <1>3 DEF Init, ConnectionCreditConserved, StreamIds
<1>6. ASSUME NEW s \in Streams PROVE StreamInv(s)
  BY <1>1 DEF Init, StreamInv, StreamIds
<1>7. QED
  BY <1>4, <1>5, <1>6 DEF LinkInv

\* A stream is opened with a full window and nothing of it in flight.
LEMMA OpenKeeps ==
  ASSUME LinkInv, NEW s \in Streams, Open(s)
  PROVE  LinkInv'
<1> DEFINE d == InitializeStream(snd, s).fc
<1>1. /\ TypeOK /\ s # Connection /\ s \in Streams \cup {Connection}
      /\ snd.initialStream = StreamWindow /\ snd \in Controllers(Streams, MaxWindow, MaxWindow)
  BY LinkArguments DEF LinkInv, TypeOK
<1>2. /\ d \in Controllers(Streams, MaxWindow, MaxWindow) /\ d.connSend = snd.connSend
      /\ d.initialStream = StreamWindow
  BY <1>1, InitializeStreamTyped, TopIsNat
<1>3. d.send = Insert(snd.send, s, StreamWindow)
  BY <1>1, LifeEffect, TopIsNat
<1>4. /\ snd' = d /\ sendLife[s] = "idle"
      /\ sendLife' = [sendLife EXCEPT ![s] = "open"]
      /\ UNCHANGED <<rcv, recvLife, wire, credit, mode>>
  BY DEF Open
<1> HIDE DEF d
<1>5. TypeOK'
  BY <1>1, <1>2, <1>4 DEF TypeOK
<1>6. ConnectionCreditConserved'
  BY <1>2, <1>4 DEF LinkInv, ConnectionCreditConserved
<1>7. ASSUME NEW t \in Streams PROVE StreamInv(t)'
  <2>1. StreamInv(t) /\ StreamInv(s) /\ StreamWindow \in Nat
    BY LinkArguments DEF LinkInv
  <2>2. /\ SendW(t)' = IF t = s THEN StreamWindow ELSE SendW(t)
        /\ RecvW(t)' = RecvW(t)
    BY <1>3, <1>4, WindowOfInsert DEF SendW, RecvW
  <2>3. sendLife'[t] = IF t = s THEN "open" ELSE sendLife[t]
    BY <1>1, <1>4 DEF TypeOK
  <2>4. QED
    BY <1>4, <2>1, <2>2, <2>3 DEF StreamInv
<1>8. QED
  BY <1>5, <1>6, <1>7 DEF LinkInv

\* Bytes move from the two send windows to the wire.
LEMMA SendKeeps ==
  ASSUME LinkInv, NEW s \in Streams, NEW n \in Frames, Send(s, n)
  PROVE  LinkInv'
<1> DEFINE d == ReserveSendWindow(snd, s, n).fc
<1>1. /\ TypeOK /\ s # Connection /\ s \in Streams \cup {Connection} /\ n \in Nat
      /\ snd.initialStream = StreamWindow /\ snd \in Controllers(Streams, MaxWindow, MaxWindow)
  BY Facts, LinkArguments DEF LinkInv, TypeOK
<1>2. d \in Controllers(Streams, MaxWindow, MaxWindow) /\ d.initialStream = StreamWindow
  BY <1>1, ReserveTyped, TopIsNat
<1>3. /\ n <= SendW(s) /\ d.connSend = snd.connSend - n
      /\ d.send = Insert(snd.send, s, SendW(s) - n)
  BY <1>1, ReserveEffect, TopIsNat DEF Send, SendW
<1>4. /\ snd' = d /\ sendLife[s] = "open"
      /\ wire' = [wire EXCEPT ![s] = @ + n, ![Connection] = @ + n]
      /\ UNCHANGED <<rcv, sendLife, recvLife, credit, mode>>
  BY DEF Send
<1> HIDE DEF d
<1>5. /\ wire \in [StreamIds -> Nat] /\ s \in StreamIds /\ Connection \in StreamIds
      /\ wire[s] \in Nat /\ wire[Connection] \in Nat
  BY <1>1 DEF TypeOK, StreamIds
<1>6. /\ wire' \in [StreamIds -> Nat]
      /\ wire'[s] = wire[s] + n
      /\ wire'[Connection] = wire[Connection] + n
      /\ \A t \in Streams \ {s} : wire'[t] = wire[t]
  <2>1. \A t \in Streams \ {s} : t \in StreamIds /\ t # s /\ t # Connection
    BY LinkArguments DEF StreamIds
  <2>2. QED
    BY <1>1, <1>4, <1>5, <2>1
<1>7. TypeOK'
  BY <1>1, <1>2, <1>4, <1>6 DEF TypeOK
<1>8. ConnectionCreditConserved'
  <2>1. /\ snd.connSend \in Nat /\ rcv.connRecv \in Nat
        /\ credit[Connection] \in Nat
        /\ snd.connSend + wire[Connection] + credit[Connection] = rcv.connRecv
    BY Facts
  <2>2. QED
    BY <1>1, <1>3, <1>4, <1>5, <1>6, <2>1 DEF ConnectionCreditConserved
<1>9. ASSUME NEW t \in Streams PROVE StreamInv(t)'
  <2>1. StreamInv(t) /\ StreamWindow \in Nat
    BY LinkArguments DEF LinkInv
  <2>2. /\ SendW(t)' = IF t = s THEN SendW(s) - n ELSE SendW(t)
        /\ RecvW(t)' = RecvW(t)
        /\ sendLife' = sendLife /\ recvLife' = recvLife /\ credit' = credit
    BY <1>3, <1>4, WindowOfInsert DEF SendW, RecvW
  <2>3. /\ SendW(t) \in Nat /\ RecvW(t) \in Nat /\ wire[t] \in Nat /\ credit[t] \in Nat
    BY Facts
  <2>4. CASE t # s
    <3>1. wire'[t] = wire[t] /\ SendW(t)' = SendW(t)
      BY <1>6, <2>2, <2>4
    <3>2. QED
      BY <2>1, <2>2, <3>1 DEF StreamInv
  <2>5. CASE t = s
    <3>1. /\ wire'[t] = wire[t] + n /\ SendW(t)' = SendW(t) - n
          /\ n <= SendW(t) /\ sendLife[t] = "open"
      BY <1>3, <1>4, <1>6, <2>2, <2>5
    <3>2. QED
      BY <1>1, <2>1, <2>2, <2>3, <3>1 DEF StreamInv
  <2>6. QED
    BY <2>4, <2>5
<1>10. QED
  BY <1>7, <1>8, <1>9 DEF LinkInv

\* A closed sender keeps no window that matters.
LEMMA CloseSendKeeps ==
  ASSUME LinkInv, NEW s \in Streams, CloseSend(s)
  PROVE  LinkInv'
<1> DEFINE d == RemoveStream(snd, s)
<1>1. /\ TypeOK /\ s # Connection /\ s \in Streams \cup {Connection}
      /\ snd.initialStream = StreamWindow /\ snd \in Controllers(Streams, MaxWindow, MaxWindow)
  BY LinkArguments DEF LinkInv, TypeOK
<1>2. /\ d \in Controllers(Streams, MaxWindow, MaxWindow) /\ d.connSend = snd.connSend
      /\ d.initialStream = StreamWindow
  BY <1>1, RemoveStreamTyped, TopIsNat
<1>3. d.send = Remove(snd.send, s)
  BY <1>1, LifeEffect, TopIsNat
<1>4. /\ snd' = d /\ sendLife[s] = "open"
      /\ sendLife' = [sendLife EXCEPT ![s] = "closed"]
      /\ UNCHANGED <<rcv, recvLife, wire, credit, mode>>
  BY DEF CloseSend
<1> HIDE DEF d
<1>5. TypeOK'
  BY <1>1, <1>2, <1>4 DEF TypeOK
<1>6. ConnectionCreditConserved'
  BY <1>2, <1>4 DEF LinkInv, ConnectionCreditConserved
<1>7. ASSUME NEW t \in Streams PROVE StreamInv(t)'
  <2>1. StreamInv(t)
    BY DEF LinkInv
  <2>2. RecvW(t)' = RecvW(t) /\ (t # s => SendW(t)' = SendW(t))
    BY <1>3, <1>4, WindowOfRemove DEF SendW, RecvW
  <2>3. sendLife'[t] = IF t = s THEN "closed" ELSE sendLife[t]
    BY <1>1, <1>4 DEF TypeOK
  <2>4. QED
    BY <1>4, <2>1, <2>2, <2>3 DEF StreamInv
<1>8. QED
  BY <1>5, <1>6, <1>7 DEF LinkInv

\* Credit that arrives on an open stream fits the send window, because it is
\* part of a receive window that fits.
LEMMA CreditKeeps ==
  ASSUME LinkInv, NEW x \in StreamIds, CreditArrives(x)
  PROVE  LinkInv'
<1> DEFINE inc == credit[x]
           d   == UpdateSendWindow(snd, x, inc).fc
<1>1. /\ TypeOK /\ x \in Streams \cup {Connection} /\ inc \in Nat
      /\ snd.initialStream = StreamWindow /\ snd \in Controllers(Streams, MaxWindow, MaxWindow)
  BY Facts DEF LinkInv, TypeOK, StreamIds
<1>2. /\ d \in Controllers(Streams, MaxWindow, MaxWindow) /\ d.initialStream = StreamWindow
      /\ x # Connection => d.connSend = snd.connSend
  BY <1>1, UpdateSendTyped, TopIsNat
<1>3. /\ snd' = d /\ credit[x] > 0
      /\ credit' = [credit EXCEPT ![x] = 0]
      /\ UNCHANGED <<rcv, sendLife, recvLife, wire, mode>>
  BY DEF CreditArrives
<1>4. /\ credit \in [StreamIds -> Nat] /\ credit' \in [StreamIds -> Nat]
      /\ \A t \in StreamIds : credit'[t] = IF t = x THEN 0 ELSE credit[t]
  BY <1>1, <1>3 DEF TypeOK
<1>5. SendWindow(snd, x) + inc <= MaxWindow =>
        /\ x = Connection => d.connSend = snd.connSend + inc /\ d.send = snd.send
        /\ x # Connection => d.send = Insert(snd.send, x, SendW(x) + inc)
  BY <1>1, UpdateSendEffect, TopIsNat DEF SendW
<1>6. \A t \in Streams : t # x => WindowOf(d.send, t) = SendW(t)
  <2>1. /\ SendWindow(snd, x) \in Nat /\ MaxWindow \in Nat
    BY <1>1, Facts DEF SendWindow, SendW
  <2>2. CASE SendWindow(snd, x) + inc <= MaxWindow
    BY <1>1, <1>5, <2>2, WindowOfInsert DEF SendW
  <2>3. CASE ~(SendWindow(snd, x) + inc <= MaxWindow)
    <3>1. SendWindow(snd, x) + inc > MaxWindow
      BY <1>1, <2>1, <2>3
    <3>2. d = snd
      BY <3>1 DEF UpdateSendWindow, Failed
    <3>3. QED
      BY <3>2 DEF SendW
  <2>4. QED
    BY <2>2, <2>3
<1> HIDE DEF d
<1>7. TypeOK'
  BY <1>1, <1>2, <1>3, <1>4 DEF TypeOK
<1>8. ConnectionCreditConserved'
  <2>1. /\ snd.connSend \in Nat /\ rcv.connRecv \in Nat /\ MaxWindow \in Nat
        /\ rcv.connRecv <= MaxWindow /\ Connection \in StreamIds
        /\ credit[Connection] \in Nat /\ wire[Connection] \in Nat
        /\ snd.connSend + wire[Connection] + credit[Connection] = rcv.connRecv
    BY Facts
  <2>2. CASE x = Connection
    <3>1. SendWindow(snd, x) + inc <= MaxWindow
      BY <2>1, <2>2 DEF SendWindow
    <3>2. d.connSend = snd.connSend + inc
      BY <1>5, <2>2, <3>1
    <3>3. QED
      BY <1>3, <1>4, <2>1, <2>2, <3>2 DEF ConnectionCreditConserved
  <2>3. CASE x # Connection
    BY <1>2, <1>3, <1>4, <2>1, <2>3 DEF ConnectionCreditConserved
  <2>4. QED
    BY <2>2, <2>3
<1>9. ASSUME NEW t \in Streams PROVE StreamInv(t)'
  <2>1. /\ StreamInv(t) /\ t \in StreamIds /\ t # Connection
        /\ SendW(t) \in Nat /\ RecvW(t) \in Nat /\ RecvW(t) <= MaxWindow
        /\ wire[t] \in Nat /\ credit[t] \in Nat /\ MaxWindow \in Nat
    BY Facts DEF LinkInv
  <2>2. RecvW(t)' = RecvW(t)
    BY <1>3 DEF RecvW
  <2>3. CASE t # x
    <3>1. SendW(t)' = SendW(t) /\ credit'[t] = credit[t]
      BY <1>3, <1>4, <1>6, <2>1, <2>3 DEF SendW
    <3>2. QED
      BY <1>3, <2>1, <2>2, <3>1 DEF StreamInv
  <2>4. CASE t = x
    <3>1. credit'[t] = 0 /\ credit[t] > 0
      BY <1>3, <1>4, <2>1, <2>4
    <3>2. sendLife[t] = "open" /\ recvLife[t] = "open" => SendW(t)' = SendW(t) + credit[t]
      <4> SUFFICES ASSUME sendLife[t] = "open", recvLife[t] = "open"
                   PROVE  SendW(t)' = SendW(t) + credit[t]
        OBVIOUS
      <4>1. SendW(t) + credit[t] <= MaxWindow
        BY <2>1 DEF StreamInv
      <4>2. SendWindow(snd, x) + inc <= MaxWindow
        BY <2>1, <2>4, <4>1 DEF SendWindow, SendW
      <4>3. d.send = Insert(snd.send, x, SendW(x) + inc)
        BY <1>5, <2>1, <2>4, <4>2
      <4>4. QED
        BY <1>3, <2>4, <4>3, WindowOfInsert DEF SendW
    <3>3. QED
      BY <1>3, <2>1, <2>2, <3>1, <3>2 DEF StreamInv
  <2>5. QED
    BY <2>3, <2>4
<1>10. QED
  BY <1>7, <1>8, <1>9 DEF LinkInv

\* Before it is accepted, a stream has at most one window of bytes in flight.
LEMMA AcceptKeeps ==
  ASSUME LinkInv, NEW s \in Streams, Accept(s)
  PROVE  LinkInv'
<1> DEFINE d == InitializeStream(rcv, s).fc
<1>1. /\ TypeOK /\ s # Connection /\ s \in Streams \cup {Connection}
      /\ rcv.initialStream = StreamWindow /\ rcv.initialConn = ConnWindow
      /\ rcv \in Controllers(Streams, MaxWindow, MaxWindow)
  BY LinkArguments DEF LinkInv, TypeOK
<1>2. /\ d \in Controllers(Streams, MaxWindow, MaxWindow) /\ d.connRecv = rcv.connRecv
      /\ d.initialStream = StreamWindow /\ d.initialConn = ConnWindow
  BY <1>1, InitializeStreamTyped, TopIsNat
<1>3. d.recv = Insert(rcv.recv, s, StreamWindow)
  BY <1>1, LifeEffect, TopIsNat
<1>4. /\ rcv' = d /\ recvLife[s] = "idle"
      /\ recvLife' = [recvLife EXCEPT ![s] = "open"]
      /\ UNCHANGED <<snd, sendLife, wire, credit, mode>>
  BY DEF Accept
<1> HIDE DEF d
<1>5. TypeOK'
  BY <1>1, <1>2, <1>4 DEF TypeOK
<1>6. ConnectionCreditConserved'
  BY <1>2, <1>4 DEF LinkInv, ConnectionCreditConserved
<1>7. ASSUME NEW t \in Streams PROVE StreamInv(t)'
  <2>1. /\ StreamInv(t) /\ SendW(t) \in Nat /\ wire[t] \in Nat
    BY Facts DEF LinkInv
  <2>2. /\ RecvW(t)' = IF t = s THEN StreamWindow ELSE RecvW(t)
        /\ SendW(t)' = SendW(t)
    BY <1>3, <1>4, WindowOfInsert DEF SendW, RecvW
  <2>3. recvLife'[t] = IF t = s THEN "open" ELSE recvLife[t]
    BY <1>1, <1>4 DEF TypeOK
  <2>4. CASE t # s
    BY <1>4, <2>1, <2>2, <2>3, <2>4 DEF StreamInv
  <2>5. CASE t = s
    <3>1. wire[t] > 0
      BY <2>5 DEF Accept
    <3>2. QED
      BY <1>4, <2>1, <2>2, <2>3, <2>5, <3>1 DEF StreamInv
  <2>6. QED
    BY <2>4, <2>5
<1>8. QED
  BY <1>5, <1>6, <1>7 DEF LinkInv

\* A delivery that the stream refuses still moves the connection's credit, and
\* one for an open stream is never refused by the stream.
LEMMA DeliverKeeps ==
  ASSUME LinkInv, NEW s \in Streams, NEW n \in Frames, Deliver(s, n),
         n <= wire[Connection]
  PROVE  LinkInv'
<1>1. /\ TypeOK /\ s # Connection /\ n \in Nat
      /\ s \in StreamIds /\ Connection \in StreamIds
  BY Facts DEF LinkInv
<1>2. /\ rcv' \in Controllers(Streams, MaxWindow, MaxWindow)
      /\ rcv'.initialConn = ConnWindow /\ rcv'.initialStream = StreamWindow
      /\ credit' \in [StreamIds -> Nat]
      /\ rcv'.connRecv - credit'[Connection] = rcv.connRecv - n - credit[Connection]
      /\ \A t \in Streams \ {s} :
           WindowOf(rcv'.recv, t) = RecvW(t) /\ credit'[t] = credit[t]
      /\ n <= RecvW(s) =>
           /\ WindowOf(rcv'.recv, s) - credit'[s] = RecvW(s) - n - credit[s]
           /\ WindowOf(rcv'.recv, s) >= RecvW(s) - n
  BY <1>1, DeliverEffect
<1>3. /\ recvLife[s] # "idle" /\ n <= wire[s]
      /\ wire' = [wire EXCEPT ![s] = @ - n, ![Connection] = @ - n]
      /\ UNCHANGED <<snd, sendLife, recvLife, mode>>
  BY DEF Deliver
<1>4. /\ wire \in [StreamIds -> Nat] /\ wire[s] \in Nat /\ wire[Connection] \in Nat
  BY <1>1 DEF TypeOK
<1>5. /\ wire' \in [StreamIds -> Nat]
      /\ wire'[s] = wire[s] - n
      /\ wire'[Connection] = wire[Connection] - n
      /\ \A t \in Streams \ {s} : wire'[t] = wire[t]
  <2>1. \A t \in Streams \ {s} : t \in StreamIds /\ t # s /\ t # Connection
    BY Facts
  <2>2. wire[s] - n \in Nat /\ wire[Connection] - n \in Nat
    BY <1>1, <1>3, <1>4
  <2>3. wire' = [wire EXCEPT ![s] = wire[s] - n, ![Connection] = wire[Connection] - n]
    BY <1>1, <1>3, <1>4
  <2>4. QED
    BY <1>1, <1>4, <2>1, <2>2, <2>3
<1>6. TypeOK'
  BY <1>1, <1>2, <1>3, <1>5 DEF TypeOK
<1>7. ConnectionCreditConserved'
  <2>1. /\ snd.connSend \in Nat /\ rcv.connRecv \in Nat /\ credit[Connection] \in Nat
        /\ snd.connSend + wire[Connection] + credit[Connection] = rcv.connRecv
    BY Facts
  <2>2. credit'[Connection] \in Nat /\ rcv'.connRecv \in Int
    BY <1>1, <1>2, WindowLimits DEF Controllers, Window
  <2>3. QED
    BY <1>1, <1>2, <1>3, <1>4, <1>5, <2>1, <2>2 DEF ConnectionCreditConserved
<1>8. ASSUME NEW t \in Streams PROVE StreamInv(t)'
  <2>1. /\ StreamInv(t) /\ SendW(t) \in Nat /\ RecvW(t) \in Nat
        /\ wire[t] \in Nat /\ credit[t] \in Nat /\ StreamWindow \in Nat
    BY Facts DEF LinkInv
  <2>2. SendW(t)' = SendW(t) /\ sendLife' = sendLife /\ recvLife' = recvLife
    BY <1>3 DEF SendW
  <2>3. CASE t # s
    <3>1. RecvW(t)' = RecvW(t) /\ credit'[t] = credit[t] /\ wire'[t] = wire[t]
      BY <1>2, <1>5, <2>3 DEF RecvW
    <3>2. QED
      BY <2>1, <2>2, <3>1 DEF StreamInv
  <2>4. CASE t = s /\ recvLife[t] = "open"
    <3>1. n <= RecvW(t)
      BY <1>1, <1>3, <2>1, <2>4 DEF StreamInv
    <3>2. /\ RecvW(t)' - credit'[t] = RecvW(t) - n - credit[t]
          /\ RecvW(t)' >= RecvW(t) - n
          /\ wire'[t] = wire[t] - n
      BY <1>2, <1>5, <2>4, <3>1 DEF RecvW
    <3>3. credit'[t] \in Nat /\ RecvW(t)' \in Nat
      <4>1. rcv'.recv \in WindowMaps(Streams, MaxWindow)
        BY <1>2 DEF Controllers
      <4>2. QED
        BY <1>1, <1>2, <2>4, <4>1, WindowOfTyped, TopIsNat, WindowLimits DEF RecvW, Window
    <3>4. sendLife[t] # "idle"
      BY <2>1, <2>4 DEF StreamInv
    <3>5. QED
      BY <1>1, <2>1, <2>2, <2>4, <3>1, <3>2, <3>3, <3>4 DEF StreamInv
  <2>5. CASE t = s /\ recvLife[t] # "open"
    <3>1. sendLife[t] # "idle" /\ recvLife[t] # "idle"
      BY <1>3, <2>1, <2>5 DEF StreamInv
    <3>2. QED
      BY <2>2, <2>5, <3>1 DEF StreamInv
  <2>6. QED
    BY <2>3, <2>4, <2>5
<1>9. QED
  BY <1>6, <1>7, <1>8 DEF LinkInv

\* The polling driver puts in flight what it adds to its own window.
LEMMA PollKeeps ==
  ASSUME LinkInv, NEW x \in StreamIds, Poll(x)
  PROVE  LinkInv'
<1> DEFINE window == RecvWindow(rcv, x)
           inc    == CalculateWindowUpdate(window, InitialWindow(x))
           d      == UpdateRecvWindow(rcv, x, inc).fc
<1>1. /\ TypeOK /\ x \in Streams \cup {Connection}
      /\ rcv.initialStream = StreamWindow /\ rcv.initialConn = ConnWindow
      /\ rcv \in Controllers(Streams, MaxWindow, MaxWindow) /\ rcv.connRecv \in Nat
      /\ credit \in [StreamIds -> Nat]
  BY Facts DEF LinkInv, TypeOK, StreamIds
<1>2. /\ window <= InitialWindow(x) \div 2 /\ rcv' = d
      /\ credit' = [credit EXCEPT ![x] = @ + inc]
      /\ UNCHANGED <<snd, sendLife, recvLife, wire, mode>>
  BY DEF Poll, NeedsPolledUpdate
<1>3. inc \in Nat /\ window + inc <= MaxWindow
  <2>1. /\ InitialWindow(x) \in Nat /\ InitialWindow(x) <= MaxWindow /\ MaxWindow \in Nat
    BY LinkArguments, WindowLimits DEF InitialWindow
  <2>2. window \in Nat
    BY <1>1, Facts DEF RecvWindow, RecvW
  <2>3. inc = InitialWindow(x) - window /\ window <= InitialWindow(x) \div 2
    BY <1>2 DEF CalculateWindowUpdate
  <2> HIDE DEF inc, window
  <2>4. QED
    BY <2>1, <2>2, <2>3
<1> HIDE DEF inc
<1>4. /\ d \in Controllers(Streams, MaxWindow, MaxWindow)
      /\ d.initialStream = StreamWindow /\ d.initialConn = ConnWindow
  <2>1. rcv \in Controllers(Streams, MaxWindow, MaxWindow) /\ x \in Streams \cup {Connection} /\ inc \in Nat
    BY <1>1, <1>3
  <2>2. /\ d \in Controllers(Streams, MaxWindow, MaxWindow)
        /\ d.initialStream = rcv.initialStream /\ d.initialConn = rcv.initialConn
    BY <2>1, UpdateRecvTyped, TopIsNat
  <2>3. QED
    BY <1>1, <2>2
<1>5. /\ x = Connection => d.connRecv = rcv.connRecv + inc /\ d.recv = rcv.recv
      /\ x # Connection => /\ d.connRecv = rcv.connRecv
                           /\ d.recv = Insert(rcv.recv, x, RecvW(x) + inc)
  BY <1>1, <1>3, UpdateRecvEffect, TopIsNat DEF RecvW
<1> HIDE DEF d, window
<1>6. /\ credit' \in [StreamIds -> Nat]
      /\ \A t \in StreamIds : credit'[t] = IF t = x THEN credit[t] + inc ELSE credit[t]
  BY <1>1, <1>2, <1>3
<1>7. TypeOK'
  BY <1>1, <1>2, <1>4, <1>6 DEF TypeOK
<1>8. ConnectionCreditConserved'
  <2>1. /\ snd.connSend \in Nat /\ Connection \in StreamIds
        /\ credit[Connection] \in Nat /\ wire[Connection] \in Nat
        /\ snd.connSend + wire[Connection] + credit[Connection] = rcv.connRecv
    BY Facts
  <2>2. CASE x = Connection
    BY <1>1, <1>2, <1>3, <1>5, <1>6, <2>1, <2>2 DEF ConnectionCreditConserved
  <2>3. CASE x # Connection
    BY <1>2, <1>5, <1>6, <2>1, <2>3 DEF ConnectionCreditConserved
  <2>4. QED
    BY <2>2, <2>3
<1>9. ASSUME NEW t \in Streams PROVE StreamInv(t)'
  <2>1. /\ StreamInv(t) /\ t \in StreamIds /\ t # Connection
        /\ SendW(t) \in Nat /\ RecvW(t) \in Nat
        /\ wire[t] \in Nat /\ credit[t] \in Nat
    BY Facts DEF LinkInv
  <2>2. /\ SendW(t)' = SendW(t) /\ sendLife' = sendLife
        /\ recvLife' = recvLife /\ wire' = wire
    BY <1>2 DEF SendW
  <2>3. CASE t # x
    <3>1. RecvW(t)' = RecvW(t) /\ credit'[t] = credit[t]
      BY <1>2, <1>5, <1>6, <2>1, <2>3, WindowOfInsert DEF RecvW
    <3>2. QED
      BY <2>1, <2>2, <3>1 DEF StreamInv
  <2>4. CASE t = x
    <3>1. /\ RecvW(t)' = RecvW(t) + inc /\ credit'[t] = credit[t] + inc
      BY <1>2, <1>5, <1>6, <2>1, <2>4, WindowOfInsert DEF RecvW
    <3>2. recvLife[t] # "idle"
      BY <2>1, <2>4 DEF Poll, NeedsPolledUpdate, Listed
    <3>3. QED
      BY <1>3, <2>1, <2>2, <3>1, <3>2 DEF StreamInv
  <2>5. QED
    BY <2>3, <2>4
<1>10. QED
  BY <1>7, <1>8, <1>9 DEF LinkInv

\* Closing or cleaning up a stream at the receiver drops its windows, which no
\* part of the invariant speaks of any more, and keeps the connection's.
LEMMA LeaveKeeps ==
  ASSUME LinkInv, NEW s \in Streams, CloseRecv(s) \/ CleanUp(s)
  PROVE  LinkInv'
<1> DEFINE d == RemoveStream(rcv, s)
<1>1. /\ TypeOK /\ s # Connection /\ s \in Streams \cup {Connection}
      /\ rcv.initialStream = StreamWindow /\ rcv.initialConn = ConnWindow
      /\ rcv \in Controllers(Streams, MaxWindow, MaxWindow)
  BY LinkArguments DEF LinkInv, TypeOK
<1>2. /\ d \in Controllers(Streams, MaxWindow, MaxWindow) /\ d.connRecv = rcv.connRecv
      /\ d.initialStream = StreamWindow /\ d.initialConn = ConnWindow
  BY <1>1, RemoveStreamTyped, TopIsNat
<1>3. d.recv = Remove(rcv.recv, s)
  BY <1>1, LifeEffect, TopIsNat
<1>4. /\ rcv' = d /\ recvLife[s] # "idle"
      /\ UNCHANGED <<snd, sendLife, wire, credit, mode>>
  BY DEF CloseRecv, CleanUp
<1>5. /\ recvLife' \in [Streams -> {"idle", "open", "closed", "gone"}]
      /\ recvLife'[s] \in {"closed", "gone"}
      /\ \A t \in Streams \ {s} : recvLife'[t] = recvLife[t]
  <2>1. PICK l \in {"closed", "gone"} : recvLife' = [recvLife EXCEPT ![s] = l]
    BY DEF CloseRecv, CleanUp
  <2>2. recvLife \in [Streams -> {"idle", "open", "closed", "gone"}]
    BY <1>1 DEF TypeOK
  <2>3. QED
    BY <2>1, <2>2
<1> HIDE DEF d
<1>6. TypeOK'
  BY <1>1, <1>2, <1>4, <1>5 DEF TypeOK
<1>7. ConnectionCreditConserved'
  BY <1>2, <1>4 DEF LinkInv, ConnectionCreditConserved
<1>8. ASSUME NEW t \in Streams PROVE StreamInv(t)'
  <2>1. StreamInv(t)
    BY DEF LinkInv
  <2>2. SendW(t)' = SendW(t) /\ (t # s => RecvW(t)' = RecvW(t))
    BY <1>3, <1>4, WindowOfRemove DEF SendW, RecvW
  <2>3. CASE t # s
    BY <1>4, <1>5, <2>1, <2>2, <2>3 DEF StreamInv
  <2>4. CASE t = s
    BY <1>4, <1>5, <2>1, <2>2, <2>4 DEF StreamInv
  <2>5. QED
    BY <2>3, <2>4
<1>9. QED
  BY <1>6, <1>7, <1>8 DEF LinkInv

-----------------------------------------------------------------------------
(* The theorems. *)

\* Every step of the link, or none, keeps the invariant.
LEMMA StepKeeps == LinkInv /\ Summed /\ [Next]_vars => LinkInv'
<1> SUFFICES ASSUME LinkInv, Summed, [Next]_vars PROVE LinkInv'
  OBVIOUS
<1>1. CASE UNCHANGED vars
  <2>1. TypeOK' /\ ConnectionCreditConserved'
    BY <1>1 DEF LinkInv, vars, TypeOK, ConnectionCreditConserved
  <2>2. ASSUME NEW t \in Streams PROVE StreamInv(t)'
    BY <1>1 DEF LinkInv, vars, StreamInv, SendW, RecvW
  <2>3. QED
    BY <2>1, <2>2 DEF LinkInv
<1>2. ASSUME NEW s \in Streams,
             Open(s) \/ CloseSend(s) \/ Accept(s) \/ CloseRecv(s) \/ CleanUp(s)
      PROVE  LinkInv'
  BY <1>2, OpenKeeps, CloseSendKeeps, AcceptKeeps, LeaveKeeps
<1>3. ASSUME NEW s \in Streams, NEW n \in Frames, Send(s, n) \/ Deliver(s, n)
      PROVE  LinkInv'
  <2>1. n \in Nat /\ (Deliver(s, n) => n <= wire[s])
    BY Facts DEF Deliver
  <2>2. QED
    BY <1>3, <2>1, DeliveryFits, SendKeeps, DeliverKeeps
<1>4. ASSUME NEW x \in StreamIds, CreditArrives(x) \/ Poll(x)
      PROVE  LinkInv'
  BY <1>4, CreditKeeps, PollKeeps
<1>5. QED
  BY <1>1, <1>2, <1>3, <1>4 DEF Next

\* The invariant holds throughout.
LEMMA LinkInvariant == Spec => [](LinkInv /\ Summed)
<1>1. Init => Summed
  <2> SUFFICES ASSUME Init PROVE Summed
    OBVIOUS
  <2>1. \A x \in StreamIds : wire[x] = 0
    BY DEF Init
  <2> DEFINE zero == [k \in Nat |-> 0]
  <2>2. zero \in [Nat -> Nat] /\ \A k \in Nat : zero[k] = 0
    OBVIOUS
  <2> HIDE DEF zero
  <2>3. \A s \in Streams : s \in Nat /\ s + 1 \in Nat /\ wire[s] = 0
    BY <2>1, LinkArguments DEF StreamIds
  <2>4. wire[Connection] = 0
    BY <2>1 DEF StreamIds
  <2>5. SumsUpTo(zero)
    BY <2>2, <2>3, <2>4 DEF SumsUpTo
  <2>6. QED
    BY <2>2, <2>5 DEF Summed
<1>2. QED
  BY <1>1, InitLink, StepKeeps, SummedStep, PTL DEF Spec

\* Both controllers stay well typed however data, grants, closes and resets
\* interleave: no window of either end leaves 0 .. MAX_WINDOW_SIZE.
THEOREM LinkStaysTyped == Spec => []TypeOK
<1>1. LinkInv => TypeOK
  BY DEF LinkInv
<1>2. QED
  BY <1>1, LinkInvariant, PTL

\* Credit is conserved between the peers on the connection, and on every stream
\* that is open at the sender and not yet closed at the receiver.
THEOREM CreditIsConserved == Spec => []CreditConserved
  BY LinkInvariant, LinkInvConserves, PTL

-----------------------------------------------------------------------------
(* What the receiver commits to. *)

Committed == /\ rcv.connRecv <= ConnWindow
             /\ \A s \in Streams : RecvW(s) <= StreamWindow

\* A grant fills a window up to its initial size and no further, and nothing
\* else makes a receive window grow.
LEMMA CommittedStep == LinkInv /\ Summed /\ Committed /\ [Next]_vars => Committed'
<1> SUFFICES ASSUME LinkInv, Summed, Committed, [Next]_vars PROVE Committed'
  OBVIOUS
<1>1. /\ rcv \in Controllers(Streams, MaxWindow, MaxWindow)
      /\ rcv.initialConn = ConnWindow /\ rcv.initialStream = StreamWindow
      /\ rcv.connRecv \in Nat /\ \A t \in Streams : RecvW(t) \in Nat
      /\ ConnWindow \in Nat /\ StreamWindow \in Nat /\ MaxWindow \in Nat
      /\ ConnWindow <= MaxWindow /\ StreamWindow <= MaxWindow
      /\ \A t \in Streams : t # Connection /\ t \in StreamIds
  BY Facts, LinkArguments DEF LinkInv, TypeOK
<1>2. ASSUME UNCHANGED rcv PROVE Committed'
  BY <1>2 DEF Committed, RecvW
<1>3. ASSUME NEW s \in Streams, Accept(s) PROVE Committed'
  <2>1. rcv' = InitializeStream(rcv, s).fc
    BY <1>3 DEF Accept
  <2>2. /\ rcv'.connRecv = rcv.connRecv
        /\ rcv'.recv = Insert(rcv.recv, s, StreamWindow)
    BY <1>1, <2>1, InitializeStreamTyped, LifeEffect, TopIsNat
  <2> QED
    BY <1>1, <2>2, WindowOfInsert DEF Committed, RecvW
<1>4. ASSUME NEW s \in Streams, CloseRecv(s) \/ CleanUp(s) PROVE Committed'
  <2>1. rcv' = RemoveStream(rcv, s)
    BY <1>4 DEF CloseRecv, CleanUp
  <2>2. rcv'.connRecv = rcv.connRecv /\ rcv'.recv = Remove(rcv.recv, s)
    BY <1>1, <2>1, RemoveStreamTyped, LifeEffect, TopIsNat
  <2>3. WindowOf(rcv'.recv, s) = 0
    BY <2>2 DEF WindowOf, Remove
  <2> QED
    BY <1>1, <2>2, <2>3, WindowOfRemove DEF Committed, RecvW
<1>5. ASSUME NEW s \in Streams, NEW n \in Frames, Deliver(s, n) PROVE Committed'
  <2>1. n \in Nat /\ n <= wire[Connection]
    BY <1>5, Facts, DeliveryFits DEF Deliver
  <2>2. /\ rcv' \in Controllers(Streams, MaxWindow, MaxWindow)
        /\ rcv'.connRecv <= rcv.connRecv \/ rcv'.connRecv = ConnWindow
        /\ WindowOf(rcv'.recv, s) <= RecvW(s) \/ WindowOf(rcv'.recv, s) = StreamWindow
        /\ \A t \in Streams \ {s} : WindowOf(rcv'.recv, t) = RecvW(t)
    BY <1>5, <2>1, DeliverEffect
  <2>3. rcv'.connRecv \in Nat /\ WindowOf(rcv'.recv, s) \in Nat
    BY <2>2, WindowOfTyped, TopIsNat, WindowLimits DEF Controllers, Window
  <2> QED
    BY <1>1, <2>2, <2>3 DEF Committed, RecvW
<1>6. ASSUME NEW x \in StreamIds, Poll(x) PROVE Committed'
  <2> DEFINE window == RecvWindow(rcv, x)
             inc    == CalculateWindowUpdate(window, InitialWindow(x))
  <2>1. /\ window <= InitialWindow(x) \div 2
        /\ rcv' = UpdateRecvWindow(rcv, x, inc).fc
    BY <1>6 DEF Poll, NeedsPolledUpdate
  <2>2. window \in Nat /\ InitialWindow(x) \in Nat /\ InitialWindow(x) <= MaxWindow
    BY <1>1 DEF RecvWindow, RecvW, InitialWindow, StreamIds
  <2>3. /\ inc = InitialWindow(x) - window /\ window <= InitialWindow(x) \div 2
        /\ x \in Streams \cup {Connection}
    BY <2>1 DEF CalculateWindowUpdate, StreamIds
  <2> HIDE DEF inc
  <2>4. inc \in Nat /\ window + inc <= MaxWindow /\ window + inc = InitialWindow(x)
    <3> HIDE DEF window
    <3> QED
      BY <1>1, <2>2, <2>3
  <2>5. /\ x = Connection => rcv'.connRecv = rcv.connRecv + inc /\ rcv'.recv = rcv.recv
        /\ x # Connection => /\ rcv'.connRecv = rcv.connRecv
                             /\ rcv'.recv = Insert(rcv.recv, x, RecvW(x) + inc)
    BY <1>1, <2>1, <2>3, <2>4, UpdateRecvEffect, TopIsNat DEF RecvW
  <2>6. CASE x = Connection
    <3>1. window = rcv.connRecv /\ InitialWindow(x) = ConnWindow
      BY <2>6 DEF RecvWindow, InitialWindow
    <3>2. rcv'.connRecv = ConnWindow /\ rcv'.recv = rcv.recv
      BY <2>4, <2>5, <2>6, <3>1
    <3> QED
      BY <1>1, <3>2 DEF Committed, RecvW
  <2>7. CASE x # Connection
    <3>1. window = RecvW(x) /\ InitialWindow(x) = StreamWindow
      BY <2>7 DEF RecvWindow, RecvW, InitialWindow
    <3>2. rcv'.connRecv = rcv.connRecv /\ rcv'.recv = Insert(rcv.recv, x, StreamWindow)
      BY <2>4, <2>5, <2>7, <3>1
    <3> QED
      BY <1>1, <3>2, WindowOfInsert DEF Committed, RecvW
  <2> QED
    BY <2>6, <2>7
<1>7. ASSUME NEW s \in Streams, Open(s) \/ CloseSend(s) PROVE UNCHANGED rcv
  BY <1>7 DEF Open, CloseSend
<1>8. ASSUME NEW s \in Streams, NEW n \in Frames, Send(s, n) PROVE UNCHANGED rcv
  BY <1>8 DEF Send
<1>9. ASSUME NEW x \in StreamIds, CreditArrives(x) PROVE UNCHANGED rcv
  BY <1>9 DEF CreditArrives
<1>10. ASSUME UNCHANGED vars PROVE UNCHANGED rcv
  BY <1>10 DEF vars
<1> QED
  BY <1>2, <1>3, <1>4, <1>5, <1>6, <1>7, <1>8, <1>9, <1>10 DEF Next

\* The receiver never offers to take more than its initial windows, on the
\* connection or on any stream, whichever driver grants the credit.
THEOREM NeverMoreThanInitial == Spec => []NeverOvercommitted
<1>1. Init => Committed
  BY LinkArguments DEF Init, NewController, Committed, RecvW, WindowOf, NoWindows
<1>2. Committed => NeverOvercommitted
  BY LinkArguments DEF Committed, NeverOvercommitted, RecvWindow, RecvW, InitialWindow,
                       StreamIds
<1> QED
  BY <1>1, <1>2, CommittedStep, LinkInvariant, PTL DEF Spec

-----------------------------------------------------------------------------
(* What arrives is taken. *)

\* A peer that keeps to its windows is never refused, on the stream or on the
\* connection: what a stream that is open has in flight fits both.
THEOREM ArrivalsAreTaken == Spec => []NeverRefused
<1>1. LinkInv /\ Summed => NeverRefused
  <2> SUFFICES ASSUME LinkInv, Summed, NEW s \in Streams, NEW n \in Frames,
                      recvLife[s] = "open", n <= wire[s]
               PROVE  ProcessReceivedData(rcv, s, n).ok
    BY DEF NeverRefused
  <2>1. /\ rcv \in Controllers(Streams, MaxWindow, MaxWindow) /\ s # Connection /\ n \in Nat
        /\ wire[s] \in Nat /\ RecvW(s) \in Nat /\ wire[Connection] \in Nat
        /\ credit[Connection] \in Nat /\ snd.connSend \in Nat /\ rcv.connRecv \in Nat
        /\ snd.connSend + wire[Connection] + credit[Connection] = rcv.connRecv
    BY Facts
  <2>2. n <= RecvW(s)
    BY <2>1 DEF LinkInv, StreamInv
  <2>3. n <= rcv.connRecv
    BY <2>1, DeliveryFits
  <2> QED
    BY <2>1, <2>2, <2>3, ReceiveEffect, TopIsNat DEF RecvW
<1> QED
  BY <1>1, LinkInvariant, PTL

-----------------------------------------------------------------------------
(* Credit on the connection. *)

\* What keeps the connection's credit with the event driver: nothing is left in
\* flight for a stream the receiver has dropped, so nothing is refused, and a
\* delivery that is taken grants what is missing.
Generous ==
  mode.driver = "events" =>
    /\ ~mode.abrupt
    /\ rcv.connRecv > Threshold(ConnWindow)
    /\ \A s \in Streams : recvLife[s] \in {"closed", "gone"} =>
                           sendLife[s] = "closed" /\ wire[s] = 0

LEMMA GenerousStep == LinkInv /\ Summed /\ Generous /\ [Next]_vars => Generous'
<1> SUFFICES ASSUME LinkInv, Summed, Generous, [Next]_vars, mode'.driver = "events"
             PROVE  Generous'
  BY DEF Generous
<1>1. /\ TypeOK /\ rcv \in Controllers(Streams, MaxWindow, MaxWindow) /\ ConnWindow \in Nat /\ ConnWindow > 0
      /\ \A t \in Streams : /\ StreamInv(t) /\ t # Connection /\ t \in StreamIds
                            /\ wire[t] \in Nat /\ RecvW(t) \in Nat
  BY Facts, LinkArguments DEF LinkInv
<1>12. ConnWindow > Threshold(ConnWindow)
  BY WindowHasRoom
<1>2. mode' = mode
  BY DEF Next, vars, Open, Send, CloseSend, CreditArrives, Accept, Deliver, Poll,
         CloseRecv, CleanUp
<1>3. /\ mode.driver = "events" /\ ~mode.abrupt /\ rcv.connRecv > Threshold(ConnWindow)
      /\ \A s \in Streams : recvLife[s] \in {"closed", "gone"} =>
                             sendLife[s] = "closed" /\ wire[s] = 0
  BY <1>2 DEF Generous
<1>4. ASSUME UNCHANGED vars PROVE Generous'
  BY <1>3, <1>4 DEF Generous, vars
<1>5. ASSUME NEW s \in Streams, Open(s) \/ CloseSend(s) PROVE Generous'
  BY <1>1, <1>2, <1>3, <1>5 DEF Generous, Open, CloseSend, TypeOK
<1>6. ASSUME NEW s \in Streams, NEW n \in Frames, Send(s, n) PROVE Generous'
  <2>1. /\ sendLife[s] = "open" /\ UNCHANGED <<rcv, sendLife, recvLife, mode>>
        /\ wire' = [wire EXCEPT ![s] = @ + n, ![Connection] = @ + n]
    BY <1>6 DEF Send
  <2>2. \A t \in Streams \ {s} : wire'[t] = wire[t]
    BY <1>1, <2>1 DEF TypeOK
  <2> QED
    BY <1>3, <2>1, <2>2 DEF Generous
<1>7. ASSUME NEW x \in StreamIds, CreditArrives(x) PROVE Generous'
  BY <1>3, <1>7 DEF Generous, CreditArrives
<1>8. ASSUME NEW s \in Streams, Accept(s) PROVE Generous'
  <2>1. rcv'.connRecv = rcv.connRecv
    BY <1>1, <1>8, InitializeStreamTyped, TopIsNat DEF Accept
  <2>2. /\ recvLife' = [recvLife EXCEPT ![s] = "open"]
        /\ UNCHANGED <<sendLife, wire, mode>>
    BY <1>8 DEF Accept
  <2> QED
    BY <1>1, <1>3, <2>1, <2>2 DEF Generous, TypeOK
<1>9. ASSUME NEW s \in Streams, NEW n \in Frames, Deliver(s, n) PROVE Generous'
  <2>1. /\ recvLife[s] # "idle" /\ n <= wire[s] /\ n \in Nat /\ n >= 1
        /\ wire' = [wire EXCEPT ![s] = @ - n, ![Connection] = @ - n]
        /\ UNCHANGED <<sendLife, recvLife, mode>>
    BY <1>9, LinkArguments DEF Deliver, Frames
  <2>2. recvLife[s] = "open"
    BY <1>1, <1>3, <2>1 DEF TypeOK
  <2>3. n <= RecvW(s)
    BY <1>1, <2>1, <2>2 DEF StreamInv
  <2>4. rcv'.connRecv = ConnWindow \/ rcv'.connRecv > Threshold(ConnWindow)
    BY <1>3, <1>9, <2>1, <2>3, DeliveryFits, DeliverEffect
  <2>5. rcv'.connRecv > Threshold(ConnWindow)
    BY <1>12, <2>4
  <2>6. \A t \in Streams \ {s} : wire'[t] = wire[t]
    BY <1>1, <2>1 DEF TypeOK
  <2> QED
    BY <1>3, <2>1, <2>2, <2>5, <2>6 DEF Generous
<1>10. ASSUME NEW x \in StreamIds, Poll(x) PROVE FALSE
  BY <1>3, <1>10 DEF Poll
<1>11. ASSUME NEW s \in Streams, CloseRecv(s) \/ CleanUp(s) PROVE Generous'
  <2>1. rcv' = RemoveStream(rcv, s) /\ UNCHANGED <<sendLife, wire, mode>>
    BY <1>11 DEF CloseRecv, CleanUp
  <2>2. rcv'.connRecv = rcv.connRecv
    BY <1>1, <2>1, RemoveStreamTyped, TopIsNat
  <2>3. sendLife[s] = "closed" /\ wire[s] = 0
    BY <1>3, <1>11 DEF CloseRecv, CleanUp
  <2>4. \A t \in Streams \ {s} : recvLife'[t] = recvLife[t]
    BY <1>1, <1>11 DEF CloseRecv, CleanUp, TypeOK
  <2> QED
    BY <1>3, <2>1, <2>2, <2>3, <2>4 DEF Generous
<1> QED
  BY <1>4, <1>5, <1>6, <1>7, <1>8, <1>9, <1>10, <1>11 DEF Next

\* With nothing in flight and nothing to grant, the sender's credit is what the
\* receiver will take, and the driver has kept that above zero.
LEMMA QuietHasCredit == LinkInv /\ Generous => ConnectionNeverStalls
<1> SUFFICES ASSUME LinkInv, Generous, Quiet PROVE snd.connSend > 0
  BY DEF ConnectionNeverStalls
<1>1. /\ TypeOK /\ snd.connSend \in Nat /\ rcv.connRecv \in Nat
      /\ snd.connSend + wire[Connection] + credit[Connection] = rcv.connRecv
      /\ Connection \in StreamIds /\ ConnWindow \in Nat
  BY Facts DEF LinkInv
<1>2. wire[Connection] = 0 /\ credit[Connection] = 0 /\ NothingToGrant
  BY <1>1 DEF Quiet
<1>3. rcv.connRecv > 0
  <2>1. CASE mode.driver = "events"
    BY <1>1, <2>1, WindowHasRoom DEF Generous
  <2>2. CASE mode.driver = "poll"
    <3>1. ~(rcv.connRecv <= ConnWindow \div 2)
      BY <1>1, <1>2, <2>2
         DEF NothingToGrant, NeedsPolledUpdate, Listed, RecvWindow, InitialWindow
    <3> QED
      BY <1>1, <3>1
  <2>3. mode.driver \in {"events", "poll"}
    BY <1>1, LinkArguments DEF TypeOK, Drivers
  <2> QED
    BY <2>1, <2>2, <2>3
<1> QED
  BY <1>1, <1>2, <1>3

\* The connection is never left without credit for good, unless the receiver
\* grants on events and resets streams whose bytes are still in flight.
THEOREM ConnectionStaysUsable ==
  ASSUME \A m \in Modes : m.driver = "events" => ~m.abrupt
  PROVE  Spec => []ConnectionNeverStalls
<1>1. Init => Generous
  BY LinkArguments, WindowHasRoom DEF Init, NewController, Generous
<1> QED
  BY <1>1, GenerousStep, QuietHasCredit, LinkInvariant, PTL DEF Spec
=============================================================================
