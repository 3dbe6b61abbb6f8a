-------------------------- MODULE FlowControlProofs --------------------------
(***************************************************************************)
(* Proofs about FlowControl, for every choice of the limits, the streams,  *)
(* the amounts and the initial sizes.                                      *)
(***************************************************************************)
EXTENDS FlowControl, FlowControllerProofs

-----------------------------------------------------------------------------
(* The behaviours.  TypeOK is inductive as it stands, and ConnectionLedger *)
(* is inductive on top of it.                                              *)

Inv == TypeOK /\ ConnectionLedger

\* What bounds the windows of the controller as it is.
ConnTop   == Limit(fc.initialConn)
StreamTop == Limit(fc.initialStream)

\* Unfolds the type of the controller for the lemmas about its methods.
LEMMA Typed ==
  ASSUME TypeOK
  PROVE  /\ ConnTop \in Nat /\ StreamTop \in Nat
         /\ MaxWindow <= ConnTop /\ MaxWindow <= StreamTop
         /\ fc \in Controllers(Streams, ConnTop, StreamTop)
         /\ fc.initialConn \in 0 .. U32 - 1 /\ fc.initialStream \in 0 .. U32 - 1
<1>1. fc \in Controllers(Streams, ConnTop, StreamTop)
  BY DEF TypeOK, ConnTop, StreamTop
<1>2. fc.initialConn \in Nat /\ fc.initialStream \in Nat
  BY <1>1 DEF Controllers, Window
<1>3. QED
  BY <1>1, <1>2, LimitTyped, WindowLimits DEF TypeOK, ConnTop, StreamTop

\* A call that leaves the initial sizes keeps the type, if it keeps the bounds.
LEMMA StillTyped ==
  ASSUME TypeOK,
         fc' \in Controllers(Streams, ConnTop, StreamTop),
         fc'.initialConn = fc.initialConn, fc'.initialStream = fc.initialStream,
         granted' \in [send : Int, recv : Int]
  PROVE  TypeOK'
  BY DEF TypeOK, ConnTop, StreamTop

\* A resize keeps the type, with the bounds of the new initial sizes.
LEMMA ResizeKeeps ==
  ASSUME TypeOK, NEW conn \in Nat \cup {None}, NEW stream \in Nat \cup {None},
         Resize(conn, stream)
  PROVE  /\ fc'.initialConn < U32 /\ fc'.initialStream < U32
         /\ fc' \in Controllers(Streams, Limit(fc'.initialConn), Limit(fc'.initialStream))
         /\ fc'.totalSent = fc.totalSent
         /\ fc'.totalReceived = fc.totalReceived
<1> DEFINE d == UpdateInitialWindowSizes(fc, conn, stream).fc
<1>1. /\ fc.initialConn \in Nat /\ fc.initialStream \in Nat
      /\ fc.initialConn < U32 /\ fc.initialStream < U32
      /\ fc \in Controllers(Streams, Limit(fc.initialConn), Limit(fc.initialStream))
  BY Typed, WindowLimits DEF ConnTop, StreamTop
<1>2. fc' = d
  BY DEF Resize
<1>3. /\ d \in Controllers(Streams, Limit(d.initialConn), Limit(d.initialStream))
      /\ d.initialConn < U32 /\ d.initialStream < U32
      /\ d.totalSent = fc.totalSent
      /\ d.totalReceived = fc.totalReceived
  BY <1>1, ResizeTyped
<1> HIDE DEF d
<1>4. QED
  BY <1>2, <1>3

LEMMA InitInv == Init => Inv
<1> SUFFICES ASSUME NEW conn \in InitialSizes, NEW stream \in InitialSizes,
                    fc = NewController(conn, stream),
                    granted = [send |-> conn, recv |-> conn]
             PROVE  Inv
  BY DEF Init
<1>1. /\ conn \in Nat /\ conn < U32 /\ stream \in Nat /\ stream < U32
  BY CallerArguments, WindowLimits
<1>2. /\ fc.initialConn = conn /\ fc.initialStream = stream
      /\ fc.connSend + fc.totalSent = conn /\ fc.connRecv + fc.totalReceived = conn
  BY <1>1 DEF NewController
<1>3. fc \in Controllers(Streams, Limit(conn), Limit(stream))
  BY <1>1, LimitTyped, NewTyped
<1>4. QED
  BY <1>1, <1>2, <1>3 DEF Inv, TypeOK, ConnectionLedger

LEMMA NextInv == Inv /\ [Next]_vars => Inv'
<1> SUFFICES ASSUME Inv, [Next]_vars PROVE Inv'
  OBVIOUS
<1>1. /\ TypeOK
      /\ ConnTop \in Nat /\ StreamTop \in Nat
      /\ MaxWindow <= ConnTop /\ MaxWindow <= StreamTop
      /\ fc \in Controllers(Streams, ConnTop, StreamTop)
      /\ fc.initialConn \in 0 .. U32 - 1 /\ fc.initialStream \in 0 .. U32 - 1
      /\ granted \in [send : Int, recv : Int]
      /\ fc.connSend + fc.totalSent = granted.send
      /\ fc.connRecv + fc.totalReceived = granted.recv
  BY Typed DEF Inv, TypeOK, ConnectionLedger
<1>2. ASSUME NEW s \in StreamIds, Initialize(s) PROVE Inv'
  BY <1>1, <1>2, StillTyped, InitializeStreamTyped
     DEF Initialize, StreamIds, Inv, ConnectionLedger
<1>3. ASSUME NEW s \in StreamIds, Forget(s) PROVE Inv'
  BY <1>1, <1>3, StillTyped, RemoveStreamTyped DEF Forget, StreamIds, Inv, ConnectionLedger
<1>4. ASSUME NEW s \in StreamIds, NEW n \in Amounts, Send(s, n) PROVE Inv'
  <2>1. n \in Nat /\ s \in Streams \cup {Connection}
    BY CallerArguments DEF StreamIds
  <2> DEFINE d == ReserveSendWindow(fc, s, n).fc
  <2>2. fc' = d /\ granted' = granted
    BY <1>4 DEF Send
  <2>3. /\ d \in Controllers(Streams, ConnTop, StreamTop)
        /\ d.connSend + d.totalSent = fc.connSend + fc.totalSent
        /\ d.connRecv = fc.connRecv
        /\ d.totalReceived = fc.totalReceived
        /\ d.initialConn = fc.initialConn
        /\ d.initialStream = fc.initialStream
    BY <1>1, <2>1, ReserveTyped
  <2> HIDE DEF d
  <2>4. QED
    BY <1>1, <2>2, <2>3, StillTyped DEF Inv, ConnectionLedger
<1>5. ASSUME NEW s \in StreamIds, NEW n \in Amounts, Receive(s, n) PROVE Inv'
  <2>1. n \in Nat /\ s \in Streams \cup {Connection}
    BY CallerArguments DEF StreamIds
  <2> DEFINE d == ProcessReceivedData(fc, s, n).fc
  <2>2. fc' = d /\ granted' = granted
    BY <1>5 DEF Receive
  <2>3. /\ d \in Controllers(Streams, ConnTop, StreamTop)
        /\ d.connRecv + d.totalReceived = fc.connRecv + fc.totalReceived
        /\ d.connSend = fc.connSend
        /\ d.totalSent = fc.totalSent
        /\ d.initialConn = fc.initialConn
        /\ d.initialStream = fc.initialStream
    BY <1>1, <2>1, ProcessReceivedTyped
  <2> HIDE DEF d
  <2>4. QED
    BY <1>1, <2>2, <2>3, StillTyped DEF Inv, ConnectionLedger
<1>6. ASSUME NEW s \in StreamIds, NEW n \in Amounts, GrantSend(s, n) PROVE Inv'
  <2> DEFINE out == UpdateSendWindow(fc, s, n)
  <2>1. n \in Nat /\ s \in Streams \cup {Connection}
    BY CallerArguments DEF StreamIds
  <2>2. /\ fc' = out.fc
        /\ s = Connection /\ out.ok => granted' = [granted EXCEPT !.send = @ + n]
        /\ ~(s = Connection /\ out.ok) => granted' = granted
    BY <1>6 DEF GrantSend
  <2>3. /\ out.fc \in Controllers(Streams, ConnTop, StreamTop)
        /\ s = Connection /\ out.ok => out.fc.connSend = fc.connSend + n
        /\ ~(s = Connection /\ out.ok) => out.fc.connSend = fc.connSend
        /\ out.fc.connRecv = fc.connRecv
        /\ out.fc.totalSent = fc.totalSent
        /\ out.fc.totalReceived = fc.totalReceived
        /\ out.fc.initialConn = fc.initialConn
        /\ out.fc.initialStream = fc.initialStream
    <3> HIDE DEF out
    <3>1. /\ fc \in Controllers(Streams, ConnTop, StreamTop)
          /\ ConnTop \in Nat /\ StreamTop \in Nat
          /\ MaxWindow <= ConnTop /\ MaxWindow <= StreamTop
      BY <1>1
    <3>2. PICK o : o = UpdateSendWindow(fc, s, n)
      OBVIOUS
    <3>3. /\ o.fc \in Controllers(Streams, ConnTop, StreamTop)
          /\ s = Connection /\ o.ok => o.fc.connSend = fc.connSend + n
          /\ ~(s = Connection /\ o.ok) => o.fc.connSend = fc.connSend
          /\ o.fc.connRecv = fc.connRecv
          /\ o.fc.totalSent = fc.totalSent
          /\ o.fc.totalReceived = fc.totalReceived
          /\ o.fc.initialConn = fc.initialConn
          /\ o.fc.initialStream = fc.initialStream
      BY <2>1, <3>1, <3>2, UpdateSendTyped
    <3> QED
      BY <3>2, <3>3, Zenon DEF out
  <2> HIDE DEF out
  <2>4. CASE s = Connection /\ out.ok
    <3>1. granted' \in [send : Int, recv : Int]
      BY <1>1, <2>1, <2>2, <2>4
    <3>2. QED
      BY <1>1, <2>1, <2>2, <2>3, <2>4, <3>1, StillTyped
         DEF Inv, ConnectionLedger, Controllers, Window
  <2>5. CASE ~(s = Connection /\ out.ok)
    BY <1>1, <2>2, <2>3, <2>5, StillTyped DEF Inv, ConnectionLedger
  <2>6. QED
    BY <2>4, <2>5
<1>7. ASSUME NEW s \in StreamIds, NEW n \in Amounts, GrantRecv(s, n) PROVE Inv'
  <2> DEFINE out == UpdateRecvWindow(fc, s, n)
  <2>1. n \in Nat /\ s \in Streams \cup {Connection}
    BY CallerArguments DEF StreamIds
  <2>2. /\ fc' = out.fc
        /\ s = Connection /\ out.ok => granted' = [granted EXCEPT !.recv = @ + n]
        /\ ~(s = Connection /\ out.ok) => granted' = granted
    BY <1>7 DEF GrantRecv
  <2>3. /\ out.fc \in Controllers(Streams, ConnTop, StreamTop)
        /\ s = Connection /\ out.ok => out.fc.connRecv = fc.connRecv + n
        /\ ~(s = Connection /\ out.ok) => out.fc.connRecv = fc.connRecv
        /\ out.fc.connSend = fc.connSend
        /\ out.fc.totalSent = fc.totalSent
        /\ out.fc.totalReceived = fc.totalReceived
        /\ out.fc.initialConn = fc.initialConn
        /\ out.fc.initialStream = fc.initialStream
    <3> HIDE DEF out
    <3>1. /\ fc \in Controllers(Streams, ConnTop, StreamTop)
          /\ ConnTop \in Nat /\ StreamTop \in Nat
          /\ MaxWindow <= ConnTop /\ MaxWindow <= StreamTop
      BY <1>1
    <3>2. PICK o : o = UpdateRecvWindow(fc, s, n)
      OBVIOUS
    <3>3. /\ o.fc \in Controllers(Streams, ConnTop, StreamTop)
          /\ s = Connection /\ o.ok => o.fc.connRecv = fc.connRecv + n
          /\ ~(s = Connection /\ o.ok) => o.fc.connRecv = fc.connRecv
          /\ o.fc.connSend = fc.connSend
          /\ o.fc.totalSent = fc.totalSent
          /\ o.fc.totalReceived = fc.totalReceived
          /\ o.fc.initialConn = fc.initialConn
          /\ o.fc.initialStream = fc.initialStream
      BY <2>1, <3>1, <3>2, UpdateRecvTyped
    <3> QED
      BY <3>2, <3>3, Zenon DEF out
  <2> HIDE DEF out
  <2>4. CASE s = Connection /\ out.ok
    <3>1. granted' \in [send : Int, recv : Int]
      BY <1>1, <2>1, <2>2, <2>4
    <3>2. QED
      BY <1>1, <2>1, <2>2, <2>3, <2>4, <3>1, StillTyped
         DEF Inv, ConnectionLedger, Controllers, Window
  <2>5. CASE ~(s = Connection /\ out.ok)
    BY <1>1, <2>2, <2>3, <2>5, StillTyped DEF Inv, ConnectionLedger
  <2>6. QED
    BY <2>4, <2>5
<1>8. ASSUME QueueUpdate PROVE Inv'
  BY <1>1, <1>8, StillTyped DEF QueueUpdate, AddPendingUpdate, Inv, ConnectionLedger, Controllers
<1>9. ASSUME DropQueue PROVE Inv'
  BY <1>1, <1>9, StillTyped DEF DropQueue, ClearPendingUpdates, Inv, ConnectionLedger, Controllers
<1>10. ASSUME NEW conn \in InitialSizes \cup {None}, NEW stream \in InitialSizes \cup {None},
              Resize(conn, stream)
       PROVE  Inv'
  <2>1. /\ fc'.initialConn < U32 /\ fc'.initialStream < U32
        /\ fc' \in Controllers(Streams, Limit(fc'.initialConn), Limit(fc'.initialStream))
        /\ fc'.totalSent = fc.totalSent
        /\ fc'.totalReceived = fc.totalReceived
    <3>1. conn \in Nat \cup {None} /\ stream \in Nat \cup {None}
      BY CallerArguments
    <3>2. QED
      BY <1>1, <1>10, <3>1, ResizeKeeps
  <2>2. granted' = [send |-> granted.send + (fc'.connSend - fc.connSend),
                    recv |-> granted.recv + (fc'.connRecv - fc.connRecv)]
    BY <1>10 DEF Resize
  <2>3. /\ fc.connSend \in Int /\ fc.connRecv \in Int
        /\ fc.totalSent \in Nat /\ fc.totalReceived \in Nat
    BY <1>1 DEF Controllers, Window
  <2>4. fc'.connSend \in Int /\ fc'.connRecv \in Int
    BY <2>1 DEF Controllers, Window
  <2>5. QED
    BY <1>1, <2>1, <2>2, <2>3, <2>4 DEF Inv, TypeOK, ConnectionLedger
<1>11. ASSUME StartOver PROVE Inv'
  <2>1. /\ fc.initialConn \in Window(ConnTop) /\ fc.initialStream \in Window(StreamTop)
        /\ fc.initialConn \in Nat
    BY <1>1 DEF Controllers, Window
  <2>2. /\ fc' = NewController(fc.initialConn, fc.initialStream)
        /\ fc' \in Controllers(Streams, ConnTop, StreamTop)
    BY <1>1, <1>11, <2>1, NewTyped DEF StartOver, Reset
  <2>3. /\ fc'.initialConn = fc.initialConn /\ fc'.initialStream = fc.initialStream
        /\ fc'.connSend + fc'.totalSent = fc.initialConn
        /\ fc'.connRecv + fc'.totalReceived = fc.initialConn
    BY <2>1, <2>2 DEF NewController
  <2>4. granted' = [send |-> fc.initialConn, recv |-> fc.initialConn]
    BY <1>11 DEF StartOver
  <2>5. QED
    BY <1>1, <2>1, <2>2, <2>3, <2>4, StillTyped DEF Inv, ConnectionLedger
<1>12. CASE UNCHANGED vars
  BY <1>1, <1>12 DEF vars, Inv, TypeOK, ConnectionLedger
<1>13. QED
  BY <1>2, <1>3, <1>4, <1>5, <1>6, <1>7, <1>8, <1>9, <1>10, <1>11, <1>12 DEF Next

\* In every sequence of calls, on a controller of any initial sizes, no window wraps
\* and none is above MAX_WINDOW_SIZE unless its initial size is, which then bounds it.
THEOREM WindowsStayInRange == Spec => []TypeOK
<1>1. Inv => TypeOK
  BY DEF Inv
<1>2. QED
  BY InitInv, NextInv, <1>1, PTL DEF Spec

\* In every sequence of calls the connection's credit is neither lost nor
\* created: window plus bytes counted is what was granted, in both directions.
THEOREM ConnectionCreditIsKept == Spec => []ConnectionLedger
<1>1. Inv => ConnectionLedger
  BY DEF Inv
<1>2. QED
  BY InitInv, NextInv, <1>1, PTL DEF Spec

-----------------------------------------------------------------------------
(* What follows from well-typed windows: the methods' readings agree.      *)

\* A reservation is blocked exactly when the connection's window or the stream's is
\* too small, and then changes nothing.
LEMMA BlockedWhen ==
  ASSUME NEW A \in Nat, NEW B \in Nat, NEW c \in Controllers(Streams, A, B),
         NEW s \in StreamIds, NEW n \in Nat
  PROVE  LET out     == ReserveSendWindow(c, s, n)
             blocked == c.connSend < n \/ (s # Connection /\ WindowOf(c.send, s) < n)
         IN /\ WasBlocked(out) <=> blocked
            /\ blocked => out.fc = c
<1> DEFINE out == ReserveSendWindow(c, s, n)
           short == s # Connection /\ WindowOf(c.send, s) < n
<1>1. ASSUME NEW x, out = Done(c, {Blocked(x)})
      PROVE  WasBlocked(out) /\ out.fc = c
  <2> HIDE DEF out
  <2>1. out.fc = c /\ Blocked(x) \in out.events /\ Blocked(x).type = "FlowControlBlocked"
    BY <1>1 DEF Done, Blocked
  <2> QED  BY <2>1 DEF WasBlocked
<1>2. CASE c.connSend < n
  <2>1. out = Done(c, {Blocked(Connection)})
    BY <1>2 DEF ReserveSendWindow
  <2> QED  BY <1>1, <1>2, <2>1
<1>3. CASE ~(c.connSend < n) /\ short
  <2>1. out = Done(c, {Blocked(s)})
    BY <1>3 DEF ReserveSendWindow
  <2> QED  BY <1>1, <1>3, <2>1
<1>4. CASE ~(c.connSend < n) /\ ~short
  <2>1. \A e \in out.events : \E x : e = Exhausted(x)
    BY <1>4 DEF ReserveSendWindow, Done
  <2>2. ~WasBlocked(out)
    BY <2>1 DEF WasBlocked, Exhausted
  <2> QED  BY <1>4, <2>2
<1> QED  BY <1>2, <1>3, <1>4

\* can_send, effective_send_window and reserve_send_window agree on what can be sent.
THEOREM SendPathsStayInStep == Spec => []SendPathsAgree
<1>1. TypeOK => SendPathsAgree
  <2> SUFFICES ASSUME TypeOK, NEW s \in StreamIds, NEW n \in Amounts
               PROVE  LET out == ReserveSendWindow(fc, s, n)
                      IN /\ WasBlocked(out) => out.fc = fc /\ ~CanSend(fc, s, n)
                         /\ s = Connection \/ s \in DOMAIN fc.send =>
                              (CanSend(fc, s, n) <=>
                                 ~WasBlocked(out) /\ n <= EffectiveSendWindow(fc, s))
    BY DEF SendPathsAgree
  <2> DEFINE out == ReserveSendWindow(fc, s, n)
             blocked == fc.connSend < n \/ (s # Connection /\ WindowOf(fc.send, s) < n)
  <2>1. /\ n \in Nat /\ ConnTop \in Nat /\ StreamTop \in Nat
        /\ fc \in Controllers(Streams, ConnTop, StreamTop)
    BY CallerArguments, Typed
  <2>2. (WasBlocked(out) <=> blocked) /\ (blocked => out.fc = fc)
    BY <2>1, BlockedWhen
  <2>3. fc.connSend \in Nat /\ WindowOf(fc.send, s) \in Nat
    <3>1. fc.connSend \in Window(ConnTop) /\ fc.send \in WindowMaps(Streams, StreamTop)
      BY <2>1 DEF Controllers
    <3> QED  BY <2>1, <3>1, WindowOfTyped DEF Window
  <2> HIDE DEF out
  <2>4. blocked => ~CanSend(fc, s, n)
    BY <2>1, <2>3 DEF CanSend, WindowOf
  <2>5. s = Connection \/ s \in DOMAIN fc.send =>
          (CanSend(fc, s, n) <=> ~blocked /\ n <= EffectiveSendWindow(fc, s))
    BY <2>1, <2>3 DEF CanSend, EffectiveSendWindow, SendWindow, WindowOf
  <2> QED  BY <2>2, <2>4, <2>5 DEF out
<1> QED  BY <1>1, WindowsStayInRange, PTL

\* process_received_data and update_initial_window_sizes leave the streams alone when
\* they fail.
THEOREM FailuresSpareStreams == Spec => []FailureSparesStreams
<1>1. TypeOK => FailureSparesStreams
  <2> SUFFICES ASSUME TypeOK  PROVE FailureSparesStreams
    OBVIOUS
  <2>1. fc \in Controllers(Streams, ConnTop, StreamTop)
    BY Typed
  <2>2. ASSUME NEW s \in StreamIds, NEW n \in Amounts
        PROVE  LET out == ProcessReceivedData(fc, s, n)
               IN ~out.ok => out.fc.recv = fc.recv /\ out.events = {}
    BY <2>1 DEF ProcessReceivedData, Failed, Done, Controllers
  <2>3. ASSUME NEW conn \in InitialSizes \cup {None}, NEW stream \in InitialSizes \cup {None}
        PROVE  LET out == UpdateInitialWindowSizes(fc, conn, stream)
               IN ~out.ok => /\ out.fc.send = fc.send
                             /\ out.fc.recv = fc.recv
                             /\ out.fc.initialStream = fc.initialStream
    <3> DEFINE half == SetInitialConn(fc, conn)
    <3>1. /\ half.send = fc.send /\ half.recv = fc.recv
          /\ half.initialStream = fc.initialStream
      BY <2>1 DEF SetInitialConn, Controllers
    <3> HIDE DEF half
    <3>2. ASSUME ~UpdateInitialWindowSizes(fc, conn, stream).ok
          PROVE  UpdateInitialWindowSizes(fc, conn, stream).fc \in {fc, half}
      BY <3>2 DEF UpdateInitialWindowSizes, Failed, Done, half
    <3> QED  BY <3>1, <3>2
  <2> QED  BY <2>2, <2>3 DEF FailureSparesStreams
<1> QED  BY <1>1, WindowsStayInRange, PTL

\* An announced increment is what is missing to the initial size: it is taken, and
\* restores that size, exactly when the size is within the limit.
LEMMA IncrementRestores ==
  ASSUME NEW A \in Nat, NEW B \in Nat, NEW c \in Controllers(Streams, A, B),
         NEW s \in StreamIds, NEW window \in Nat, NEW initial \in 0 .. U32 - 1,
         RecvWindow(c, s) = window,
         NEW e \in UpdateNeededIf(window, initial, s)
  PROVE  LET after == UpdateRecvWindow(c, e.stream, e.increment)
         IN /\ e.stream = s
            /\ after.ok <=> initial <= MaxWindow
            /\ after.ok => RecvWindow(after.fc, s) = initial
            /\ ~after.ok => after.fc = c
<1>1. window <= initial /\ initial \in Nat /\ MaxWindow \in Nat
  <2>1. window <= Threshold(initial)
    BY DEF UpdateNeededIf, NeedsWindowUpdate
  <2>2. initial \in Nat
    BY WindowLimits
  <2>3. Threshold(initial) \in 0 .. initial
    BY ThresholdBounded
  <2> QED  BY <2>1, <2>2, <2>3, WindowLimits
<1>2. e.stream = s /\ e.increment = initial - window
  BY DEF UpdateNeededIf, UpdateNeeded, CalculateWindowUpdate
<1>3. e.increment \in Nat /\ window + e.increment = initial
  BY <1>1, <1>2
<1>4. CASE initial > MaxWindow
  <2>1. UpdateRecvWindow(c, s, e.increment) = Failed(c)
    BY <1>3, <1>4 DEF UpdateRecvWindow
  <2> QED  BY <1>1, <1>2, <1>4, <2>1 DEF Failed
<1>5. CASE initial <= MaxWindow /\ s = Connection
  <2> DEFINE d == [c EXCEPT !.connRecv = @ + e.increment]
  <2>1. UpdateRecvWindow(c, s, e.increment) = Done(d, {})
    BY <1>1, <1>3, <1>5 DEF UpdateRecvWindow
  <2>2. c.connRecv = window
    BY <1>5 DEF RecvWindow
  <2>3. d.connRecv = initial
    BY <1>3, <2>2 DEF Controllers
  <2> HIDE DEF d
  <2>4. UpdateRecvWindow(c, s, e.increment).ok /\ UpdateRecvWindow(c, s, e.increment).fc = d
    BY <2>1 DEF Done
  <2>5. RecvWindow(d, s) = initial
    BY <1>5, <2>3 DEF RecvWindow
  <2> QED  BY <1>2, <1>5, <2>4, <2>5
<1>6. CASE initial <= MaxWindow /\ s # Connection
  <2>1. WindowOf(c.recv, s) = window
    BY <1>6 DEF RecvWindow
  <2> DEFINE d == [c EXCEPT !.recv = Insert(@, s, WindowOf(@, s) + e.increment)]
  <2>2. UpdateRecvWindow(c, s, e.increment) = Done(d, {})
    BY <1>1, <1>3, <1>6 DEF UpdateRecvWindow
  <2>3. d.recv = Insert(c.recv, s, initial)
    BY <1>3, <2>1 DEF Controllers
  <2> HIDE DEF d
  <2>4. UpdateRecvWindow(c, s, e.increment).ok /\ UpdateRecvWindow(c, s, e.increment).fc = d
    BY <2>2 DEF Done
  <2>5. RecvWindow(d, s) = initial
    BY <1>6, <2>3, WindowOfInsert DEF RecvWindow
  <2> QED  BY <1>2, <1>6, <2>4, <2>5
<1> QED  BY <1>1, <1>4, <1>5, <1>6

\* On a controller of any initial sizes, an increment process_received_data announces
\* brings the receive window back to its initial size, unless that size is above
\* MAX_WINDOW_SIZE: then update_recv_window refuses it and changes nothing.
THEOREM AnnouncementsRestore == Spec => []AnnouncedUpdateRestores
<1>1. TypeOK => AnnouncedUpdateRestores
  <2> SUFFICES ASSUME TypeOK, NEW s \in StreamIds, NEW n \in Amounts,
                      NEW e \in ProcessReceivedData(fc, s, n).events
               PROVE  LET out     == ProcessReceivedData(fc, s, n)
                          after   == UpdateRecvWindow(out.fc, e.stream, e.increment)
                          initial == IF e.stream = Connection
                                     THEN fc.initialConn ELSE fc.initialStream
                      IN /\ after.ok <=> initial <= MaxWindow
                         /\ after.ok => RecvWindow(after.fc, e.stream) = initial
                         /\ ~after.ok => after.fc = out.fc
    BY DEF AnnouncedUpdateRestores
  <2> DEFINE out == ProcessReceivedData(fc, s, n)
             charged == [fc EXCEPT !.connRecv = @ - n, !.totalReceived = @ + n]
             left == WindowOf(fc.recv, s) - n
             connEvents == UpdateNeededIf(fc.connRecv - n, fc.initialConn, Connection)
             streamEvents == UpdateNeededIf(left, fc.initialStream, s)
  <2>1. /\ n \in Nat /\ ConnTop \in Nat /\ StreamTop \in Nat
        /\ fc \in Controllers(Streams, ConnTop, StreamTop)
        /\ fc.initialConn \in 0 .. U32 - 1 /\ fc.initialStream \in 0 .. U32 - 1
    BY CallerArguments, Typed
  <2>2. fc.connRecv \in Nat /\ WindowOf(fc.recv, s) \in Nat
    <3>1. fc.connRecv \in Window(ConnTop) /\ fc.recv \in WindowMaps(Streams, StreamTop)
      BY <2>1 DEF Controllers
    <3> QED  BY <2>1, <3>1, WindowOfTyped DEF Window
  <2>3. fc.connRecv >= n /\ (s # Connection => left >= 0)
    BY <2>1, <2>2 DEF ProcessReceivedData, Failed
  <2>4. /\ out.fc \in Controllers(Streams, ConnTop, StreamTop)
        /\ out.fc.connRecv = fc.connRecv - n
    <3>1. charged.connRecv = fc.connRecv - n
      BY <2>1 DEF Controllers
    <3>2. [charged EXCEPT !.recv = Insert(@, s, left)].connRecv = fc.connRecv - n
      BY <2>1 DEF Controllers
    <3>3. out.fc = charged \/ out.fc = [charged EXCEPT !.recv = Insert(@, s, left)]
      BY <2>1, <2>2, <2>3 DEF ProcessReceivedData, Done
    <3>4. out.fc \in Controllers(Streams, ConnTop, StreamTop)
      BY <2>1, ProcessReceivedTyped DEF StreamIds
    <3> QED  BY <3>1, <3>2, <3>3, <3>4
  <2>5. s # Connection => out.fc.recv = Insert(fc.recv, s, left)
    BY <2>1, <2>2, <2>3, ReceiveEffect DEF StreamIds
  <2>6. e \in connEvents \/ (s # Connection /\ e \in streamEvents)
    BY <2>1, <2>2, <2>3 DEF ProcessReceivedData, Done
  <2> HIDE DEF out, charged, connEvents, streamEvents
  <2>7. CASE e \in connEvents
    <3>1. RecvWindow(out.fc, Connection) = fc.connRecv - n /\ Connection \in StreamIds
      BY <2>4 DEF RecvWindow, StreamIds
    <3>2. fc.connRecv - n \in Nat
      BY <2>1, <2>2, <2>3
    <3> QED  BY <2>1, <2>4, <2>7, <3>1, <3>2, IncrementRestores DEF out, connEvents
  <2>8. CASE s # Connection /\ e \in streamEvents
    <3>1. RecvWindow(out.fc, s) = left /\ left \in Nat
      BY <2>1, <2>2, <2>3, <2>5, <2>8, WindowOfInsert DEF RecvWindow
    <3> HIDE DEF left
    <3> QED  BY <2>1, <2>4, <2>8, <3>1, IncrementRestores DEF out, streamEvents
  <2> QED  BY <2>6, <2>7, <2>8
<1> QED  BY <1>1, WindowsStayInRange, PTL

-----------------------------------------------------------------------------
(* Bytes leave both windows. *)

LEMMA SendDebits ==
  ASSUME TypeOK, NEW s \in StreamIds, NEW k \in Amounts, Send(s, k),
         fc'.totalSent > fc.totalSent
  PROVE  /\ fc'.totalSent = fc.totalSent + k
         /\ fc'.connSend = fc.connSend - k
         /\ fc'.send = IF s = Connection THEN fc.send ELSE [fc.send EXCEPT ![s] = @ - k]
<1> DEFINE out == ReserveSendWindow(fc, s, k)
<1>1. /\ k \in Nat /\ fc' = out.fc /\ ConnTop \in Nat /\ StreamTop \in Nat
      /\ fc \in Controllers(Streams, ConnTop, StreamTop)
  BY CallerArguments, Typed DEF Send
<1>2. ~WasBlocked(out)
  <2> SUFFICES ASSUME WasBlocked(out)  PROVE fc' = fc
    BY <1>1 DEF Controllers
  <2> QED  BY <1>1, BlockedWhen
<1>3. /\ fc.connSend \in Nat /\ fc.totalSent \in Nat
      /\ fc.send \in WindowMaps(Streams, StreamTop) /\ WindowOf(fc.send, s) \in Nat
  <2>1. /\ fc.connSend \in Window(ConnTop) /\ fc.totalSent \in Nat
        /\ fc.send \in WindowMaps(Streams, StreamTop)
    BY <1>1 DEF Controllers
  <2> QED  BY <1>1, <2>1, WindowOfTyped DEF Window
<1>4. /\ fc'.connSend + fc'.totalSent = fc.connSend + fc.totalSent
      /\ fc' \in Controllers(Streams, ConnTop, StreamTop)
  BY <1>1, ReserveTyped DEF StreamIds
<1>5. fc'.connSend \in Int /\ fc'.totalSent \in Nat
  BY <1>4 DEF Controllers, Window
<1>6. CASE s = Connection
  <2>1. ~(fc.connSend < k)
    BY <1>1, <1>2, <1>6, BlockedWhen
  <2>2. fc'.send = fc.send /\ fc'.connSend = fc.connSend - k
    BY <1>1, <1>6, <2>1 DEF ReserveSendWindow, Done, Controllers
  <2> QED  BY <1>1, <1>3, <1>4, <1>5, <1>6, <2>2
<1>7. CASE s # Connection
  <2>1. /\ k <= WindowOf(fc.send, s)
        /\ fc'.connSend = fc.connSend - k
        /\ fc'.send = Insert(fc.send, s, WindowOf(fc.send, s) - k)
    BY <1>1, <1>2, <1>7, ReserveEffect DEF StreamIds
  <2>2. fc'.totalSent = fc.totalSent + k
    BY <1>1, <1>3, <1>4, <1>5, <2>1
  <2>3. s \in DOMAIN fc.send
    <3>1. k > 0
      BY <1>1, <1>3, <2>2
    <3> QED  BY <1>1, <2>1, <3>1 DEF WindowOf
  <2>4. fc'.send = [fc.send EXCEPT ![s] = @ - k]
    <3>1. PICK known \in SUBSET Streams : fc.send \in [known -> Window(StreamTop)]
      BY <1>3 DEF WindowMaps
    <3> QED  BY <2>1, <2>3, <3>1 DEF Insert, WindowOf
  <2> QED  BY <1>7, <2>1, <2>2, <2>4
<1> QED  BY <1>6, <1>7

\* No step but a reservation raises the count of bytes sent.
LEMMA OnlySendCounts ==
  ASSUME TypeOK, [Next]_vars,
         ~(\E s \in StreamIds, n \in Amounts : Send(s, n))
  PROVE  ~(fc'.totalSent > fc.totalSent)
<1>1. /\ fc \in Controllers(Streams, ConnTop, StreamTop) /\ fc.totalSent \in Nat
      /\ ConnTop \in Nat /\ StreamTop \in Nat
      /\ MaxWindow <= ConnTop /\ MaxWindow <= StreamTop
      /\ fc.initialConn \in 0 .. U32 - 1 /\ fc.initialStream \in 0 .. U32 - 1
  BY Typed DEF Controllers
<1> SUFFICES fc'.totalSent = fc.totalSent \/ fc'.totalSent = 0
  BY <1>1
<1>2. ASSUME NEW s \in StreamIds, Initialize(s)  PROVE fc'.totalSent = fc.totalSent
  BY <1>1, <1>2, InitializeStreamTyped DEF Initialize, StreamIds
<1>3. ASSUME NEW s \in StreamIds, Forget(s)  PROVE fc'.totalSent = fc.totalSent
  BY <1>1, <1>3, RemoveStreamTyped DEF Forget, StreamIds
<1>4. ASSUME NEW s \in StreamIds, NEW n \in Amounts, Receive(s, n)
      PROVE  fc'.totalSent = fc.totalSent
  BY <1>1, <1>4, CallerArguments, ProcessReceivedTyped DEF Receive, StreamIds
<1>5. ASSUME NEW s \in StreamIds, NEW n \in Amounts, GrantSend(s, n)
      PROVE  fc'.totalSent = fc.totalSent
  BY <1>1, <1>5, CallerArguments, UpdateSendTyped DEF GrantSend, StreamIds
<1>6. ASSUME NEW s \in StreamIds, NEW n \in Amounts, GrantRecv(s, n)
      PROVE  fc'.totalSent = fc.totalSent
  BY <1>1, <1>6, CallerArguments, UpdateRecvTyped DEF GrantRecv, StreamIds
<1>7. ASSUME QueueUpdate \/ DropQueue  PROVE fc'.totalSent = fc.totalSent
  BY <1>1, <1>7 DEF QueueUpdate, DropQueue, AddPendingUpdate, ClearPendingUpdates, Controllers
<1>8. ASSUME NEW conn \in InitialSizes \cup {None}, NEW stream \in InitialSizes \cup {None},
             Resize(conn, stream)
      PROVE  fc'.totalSent = fc.totalSent
  <2>1. conn \in Nat \cup {None} /\ stream \in Nat \cup {None}
    BY CallerArguments
  <2> QED  BY <1>8, <2>1, ResizeKeeps
<1>9. ASSUME StartOver  PROVE fc'.totalSent = 0
  BY <1>9 DEF StartOver, Reset, NewController
<1>10. ASSUME UNCHANGED vars  PROVE fc'.totalSent = fc.totalSent
  BY <1>10 DEF vars
<1> QED  BY <1>2, <1>3, <1>4, <1>5, <1>6, <1>7, <1>8, <1>9, <1>10 DEF Next

\* Bytes are counted as sent only by a reservation, which takes its own amount from
\* the connection's window and from that of the stream it names, and from no other.
THEOREM DebitsStayInStep == Spec => DebitsAgree
<1> DEFINE Agree ==
      fc'.totalSent > fc.totalSent =>
        \E s \in StreamIds, n \in Amounts :
          /\ Send(s, n)
          /\ fc'.totalSent = fc.totalSent + n
          /\ fc'.connSend = fc.connSend - n
          /\ fc'.send = IF s = Connection THEN fc.send
                        ELSE [fc.send EXCEPT ![s] = @ - n]
<1>1. TypeOK /\ [Next]_vars => [Agree]_vars
  BY SendDebits, OnlySendCounts
<1> QED  BY <1>1, WindowsStayInRange, PTL DEF Spec, DebitsAgree
=============================================================================
