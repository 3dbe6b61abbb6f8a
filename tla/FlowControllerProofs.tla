------------------------ MODULE FlowControllerProofs ------------------------
(***************************************************************************)
(* Lemmas about the operators of FlowController, for every choice of the   *)
(* limits: what those on window maps return, and what each method does to  *)
(* a well-typed controller.  FlowControlProofs, FlowLinkProofs and         *)
(* StreamManagerProofs rest on them.                                       *)
(***************************************************************************)
EXTENDS FlowController, TLAPS

\* A lookup that falls back to 0 (unwrap_or(0)) returns a window.
LEMMA WindowOfTyped ==
  ASSUME NEW S, NEW top \in Nat, NEW w \in WindowMaps(S, top), NEW s
  PROVE  WindowOf(w, s) \in Window(top)
  BY WindowLimits DEF WindowMaps, WindowOf, Window

\* HashMap::insert under a non-zero stream keeps a window map.
LEMMA InsertTyped ==
  ASSUME NEW S, NEW top \in Nat, NEW w \in WindowMaps(S, top), NEW s \in S, NEW v \in Window(top)
  PROVE  Insert(w, s, v) \in WindowMaps(S, top)
<1>1. PICK known \in SUBSET S : w \in [known -> Window(top)]
  BY DEF WindowMaps
<1>2. known \cup {s} \in SUBSET S
  OBVIOUS
<1>3. Insert(w, s, v) \in [known \cup {s} -> Window(top)]
  BY <1>1 DEF Insert
<1>4. QED
  BY <1>2, <1>3 DEF WindowMaps

\* HashMap::remove keeps a window map.
LEMMA RemoveTyped ==
  ASSUME NEW S, NEW top \in Nat, NEW w \in WindowMaps(S, top), NEW s
  PROVE  Remove(w, s) \in WindowMaps(S, top)
<1>1. PICK known \in SUBSET S : w \in [known -> Window(top)]
  BY DEF WindowMaps
<1>2. known \ {s} \in SUBSET S
  OBVIOUS
<1>3. Remove(w, s) \in [known \ {s} -> Window(top)]
  BY <1>1 DEF Remove
<1>4. QED
  BY <1>2, <1>3 DEF WindowMaps

\* max(0) and min(MAX_WINDOW_SIZE) bring every i64 back to a window.
LEMMA ClampTyped ==
  ASSUME NEW x \in Int
  PROVE  Clamp(x) \in Window(MaxWindow)
<1>1. U32 \in Nat \ {0} /\ MaxWindow \in Nat
  BY WindowLimits
<1>2. x >= 0 => x % U32 \in Nat
  BY <1>1
<1>3. QED
  BY <1>1, <1>2 DEF Clamp, Window

\* Moving every window of a map by a difference keeps a window map.
LEMMA ShiftTyped ==
  ASSUME NEW S, NEW top \in Nat, NEW w \in WindowMaps(S, top), NEW diff \in Int
  PROVE  Shift(w, diff) \in WindowMaps(S, MaxWindow)
<1>1. PICK known \in SUBSET S : w \in [known -> Window(top)]
  BY DEF WindowMaps
<1>2. \A s \in known : Clamp(w[s] + diff) \in Window(MaxWindow)
  BY <1>1, ClampTyped, WindowLimits DEF Window
<1>3. Shift(w, diff) \in [known -> Window(MaxWindow)]
  BY <1>1, <1>2 DEF Shift
<1>4. QED
  BY <1>3 DEF WindowMaps

\* An empty HashMap is a window map.
LEMMA NoWindowsTyped == \A S, top : NoWindows \in WindowMaps(S, top)
<1> TAKE S, top
<1>1. NoWindows \in [{} -> Window(top)]
  BY DEF NoWindows
<1>2. QED
  BY <1>1 DEF WindowMaps

\* What bounds the windows of an initial size: MAX_WINDOW_SIZE, or the size itself.
LEMMA LimitTyped ==
  ASSUME NEW initial \in Nat
  PROVE  /\ Limit(initial) \in Nat
         /\ MaxWindow <= Limit(initial)
         /\ initial \in Window(Limit(initial))
         /\ initial <= MaxWindow => Limit(initial) = MaxWindow
  BY WindowLimits DEF Limit, Window

\* needs_window_update's threshold, rounded as an f32 and halved, is never above the
\* initial size, and below it unless that is 0: an announced increment is not negative.
LEMMA ThresholdBounded ==
  ASSUME NEW n \in 0 .. U32 - 1
  PROVE  Threshold(n) \in 0 .. n /\ (n > 0 => Threshold(n) < n)
<1>1. U32 \in Nat /\ ExactF32 \in Nat \ {0} /\ U32 <= 256 * ExactF32
  BY WindowLimits
<1> DEFINE Units == {2, 4, 8, 16, 32, 64, 128, 256}
           Spacing(u) == (u \div 2) * ExactF32 <= n /\ n < u * ExactF32
           Nearest(u) == LET k  == n \div u
                             up == \/ 2 * (n % u) > u
                                   \/ 2 * (n % u) = u /\ k % 2 = 1
                         IN IF up THEN (k + 1) * u ELSE k * u
<1>2. CASE n < ExactF32
  BY <1>1, <1>2 DEF Threshold, AsF32
<1>3. CASE ~(n < ExactF32)
  <2>1. \E u \in Units : Spacing(u)
    BY <1>1, <1>3
  <2>2. PICK u \in Units : Spacing(u) /\ AsF32(n) = Nearest(u)
    <3> DEFINE v == CHOOSE u \in Units : Spacing(u)
    <3>1. AsF32(n) = Nearest(v)
      BY <1>3 DEF AsF32
    <3> HIDE DEF Spacing, Units, Nearest
    <3>2. v \in Units /\ Spacing(v)
      BY <2>1, Zenon
    <3>3. QED
      BY <3>1, <3>2
  <2>3. /\ Nearest(u) \in Nat
        /\ Nearest(u) < n + u \div 2 \/ (Nearest(u) = n + u \div 2 /\ u <= n)
    BY <1>1, <2>2
  <2>4. u \div 2 <= n /\ u \div 2 < u
    BY <1>1, <2>2
  <2> HIDE DEF Nearest
  <2>5. QED
    BY <2>2, <2>3, <2>4 DEF Threshold
<1>4. QED
  BY <1>2, <1>3

-----------------------------------------------------------------------------
(* The methods of the controller. *)

\* A new or reset controller is well typed.
LEMMA NewTyped ==
  ASSUME NEW S, NEW A \in Nat, NEW B \in Nat, NEW conn \in Window(A), NEW stream \in Window(B)
  PROVE  NewController(conn, stream) \in Controllers(S, A, B)
  BY NoWindowsTyped DEF NewController, Controllers

\* initialize_stream only touches the stream maps, and refuses stream 0.
LEMMA InitializeStreamTyped ==
  ASSUME NEW S, NEW A \in Nat, NEW B \in Nat, NEW c \in Controllers(S, A, B), NEW s \in S \cup {Connection}
  PROVE  /\ InitializeStream(c, s).fc \in Controllers(S, A, B)
         /\ InitializeStream(c, s).fc.connSend = c.connSend
         /\ InitializeStream(c, s).fc.connRecv = c.connRecv
         /\ InitializeStream(c, s).fc.totalSent = c.totalSent
         /\ InitializeStream(c, s).fc.totalReceived = c.totalReceived
         /\ InitializeStream(c, s).fc.initialConn = c.initialConn
         /\ InitializeStream(c, s).fc.initialStream = c.initialStream
<1>1. CASE s = Connection
  BY <1>1 DEF InitializeStream, Failed
<1>2. CASE s # Connection
  <2>1. s \in S
    BY <1>2
  <2>2. /\ Insert(c.send, s, c.initialStream) \in WindowMaps(S, B)
        /\ Insert(c.recv, s, c.initialStream) \in WindowMaps(S, B)
    BY <2>1, InsertTyped DEF Controllers
  <2>3. QED
    BY <1>2, <2>2 DEF InitializeStream, Done, Controllers
<1>3. QED
  BY <1>1, <1>2

\* remove_stream only touches the stream maps.
LEMMA RemoveStreamTyped ==
  ASSUME NEW S, NEW A \in Nat, NEW B \in Nat, NEW c \in Controllers(S, A, B), NEW s \in S \cup {Connection}
  PROVE  /\ RemoveStream(c, s) \in Controllers(S, A, B)
         /\ RemoveStream(c, s).connSend = c.connSend
         /\ RemoveStream(c, s).connRecv = c.connRecv
         /\ RemoveStream(c, s).totalSent = c.totalSent
         /\ RemoveStream(c, s).totalReceived = c.totalReceived
         /\ RemoveStream(c, s).initialConn = c.initialConn
         /\ RemoveStream(c, s).initialStream = c.initialStream
<1>1. Remove(c.send, s) \in WindowMaps(S, B) /\ Remove(c.recv, s) \in WindowMaps(S, B)
  BY RemoveTyped DEF Controllers
<1>2. QED
  BY <1>1 DEF RemoveStream, Controllers

\* reserve_send_window moves bytes from the connection's send window to the
\* count of sent bytes, one for one, or does nothing.
LEMMA ReserveTyped ==
  ASSUME NEW S, NEW A \in Nat, NEW B \in Nat, NEW c \in Controllers(S, A, B), NEW s \in S \cup {Connection}, NEW n \in Nat
  PROVE  LET d == ReserveSendWindow(c, s, n).fc
         IN /\ d \in Controllers(S, A, B)
            /\ d.connSend + d.totalSent = c.connSend + c.totalSent
            /\ d.connRecv = c.connRecv
            /\ d.totalReceived = c.totalReceived
            /\ d.recv = c.recv
            /\ d.initialConn = c.initialConn
            /\ d.initialStream = c.initialStream
<1> DEFINE left == c.connSend - n
           streamLeft == WindowOf(c.send, s) - n
           send == IF s = Connection THEN c.send ELSE Insert(c.send, s, streamLeft)
           blocked == c.connSend < n \/ (s # Connection /\ WindowOf(c.send, s) < n)
           d == ReserveSendWindow(c, s, n).fc
<1>1. WindowOf(c.send, s) \in Window(B) /\ c.connSend \in Window(A) /\ c.totalSent \in Nat
  BY WindowOfTyped DEF Controllers
<1>2. CASE blocked
  <2>1. d = c
    BY <1>2 DEF ReserveSendWindow, Done
  <2>2. QED
    BY <2>1
<1>3. CASE ~blocked
  <2>1. left \in Window(A)
    BY <1>1, <1>3, WindowLimits DEF Window
  <2>2. send \in WindowMaps(S, B)
    <3>1. CASE s = Connection
      BY <3>1 DEF Controllers
    <3>2. CASE s # Connection
      <4>1. s \in S
        BY <3>2
      <4>2. streamLeft \in Window(B)
        BY <1>1, <1>3, <3>2, WindowLimits DEF Window
      <4>3. QED
        BY <3>2, <4>1, <4>2, InsertTyped DEF Controllers
    <3>3. QED
      BY <3>1, <3>2
  <2>3. d = [c EXCEPT !.connSend = left, !.totalSent = @ + n, !.send = send]
    BY <1>3 DEF ReserveSendWindow, Done
  <2>4. left + (c.totalSent + n) = c.connSend + c.totalSent
    BY <1>1 DEF Window
  <2>5. c.totalSent + n \in Nat
    BY <1>1
  <2> HIDE DEF left, send, d
  <2>6. d \in Controllers(S, A, B)
    BY <2>1, <2>2, <2>3, <2>5 DEF Controllers
  <2>7. QED
    BY <2>3, <2>4, <2>6 DEF Controllers, d
<1>4. QED
  BY <1>2, <1>3

\* process_received_data moves bytes from the connection's receive window to the
\* count of received bytes, one for one, even when it then fails on the stream.
LEMMA ProcessReceivedTyped ==
  ASSUME NEW S, NEW A \in Nat, NEW B \in Nat, NEW c \in Controllers(S, A, B), NEW s \in S \cup {Connection}, NEW n \in Nat
  PROVE  LET d == ProcessReceivedData(c, s, n).fc
         IN /\ d \in Controllers(S, A, B)
            /\ d.connRecv + d.totalReceived = c.connRecv + c.totalReceived
            /\ d.connSend = c.connSend
            /\ d.totalSent = c.totalSent
            /\ d.send = c.send
            /\ d.initialConn = c.initialConn
            /\ d.initialStream = c.initialStream
<1> DEFINE left == c.connRecv - n
           streamLeft == WindowOf(c.recv, s) - n
           charged == [c EXCEPT !.connRecv = @ - n, !.totalReceived = @ + n]
           d == ProcessReceivedData(c, s, n).fc
<1>1. WindowOf(c.recv, s) \in Window(B) /\ c.connRecv \in Window(A) /\ c.totalReceived \in Nat
  BY WindowOfTyped DEF Controllers
<1>2. CASE c.connRecv < n
  <2>1. d = c
    BY <1>2 DEF ProcessReceivedData, Failed
  <2>2. QED
    BY <2>1
<1>3. CASE ~(c.connRecv < n)
  <2>1. left \in Window(A) /\ c.totalReceived + n \in Nat
    BY <1>1, <1>3, WindowLimits DEF Window
  <2>2. /\ charged \in Controllers(S, A, B)
        /\ charged.connRecv + charged.totalReceived = c.connRecv + c.totalReceived
        /\ charged.connSend = c.connSend
        /\ charged.totalSent = c.totalSent
        /\ charged.recv = c.recv
        /\ charged.send = c.send
        /\ charged.initialConn = c.initialConn
        /\ charged.initialStream = c.initialStream
    <3>1. /\ charged = [c EXCEPT !.connRecv = left, !.totalReceived = c.totalReceived + n]
          /\ left + (c.totalReceived + n) = c.connRecv + c.totalReceived
      BY <1>1 DEF Window
    <3> HIDE DEF left, charged
    <3>2. QED
      BY <2>1, <3>1 DEF Controllers
  <2>3. CASE s = Connection \/ streamLeft < 0
    <3>1. d = charged
      BY <1>3, <2>3 DEF ProcessReceivedData, Done, Failed
    <3>2. QED
      BY <2>2, <3>1
  <2>4. CASE ~(s = Connection \/ streamLeft < 0)
    <3>1. s \in S
      BY <2>4
    <3>2. streamLeft \in Window(B)
      BY <1>1, <2>4, WindowLimits DEF Window
    <3>3. Insert(c.recv, s, streamLeft) \in WindowMaps(S, B)
      BY <3>1, <3>2, InsertTyped DEF Controllers
    <3>4. d = [charged EXCEPT !.recv = Insert(c.recv, s, streamLeft)]
      BY <1>3, <2>2, <2>4 DEF ProcessReceivedData, Done
    <3> HIDE DEF charged, streamLeft, d
    <3>5. QED
      BY <2>2, <3>3, <3>4 DEF Controllers, d
  <2>5. QED
    BY <2>3, <2>4
<1>4. QED
  BY <1>2, <1>3

\* update_send_window adds an increment where the limit allows it.
LEMMA UpdateSendTyped ==
  ASSUME NEW S, NEW A \in Nat, NEW B \in Nat, MaxWindow <= A, MaxWindow <= B,
         NEW c \in Controllers(S, A, B), NEW s \in S \cup {Connection}, NEW inc \in Nat
  PROVE  LET out == UpdateSendWindow(c, s, inc)
         IN /\ out.fc \in Controllers(S, A, B)
            /\ s = Connection /\ out.ok => out.fc.connSend = c.connSend + inc
            /\ ~(s = Connection /\ out.ok) => out.fc.connSend = c.connSend
            /\ out.fc.connRecv = c.connRecv
            /\ out.fc.totalSent = c.totalSent
            /\ out.fc.totalReceived = c.totalReceived
            /\ out.fc.initialConn = c.initialConn
            /\ out.fc.initialStream = c.initialStream
<1> DEFINE out == UpdateSendWindow(c, s, inc)
<1>1. WindowOf(c.send, s) \in Window(B) /\ c.connSend \in Window(A)
  BY WindowOfTyped DEF Controllers
<1>2. CASE SendWindow(c, s) + inc > MaxWindow
  BY <1>1, <1>2 DEF UpdateSendWindow, Failed, Window
<1>3. CASE ~(SendWindow(c, s) + inc > MaxWindow)
  <2>1. CASE s = Connection
    <3>1. c.connSend + inc \in Window(A)
      BY <1>1, <1>3, <2>1, WindowLimits DEF SendWindow, Window
    <3>2. out.fc = [c EXCEPT !.connSend = c.connSend + inc] /\ out.ok
      BY <1>3, <2>1 DEF UpdateSendWindow, Done
    <3>3. QED
      BY <2>1, <3>1, <3>2 DEF Controllers
  <2>2. CASE s # Connection
    <3>1. s \in S
      BY <2>2
    <3>2. WindowOf(c.send, s) + inc \in Window(B)
      BY <1>1, <1>3, <2>2, WindowLimits DEF SendWindow, Window
    <3>3. Insert(c.send, s, WindowOf(c.send, s) + inc) \in WindowMaps(S, B)
      BY <3>1, <3>2, InsertTyped DEF Controllers
    <3>4. out.fc = [c EXCEPT !.send = Insert(c.send, s, WindowOf(c.send, s) + inc)]
      BY <1>3, <2>2 DEF UpdateSendWindow, Done
    <3>5. QED
      BY <1>1, <2>2, <3>3, <3>4 DEF Controllers, Window
  <2>3. QED
    BY <2>1, <2>2
<1>4. QED
  BY <1>2, <1>3

\* update_recv_window is the same on the receive side.
LEMMA UpdateRecvTyped ==
  ASSUME NEW S, NEW A \in Nat, NEW B \in Nat, MaxWindow <= A, MaxWindow <= B,
         NEW c \in Controllers(S, A, B), NEW s \in S \cup {Connection}, NEW inc \in Nat
  PROVE  LET out == UpdateRecvWindow(c, s, inc)
         IN /\ out.fc \in Controllers(S, A, B)
            /\ s = Connection /\ out.ok => out.fc.connRecv = c.connRecv + inc
            /\ ~(s = Connection /\ out.ok) => out.fc.connRecv = c.connRecv
            /\ out.fc.connSend = c.connSend
            /\ out.fc.totalSent = c.totalSent
            /\ out.fc.totalReceived = c.totalReceived
            /\ out.fc.initialConn = c.initialConn
            /\ out.fc.initialStream = c.initialStream
<1> DEFINE out == UpdateRecvWindow(c, s, inc)
<1>1. WindowOf(c.recv, s) \in Window(B) /\ c.connRecv \in Window(A)
  BY WindowOfTyped DEF Controllers
<1>2. CASE RecvWindow(c, s) + inc > MaxWindow
  BY <1>1, <1>2 DEF UpdateRecvWindow, Failed, Window
<1>3. CASE ~(RecvWindow(c, s) + inc > MaxWindow)
  <2>1. CASE s = Connection
    <3>1. c.connRecv + inc \in Window(A)
      BY <1>1, <1>3, <2>1, WindowLimits DEF RecvWindow, Window
    <3>2. out.fc = [c EXCEPT !.connRecv = c.connRecv + inc] /\ out.ok
      BY <1>3, <2>1 DEF UpdateRecvWindow, Done
    <3>3. QED
      BY <2>1, <3>1, <3>2 DEF Controllers
  <2>2. CASE s # Connection
    <3>1. s \in S
      BY <2>2
    <3>2. WindowOf(c.recv, s) + inc \in Window(B)
      BY <1>1, <1>3, <2>2, WindowLimits DEF RecvWindow, Window
    <3>3. Insert(c.recv, s, WindowOf(c.recv, s) + inc) \in WindowMaps(S, B)
      BY <3>1, <3>2, InsertTyped DEF Controllers
    <3>4. out.fc = [c EXCEPT !.recv = Insert(c.recv, s, WindowOf(c.recv, s) + inc)]
      BY <1>3, <2>2 DEF UpdateRecvWindow, Done
    <3>5. QED
      BY <1>1, <2>2, <3>3, <3>4 DEF Controllers, Window
  <2>3. QED
    BY <2>1, <2>2
<1>4. QED
  BY <1>2, <1>3

\* update_initial_window_sizes keeps every window within what its initial size
\* allows, whichever half is present and whichever half fails: the half it changes
\* is within MAX_WINDOW_SIZE from then on.  It never touches the counters.
LEMMA ResizeTyped ==
  ASSUME NEW S, NEW c, c.initialConn \in Nat, c.initialStream \in Nat,
         c \in Controllers(S, Limit(c.initialConn), Limit(c.initialStream)),
         c.initialConn < U32, c.initialStream < U32,
         NEW conn \in Nat \cup {None}, NEW stream \in Nat \cup {None}
  PROVE  LET d == UpdateInitialWindowSizes(c, conn, stream).fc
         IN /\ d \in Controllers(S, Limit(d.initialConn), Limit(d.initialStream))
            /\ d.initialConn < U32 /\ d.initialStream < U32
            /\ d.totalSent = c.totalSent
            /\ d.totalReceived = c.totalReceived
<1> DEFINE half == IF conn = None THEN c ELSE SetInitialConn(c, conn)
           d == UpdateInitialWindowSizes(c, conn, stream).fc
           A == Limit(c.initialConn)
           B == Limit(c.initialStream)
<1>1. ASSUME NEW w \in Nat \cup {None}, ValidInitial(w)
      PROVE  w \in Window(MaxWindow) /\ w \in Nat /\ w < U32 /\ Limit(w) = MaxWindow
  BY <1>1, WindowLimits DEF ValidInitial, Window, None, Limit
<1>2. A \in Nat /\ B \in Nat /\ c \in Controllers(S, A, B) /\ MaxWindow \in Nat
  BY LimitTyped, WindowLimits
<1>3. CASE conn # None /\ ~ValidInitial(conn)
  <2>1. d = c
    BY <1>3 DEF UpdateInitialWindowSizes, Failed
  <2>2. QED
    BY <2>1
<1>4. CASE ~(conn # None /\ ~ValidInitial(conn))
  <2>1. /\ half.initialStream = c.initialStream
        /\ half.initialConn \in Nat /\ half.initialConn < U32
        /\ half \in Controllers(S, Limit(half.initialConn), B)
        /\ half.totalSent = c.totalSent
        /\ half.totalReceived = c.totalReceived
    <3>1. CASE conn = None
      BY <1>2, <3>1
    <3>2. CASE conn # None
      <4>1. conn \in Window(MaxWindow) /\ conn \in Nat /\ conn < U32 /\ Limit(conn) = MaxWindow
        BY <1>1, <1>4, <3>2
      <4>2. conn - c.initialConn \in Int /\ c.connSend \in Int /\ c.connRecv \in Int
        BY <1>2, <4>1 DEF Controllers, Window
      <4>3. /\ Clamp(c.connSend + (conn - c.initialConn)) \in Window(MaxWindow)
            /\ Clamp(c.connRecv + (conn - c.initialConn)) \in Window(MaxWindow)
        BY <4>2, ClampTyped
      <4> HIDE DEF A, B
      <4>4. /\ SetInitialConn(c, conn) \in Controllers(S, MaxWindow, B)
            /\ SetInitialConn(c, conn).initialConn = conn
            /\ SetInitialConn(c, conn).initialStream = c.initialStream
            /\ SetInitialConn(c, conn).totalSent = c.totalSent
            /\ SetInitialConn(c, conn).totalReceived = c.totalReceived
        BY <1>2, <4>1, <4>3 DEF SetInitialConn, Controllers
      <4>5. QED
        BY <3>2, <4>1, <4>4
    <3>3. QED
      BY <3>1, <3>2
  <2> HIDE DEF half
  <2>2. CASE stream = None \/ ~ValidInitial(stream)
    <3>1. d = half
      BY <1>4, <2>2 DEF UpdateInitialWindowSizes, Done, Failed, half
    <3>2. QED
      BY <2>1, <3>1
  <2>3. CASE ~(stream = None \/ ~ValidInitial(stream))
    <3> DEFINE C == Limit(half.initialConn)
    <3>1. /\ stream \in Window(MaxWindow) /\ stream \in Nat /\ stream < U32
          /\ Limit(stream) = MaxWindow
      BY <1>1, <2>3
    <3>2. stream - half.initialStream \in Int
      BY <2>1, <3>1
    <3> HIDE DEF A, B, C
    <3>3. /\ Shift(half.send, stream - half.initialStream) \in WindowMaps(S, MaxWindow)
          /\ Shift(half.recv, stream - half.initialStream) \in WindowMaps(S, MaxWindow)
      <4>1. half.send \in WindowMaps(S, B) /\ half.recv \in WindowMaps(S, B)
        BY <2>1 DEF Controllers
      <4>2. QED
        BY <1>2, <3>2, <4>1, ShiftTyped
    <3>4. d = SetInitialStream(half, stream)
      BY <1>4, <2>3 DEF UpdateInitialWindowSizes, Done, half
    <3>5. /\ SetInitialStream(half, stream) \in Controllers(S, C, MaxWindow)
          /\ SetInitialStream(half, stream).initialConn = half.initialConn
          /\ SetInitialStream(half, stream).initialStream = stream
          /\ SetInitialStream(half, stream).totalSent = half.totalSent
          /\ SetInitialStream(half, stream).totalReceived = half.totalReceived
      <4>1. half \in Controllers(S, C, B)
        BY <2>1 DEF C
      <4>2. QED
        BY <3>1, <3>3, <4>1 DEF SetInitialStream, Controllers
    <3>6. QED
      BY <2>1, <3>1, <3>4, <3>5 DEF C
  <2>4. QED
    BY <2>2, <2>3
<1>5. QED
  BY <1>3, <1>4

-----------------------------------------------------------------------------
(* What the methods do to the windows, as far as WindowOf can see it. *)

\* Inserting under a key changes that window and no other.
LEMMA WindowOfInsert ==
  ASSUME NEW w, NEW s, NEW v, NEW t
  PROVE  WindowOf(Insert(w, s, v), t) = IF t = s THEN v ELSE WindowOf(w, t)
  BY DEF WindowOf, Insert

\* Removing a key changes no other window.
LEMMA WindowOfRemove ==
  ASSUME NEW w, NEW s, NEW t, t # s
  PROVE  WindowOf(Remove(w, s), t) = WindowOf(w, t)
  BY DEF WindowOf, Remove

\* initialize_stream gives a stream two fresh windows, remove_stream drops them.
LEMMA LifeEffect ==
  ASSUME NEW S, NEW A \in Nat, NEW B \in Nat, NEW c \in Controllers(S, A, B), NEW s \in S, s # Connection
  PROVE  /\ InitializeStream(c, s).fc.send = Insert(c.send, s, c.initialStream)
         /\ InitializeStream(c, s).fc.recv = Insert(c.recv, s, c.initialStream)
         /\ RemoveStream(c, s).send = Remove(c.send, s)
         /\ RemoveStream(c, s).recv = Remove(c.recv, s)
  BY DEF InitializeStream, RemoveStream, Done, Controllers

\* A reservation that is not blocked takes the bytes from both windows.
LEMMA ReserveEffect ==
  ASSUME NEW S, NEW A \in Nat, NEW B \in Nat, NEW c \in Controllers(S, A, B), NEW s \in S, NEW n \in Nat,
         s # Connection, ~WasBlocked(ReserveSendWindow(c, s, n))
  PROVE  LET d == ReserveSendWindow(c, s, n).fc
         IN /\ n <= c.connSend
            /\ n <= WindowOf(c.send, s)
            /\ d.connSend = c.connSend - n
            /\ d.send = Insert(c.send, s, WindowOf(c.send, s) - n)
<1>1. c.connSend \in Nat /\ WindowOf(c.send, s) \in Nat
  BY WindowOfTyped, WindowLimits DEF Controllers, Window
<1> DEFINE out == ReserveSendWindow(c, s, n)
           d == [c EXCEPT !.connSend = @ - n, !.totalSent = @ + n,
                          !.send = Insert(@, s, WindowOf(c.send, s) - n)]
<1>2. ~(c.connSend < n) /\ ~(WindowOf(c.send, s) < n)
  BY DEF WasBlocked, ReserveSendWindow, Done, Blocked
<1>3. out.fc = d
  BY <1>2 DEF ReserveSendWindow, Done
<1>4. d.connSend = c.connSend - n /\ d.send = Insert(c.send, s, WindowOf(c.send, s) - n)
  BY DEF Controllers
<1> HIDE DEF out, d
<1>5. QED
  BY <1>1, <1>2, <1>3, <1>4 DEF out

\* Received bytes: refused by the connection, refused by the stream after the
\* connection was charged, or taken from both windows.
LEMMA ReceiveEffect ==
  ASSUME NEW S, NEW A \in Nat, NEW B \in Nat, NEW c \in Controllers(S, A, B), NEW s \in S, NEW n \in Nat,
         s # Connection, n <= c.connRecv
  PROVE  LET out == ProcessReceivedData(c, s, n)
             d   == out.fc
         IN /\ d.connRecv = c.connRecv - n
            /\ WindowOf(c.recv, s) < n => ~out.ok /\ out.events = {} /\ d.recv = c.recv
            /\ n <= WindowOf(c.recv, s) =>
                 /\ out.ok
                 /\ d.recv = Insert(c.recv, s, WindowOf(c.recv, s) - n)
                 /\ out.events =
                      UpdateNeededIf(c.connRecv - n, c.initialConn, Connection) \cup
                      UpdateNeededIf(WindowOf(c.recv, s) - n, c.initialStream, s)
<1> DEFINE charged == [c EXCEPT !.connRecv = @ - n, !.totalReceived = @ + n]
           left == WindowOf(c.recv, s) - n
           events == UpdateNeededIf(c.connRecv - n, c.initialConn, Connection) \cup
                     UpdateNeededIf(left, c.initialStream, s)
           out == ProcessReceivedData(c, s, n)
<1>1. c.connRecv \in Nat /\ WindowOf(c.recv, s) \in Nat
  BY WindowOfTyped, WindowLimits DEF Controllers, Window
<1>2. ~(c.connRecv < n)
  BY <1>1
<1>3. charged.connRecv = c.connRecv - n /\ charged.recv = c.recv
  BY DEF Controllers
<1>4. CASE WindowOf(c.recv, s) < n
  <2>1. left < 0
    BY <1>1, <1>4
  <2>2. out = Failed(charged)
    BY <1>2, <2>1 DEF ProcessReceivedData
  <2> HIDE DEF charged, out
  <2>3. QED
    BY <1>1, <1>3, <1>4, <2>2 DEF Failed, out
<1>5. CASE n <= WindowOf(c.recv, s)
  <2>1. ~(left < 0)
    BY <1>1, <1>5
  <2>2. out = Done([charged EXCEPT !.recv = Insert(charged.recv, s, left)], events)
    BY <1>2, <2>1 DEF ProcessReceivedData
  <2>3. /\ [charged EXCEPT !.recv = Insert(charged.recv, s, left)].connRecv = c.connRecv - n
        /\ [charged EXCEPT !.recv = Insert(charged.recv, s, left)].recv = Insert(c.recv, s, left)
    BY DEF Controllers
  <2> HIDE DEF charged, out, left, events
  <2>4. /\ out.ok
        /\ out.events = events
        /\ out.fc.connRecv = c.connRecv - n
        /\ out.fc.recv = Insert(c.recv, s, left)
    BY <2>2, <2>3 DEF Done
  <2>5. QED
    BY <1>1, <1>5, <2>4 DEF out, left, events
<1>6. QED
  BY <1>1, <1>4, <1>5

\* An increment that fits is added to the window it names and to no other.
LEMMA UpdateSendEffect ==
  ASSUME NEW S, NEW A \in Nat, NEW B \in Nat, NEW c \in Controllers(S, A, B), NEW x \in S \cup {Connection}, NEW inc \in Nat,
         SendWindow(c, x) + inc <= MaxWindow
  PROVE  LET d == UpdateSendWindow(c, x, inc).fc
         IN /\ x = Connection => d.connSend = c.connSend + inc /\ d.send = c.send
            /\ x # Connection =>
                 d.connSend = c.connSend /\ d.send = Insert(c.send, x, WindowOf(c.send, x) + inc)
<1>1. c.connSend \in Nat /\ WindowOf(c.send, x) \in Nat
  BY WindowOfTyped, WindowLimits DEF Controllers, Window
<1>2. ~(SendWindow(c, x) + inc > MaxWindow)
  BY <1>1, WindowLimits DEF SendWindow
<1>3. QED
  BY <1>2 DEF UpdateSendWindow, Done, Controllers

\* An update that fits the receive window adds to it.
LEMMA UpdateRecvEffect ==
  ASSUME NEW S, NEW A \in Nat, NEW B \in Nat, NEW c \in Controllers(S, A, B), NEW x \in S \cup {Connection}, NEW inc \in Nat,
         RecvWindow(c, x) + inc <= MaxWindow
  PROVE  LET d == UpdateRecvWindow(c, x, inc).fc
         IN /\ x = Connection => d.connRecv = c.connRecv + inc /\ d.recv = c.recv
            /\ x # Connection =>
                 d.connRecv = c.connRecv /\ d.recv = Insert(c.recv, x, WindowOf(c.recv, x) + inc)
<1>1. c.connRecv \in Nat /\ WindowOf(c.recv, x) \in Nat
  BY WindowOfTyped, WindowLimits DEF Controllers, Window
<1>2. ~(RecvWindow(c, x) + inc > MaxWindow)
  BY <1>1, WindowLimits DEF RecvWindow
<1>3. QED
  BY <1>2 DEF UpdateRecvWindow, Done, Controllers
=============================================================================
