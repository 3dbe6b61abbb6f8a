--------------------------- MODULE FlowController ---------------------------
(***************************************************************************)
(* The flow-control bookkeeping of protocol/flow_control.rs: one           *)
(* FlowController is a record, and every method of the code is an operator *)
(* on that record.  A fallible method returns an Outcome: the controller   *)
(* it leaves behind, whether it returned Ok, and the events it returned.   *)
(* The state machines FlowControl, FlowLink and StreamManager are built    *)
(* from these operators.                                                   *)
(*                                                                         *)
(* A HashMap<u64, u32> of windows is a function whose DOMAIN is the set of *)
(* keys, so a missing entry and an entry 0 stay different.  Windows are    *)
(* naturals: the code adds them in u64 and subtracts only below a guard.   *)
(* The initial sizes are any u32, as new() checks nothing: one above       *)
(* MAX_WINDOW_SIZE starts its windows out of the limits.                   *)
(***************************************************************************)
EXTENDS Integers

CONSTANTS MinWindow,   \* MIN_WINDOW_SIZE, 1024 in the code
          MaxWindow,   \* MAX_WINDOW_SIZE, 2^31 - 1 in the code
          U32,         \* the number of u32 values, 2^32
          ExactF32     \* 2^24: the integers up to it are exact as an f32

ASSUME WindowLimits ==
  /\ MinWindow \in Nat \ {0}
  /\ MaxWindow \in Nat
  /\ MinWindow <= MaxWindow
  /\ U32 \in Nat /\ 2 * MaxWindow < U32
  /\ ExactF32 \in Nat \ {0} /\ U32 <= 256 * ExactF32

Connection == 0                  \* the stream id that stands for the connection
NoWindows  == [s \in {} |-> 0]   \* HashMap::new()

Insert(w, s, v) == [x \in DOMAIN w \cup {s} |-> IF x = s THEN v ELSE w[x]]
Remove(w, s)    == [x \in DOMAIN w \ {s} |-> w[x]]
WindowOf(w, s)  == IF s \in DOMAIN w THEN w[s] ELSE 0

NewController(connWindow, streamWindow) ==
  [connSend |-> connWindow, connRecv |-> connWindow, initialConn |-> connWindow,
   send |-> NoWindows, recv |-> NoWindows, initialStream |-> streamWindow,
   totalSent |-> 0, totalReceived |-> 0, pending |-> 0]

\* Every well-typed controller whose maps file only the given streams, and whose
\* windows stay below a top, one for the connection and one for the streams.
Window(top) == 0 .. top

WindowMaps(streams, top) == UNION {[known -> Window(top)] : known \in SUBSET streams}

Controllers(streams, connTop, streamTop) ==
  [connSend : Window(connTop), connRecv : Window(connTop), initialConn : Window(connTop),
   send : WindowMaps(streams, streamTop), recv : WindowMaps(streams, streamTop),
   initialStream : Window(streamTop),
   totalSent : Nat, totalReceived : Nat, pending : Nat]

\* A window is above MAX_WINDOW_SIZE only if its initial size was.
Limit(initial) == IF initial > MaxWindow THEN initial ELSE MaxWindow

-----------------------------------------------------------------------------
(* Outcomes and events. *)

Done(fc, events) == [fc |-> fc, ok |-> TRUE, events |-> events]
Failed(fc)       == [fc |-> fc, ok |-> FALSE, events |-> {}]

Blocked(s)           == [type |-> "FlowControlBlocked", stream |-> s]
Exhausted(s)         == [type |-> "WindowExhausted", stream |-> s]
UpdateNeeded(s, inc) == [type |-> "WindowUpdateNeeded", stream |-> s, increment |-> inc]

WasBlocked(out) == \E e \in out.events : e.type = "FlowControlBlocked"

-----------------------------------------------------------------------------
(* The windows as the rest of the program reads them. *)

SendWindow(fc, s) == IF s = Connection THEN fc.connSend ELSE WindowOf(fc.send, s)
RecvWindow(fc, s) == IF s = Connection THEN fc.connRecv ELSE WindowOf(fc.recv, s)

EffectiveSendWindow(fc, s) ==
  IF SendWindow(fc, s) < fc.connSend THEN SendWindow(fc, s) ELSE fc.connSend

\* Faulty: forgets the stream's own window.
CanSendConnectionOnly(fc, s, n) ==
  /\ fc.connSend >= n
  /\ s # Connection => s \in DOMAIN fc.send

CanSend(fc, s, n) ==
  /\ fc.connSend >= n
  /\ s # Connection => s \in DOMAIN fc.send /\ fc.send[s] >= n

\* The f32 nearest to a u32: above ExactF32 the spacing doubles with every power
\* of two, and a tie goes to the even multiple.
AsF32(n) ==
  LET Spacing(u) == (u \div 2) * ExactF32 <= n /\ n < u * ExactF32
      Nearest(u) == LET k  == n \div u
                        up == \/ 2 * (n % u) > u
                              \/ 2 * (n % u) = u /\ k % 2 = 1
                    IN IF up THEN (k + 1) * u ELSE k * u
  IN IF n < ExactF32 THEN n
     ELSE Nearest(CHOOSE u \in {2, 4, 8, 16, 32, 64, 128, 256} : Spacing(u))

\* (initial as f32 * WINDOW_UPDATE_THRESHOLD) as u32, with the constant 0.5: the
\* product is exact, the conversion to u32 cuts off.
Threshold(initial) == AsF32(initial) \div 2

NeedsWindowUpdate(window, initial) == window <= Threshold(initial)

\* Faulty: announces a whole new window instead of what was used up.
AnnounceWholeWindow(window, initial) == initial

CalculateWindowUpdate(window, initial) == initial - window

-----------------------------------------------------------------------------
(* Streams come and go. *)

InitializeStream(fc, s) ==
  IF s = Connection
  THEN Failed(fc)
  ELSE Done([fc EXCEPT !.send = Insert(@, s, fc.initialStream),
                       !.recv = Insert(@, s, fc.initialStream)], {})

RemoveStream(fc, s) ==
  [fc EXCEPT !.send = Remove(@, s), !.recv = Remove(@, s)]

-----------------------------------------------------------------------------
(* Sending: the connection is checked first, the stream second, and only   *)
(* then are the stream and the connection debited.                         *)

\* Faulty: debits the connection before the stream has been checked.
ReserveConnectionFirst(fc, s, n) ==
  LET taken == [fc EXCEPT !.connSend = @ - n]
  IN IF fc.connSend < n THEN Done(fc, {Blocked(Connection)})
     ELSE IF s = Connection THEN Done([taken EXCEPT !.totalSent = @ + n], {})
     ELSE IF WindowOf(fc.send, s) < n THEN Done(taken, {Blocked(s)})
     ELSE Done([taken EXCEPT !.totalSent = @ + n,
                             !.send = Insert(@, s, WindowOf(@, s) - n)], {})

\* Faulty: only the connection's window is checked.
ReserveUnchecked(fc, s, n) ==
  IF fc.connSend < n THEN Done(fc, {Blocked(Connection)})
  ELSE Done([fc EXCEPT !.connSend = @ - n, !.totalSent = @ + n,
                       !.send = IF s = Connection THEN @
                                ELSE Insert(@, s, WindowOf(@, s) - n)], {})

\* Faulty: a stream's bytes are not taken from the connection's window.
ReserveStreamOnly(fc, s, n) ==
  IF fc.connSend < n THEN Done(fc, {Blocked(Connection)})
  ELSE IF s # Connection /\ WindowOf(fc.send, s) < n THEN Done(fc, {Blocked(s)})
  ELSE Done([fc EXCEPT !.connSend = IF s = Connection THEN @ - n ELSE @,
                       !.totalSent = @ + n,
                       !.send = IF s = Connection THEN @
                                ELSE Insert(@, s, WindowOf(@, s) - n)], {})

ReserveSendWindow(fc, s, n) ==
  IF fc.connSend < n THEN Done(fc, {Blocked(Connection)})
  ELSE IF s # Connection /\ WindowOf(fc.send, s) < n THEN Done(fc, {Blocked(s)})
  ELSE LET left == fc.connSend - n
           streamLeft == WindowOf(fc.send, s) - n
       IN Done([fc EXCEPT !.connSend = left,
                          !.totalSent = @ + n,
                          !.send = IF s = Connection THEN @ ELSE Insert(@, s, streamLeft)],
               {Exhausted(x) : x \in {y \in {Connection, s} :
                    IF y = Connection THEN left = 0 ELSE streamLeft = 0}})

-----------------------------------------------------------------------------
(* Receiving: the connection is debited BEFORE the stream is checked, so a *)
(* frame refused for its stream has still been charged to the connection.  *)

UpdateNeededIf(window, initial, s) ==
  IF NeedsWindowUpdate(window, initial)
  THEN {UpdateNeeded(s, CalculateWindowUpdate(window, initial))}
  ELSE {}

\* Faulty: debits the stream down to zero, then finds that it was too small.
ReceiveSaturating(fc, s, n) ==
  LET charged == [fc EXCEPT !.connRecv = @ - n, !.totalReceived = @ + n]
      streamLeft == WindowOf(fc.recv, s) - n
  IN IF fc.connRecv < n THEN Failed(fc)
     ELSE IF s = Connection THEN Done(charged, {})
     ELSE IF streamLeft < 0 THEN Failed([charged EXCEPT !.recv = Insert(@, s, 0)])
     ELSE Done([charged EXCEPT !.recv = Insert(@, s, streamLeft)], {})

ProcessReceivedData(fc, s, n) ==
  LET charged == [fc EXCEPT !.connRecv = @ - n, !.totalReceived = @ + n]
      streamLeft == WindowOf(fc.recv, s) - n
      connEvents == UpdateNeededIf(fc.connRecv - n, fc.initialConn, Connection)
  IN IF fc.connRecv < n THEN Failed(fc)
     ELSE IF s = Connection THEN Done(charged, connEvents)
     ELSE IF streamLeft < 0 THEN Failed(charged)
     ELSE Done([charged EXCEPT !.recv = Insert(@, s, streamLeft)],
               connEvents \cup UpdateNeededIf(streamLeft, fc.initialStream, s))

-----------------------------------------------------------------------------
(* Window updates.  Neither asks whether the stream is known: an increment *)
(* for a stream that was never initialised, or was removed, inserts it.    *)

UpdateSendWindow(fc, s, inc) ==
  IF SendWindow(fc, s) + inc > MaxWindow THEN Failed(fc)
  ELSE IF s = Connection THEN Done([fc EXCEPT !.connSend = @ + inc], {})
  ELSE Done([fc EXCEPT !.send = Insert(@, s, WindowOf(@, s) + inc)], {})

UpdateRecvWindow(fc, s, inc) ==
  IF RecvWindow(fc, s) + inc > MaxWindow THEN Failed(fc)
  ELSE IF s = Connection THEN Done([fc EXCEPT !.connRecv = @ + inc], {})
  ELSE Done([fc EXCEPT !.recv = Insert(@, s, WindowOf(@, s) + inc)], {})

\* pending_updates is abstracted to its length, which get_stats reports: no
\* method of the program reads an entry back.
AddPendingUpdate(fc)    == [fc EXCEPT !.pending = @ + 1]
ClearPendingUpdates(fc) == [fc EXCEPT !.pending = 0]

-----------------------------------------------------------------------------
(* Initial windows changed while streams are open.  Each half is optional; *)
(* the connection's half takes effect before the stream's is validated.    *)

None == -1   \* Option::None

ValidInitial(w) == MinWindow <= w /\ w <= MaxWindow

\* Faulty: the i64 sum is stored without .max(0).
ClampAbove(x) == IF x > MaxWindow THEN MaxWindow ELSE x

\* .max(0) as u32, then .min(MAX_WINDOW_SIZE)
Clamp(x) ==
  LET cast == IF x < 0 THEN 0 ELSE x % U32
  IN IF cast > MaxWindow THEN MaxWindow ELSE cast

Shift(w, diff) == [s \in DOMAIN w |-> Clamp(w[s] + diff)]

SetInitialConn(fc, w) ==
  LET diff == w - fc.initialConn
  IN [fc EXCEPT !.initialConn = w,
                !.connSend = Clamp(@ + diff), !.connRecv = Clamp(@ + diff)]

SetInitialStream(fc, w) ==
  LET diff == w - fc.initialStream
  IN [fc EXCEPT !.initialStream = w, !.send = Shift(@, diff), !.recv = Shift(@, diff)]

UpdateInitialWindowSizes(fc, conn, stream) ==
  LET half == IF conn = None THEN fc ELSE SetInitialConn(fc, conn)
  IN IF conn # None /\ ~ValidInitial(conn) THEN Failed(fc)
     ELSE IF stream = None THEN Done(half, {})
     ELSE IF ~ValidInitial(stream) THEN Failed(half)
     ELSE Done(SetInitialStream(half, stream), {})

Reset(fc) == NewController(fc.initialConn, fc.initialStream)
=============================================================================
