----------------------------- MODULE FlowControl -----------------------------
(***************************************************************************)
(* One FlowController driven by an arbitrary caller: any public method, in *)
(* any order, with any arguments of the instance.  This is the machine the *)
(* facts that hold whatever the caller does are stated about.              *)
(***************************************************************************)
EXTENDS FlowController

CONSTANTS Streams,       \* the non-zero stream ids the caller uses
          Amounts,       \* the byte counts and increments it passes
          InitialSizes,  \* the initial window sizes it configures: any u32
          MaxTotal,      \* bound on each of the two u64 byte counters
          MaxPending     \* bound on the length of pending_updates

ASSUME CallerArguments ==
  /\ Streams \subseteq Nat \ {Connection}
  /\ Amounts \subseteq Nat
  /\ InitialSizes \subseteq 0 .. U32 - 1
  /\ MaxTotal \in Nat
  /\ MaxPending \in Nat

VARIABLES
  fc,        \* the controller
  granted    \* history: the connection credit granted so far, per direction

vars == <<fc, granted>>

StreamIds == Streams \cup {Connection}

\* FlowController::new takes any two sizes; only a later resize validates them.
Init ==
  \E conn, stream \in InitialSizes :
    /\ fc = NewController(conn, stream)
    /\ granted = [send |-> conn, recv |-> conn]

-----------------------------------------------------------------------------
Initialize(s) ==
  /\ fc' = InitializeStream(fc, s).fc
  /\ UNCHANGED granted

Forget(s) ==
  /\ fc' = RemoveStream(fc, s)
  /\ UNCHANGED granted

Send(s, n) ==
  /\ fc.totalSent + n <= MaxTotal
  /\ fc' = ReserveSendWindow(fc, s, n).fc
  /\ UNCHANGED granted

Receive(s, n) ==
  /\ fc.totalReceived + n <= MaxTotal
  /\ fc' = ProcessReceivedData(fc, s, n).fc
  /\ UNCHANGED granted

GrantSend(s, inc) ==
  LET out == UpdateSendWindow(fc, s, inc)
  IN /\ fc' = out.fc
     /\ granted' = IF s = Connection /\ out.ok
                   THEN [granted EXCEPT !.send = @ + inc] ELSE granted

GrantRecv(s, inc) ==
  LET out == UpdateRecvWindow(fc, s, inc)
  IN /\ fc' = out.fc
     /\ granted' = IF s = Connection /\ out.ok
                   THEN [granted EXCEPT !.recv = @ + inc] ELSE granted

QueueUpdate ==
  /\ fc.pending < MaxPending
  /\ fc' = AddPendingUpdate(fc)
  /\ UNCHANGED granted

DropQueue ==
  /\ fc' = ClearPendingUpdates(fc)
  /\ UNCHANGED granted

\* A change of the initial size grants, or takes back, what it moves the
\* connection's windows by.
Resize(conn, stream) ==
  /\ fc' = UpdateInitialWindowSizes(fc, conn, stream).fc
  /\ granted' = [send |-> granted.send + (fc'.connSend - fc.connSend),
                 recv |-> granted.recv + (fc'.connRecv - fc.connRecv)]

StartOver ==
  /\ fc' = Reset(fc)
  /\ granted' = [send |-> fc.initialConn, recv |-> fc.initialConn]

Next ==
  \/ \E s \in StreamIds : Initialize(s) \/ Forget(s)
  \/ \E s \in StreamIds, n \in Amounts :
       \/ Send(s, n)
       \/ Receive(s, n)
       \/ GrantSend(s, n)
       \/ GrantRecv(s, n)
  \/ QueueUpdate
  \/ DropQueue
  \/ \E conn, stream \in InitialSizes \cup {None} : Resize(conn, stream)
  \/ StartOver

Spec == Init /\ [][Next]_vars

-----------------------------------------------------------------------------
\* In every sequence of calls no u32 subtraction of the controller wraps, nothing
\* is filed under stream 0, and no window is above MAX_WINDOW_SIZE unless the
\* size new() was given is, which then bounds it: no increment takes a window past
\* the limit, and a resize, which validates, brings back all it applies to.
TypeOK ==
  /\ fc.initialConn < U32 /\ fc.initialStream < U32
  /\ fc \in Controllers(Streams, Limit(fc.initialConn), Limit(fc.initialStream))
  /\ granted \in [send : Int, recv : Int]

\* The connection's credit is never lost or created by sending or receiving,
\* whichever way a call ends: what is left of the window and what has been
\* counted in total_bytes_sent (total_bytes_received) is exactly what was
\* granted.  A debit without its count, or a count on a refused call, breaks it.
ConnectionLedger ==
  /\ fc.connSend + fc.totalSent = granted.send
  /\ fc.connRecv + fc.totalReceived = granted.recv

\* can_send, effective_send_window and reserve_send_window are three separate
\* readings of the same windows.  For a known stream they agree on which
\* amounts can be sent, and a reservation that is blocked changes nothing.
SendPathsAgree ==
  \A s \in StreamIds, n \in Amounts :
    LET out == ReserveSendWindow(fc, s, n)
    IN /\ WasBlocked(out) => out.fc = fc /\ ~CanSend(fc, s, n)
       /\ s = Connection \/ s \in DOMAIN fc.send =>
            (CanSend(fc, s, n) <=> ~WasBlocked(out) /\ n <= EffectiveSendWindow(fc, s))

\* An increment announced by process_received_data brings the receive window back
\* to exactly its initial size when update_recv_window takes it, and it is taken
\* exactly when that size is within MAX_WINDOW_SIZE.  Above it, where new() lets it
\* be, every announced update is refused and the window stays low for good.
AnnouncedUpdateRestores ==
  \A s \in StreamIds, n \in Amounts :
    LET out == ProcessReceivedData(fc, s, n)
    IN \A e \in out.events :
         LET after   == UpdateRecvWindow(out.fc, e.stream, e.increment)
             initial == IF e.stream = Connection THEN fc.initialConn ELSE fc.initialStream
         IN /\ after.ok <=> initial <= MaxWindow
            /\ after.ok => RecvWindow(after.fc, e.stream) = initial
            /\ ~after.ok => after.fc = out.fc

\* Bytes are counted as sent only by a reservation, which takes exactly its own
\* amount from the connection's window and from the window of the stream it names,
\* and from no other; bytes of the connection itself are taken from no stream.
DebitsAgree ==
  [][ fc'.totalSent > fc.totalSent =>
        \E s \in StreamIds, n \in Amounts :
          /\ Send(s, n)
          /\ fc'.totalSent = fc.totalSent + n
          /\ fc'.connSend = fc.connSend - n
          /\ fc'.send = IF s = Connection THEN fc.send
                        ELSE [fc.send EXCEPT ![s] = @ - n] ]_vars

\* A call that fails halfway leaves no trace on the streams.  The code debits
\* the connection before it checks the stream (process_received_data), and
\* resizes the connection before it validates the stream's size
\* (update_initial_window_sizes): the connection may move, the streams may not.
FailureSparesStreams ==
  /\ \A s \in StreamIds, n \in Amounts :
       LET out == ProcessReceivedData(fc, s, n)
       IN ~out.ok => out.fc.recv = fc.recv /\ out.events = {}
  /\ \A conn, stream \in InitialSizes \cup {None} :
       LET out == UpdateInitialWindowSizes(fc, conn, stream)
       IN ~out.ok => /\ out.fc.send = fc.send
                     /\ out.fc.recv = fc.recv
                     /\ out.fc.initialStream = fc.initialStream
=============================================================================
