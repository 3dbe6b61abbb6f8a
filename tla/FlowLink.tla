------------------------------ MODULE FlowLink ------------------------------
(***************************************************************************)
(* Two FlowControllers joined by a network: the sending end of one peer    *)
(* and the receiving end of the other.  Bytes and window updates are in    *)
(* flight, streams are opened, accepted, closed and reset while they are,  *)
(* and the streams' bytes arrive interleaved in any order.                 *)
(*                                                                         *)
(* What decides when the receiver grants credit is the driver.  The code   *)
(* offers two: "events" acts on the WindowUpdateNeeded events returned by  *)
(* process_received_data, at once; "poll" asks the stream manager's        *)
(* get_streams_needing_flow_control_updates now and then.  mode says which *)
(* one runs, and whether the receiver may reset a stream whose bytes are   *)
(* still in flight.                                                        *)
(***************************************************************************)
EXTENDS FlowController

CONSTANTS Streams,       \* the streams the sender opens
          ConnWindow,    \* initial window of the connection
          StreamWindow,  \* initial window of each stream
          MaxFrame,      \* bound on the bytes of one DATA frame
          MaxTotal,      \* bound on the bytes sent in a behaviour
          Modes          \* the modes to consider

Drivers == {"events", "poll"}

\* The last conjunct: the polled list compares every window with the one initial
\* size of the manager's configuration, from which StreamManager::new gives the
\* connection and the streams the same windows.
ASSUME LinkArguments ==
  /\ Streams \subseteq Nat \ {Connection}
  /\ ConnWindow \in 1 .. MaxWindow
  /\ StreamWindow \in 1 .. MaxWindow
  /\ MaxFrame \in Nat
  /\ MaxTotal \in Nat
  /\ Modes \subseteq [driver : Drivers, abrupt : BOOLEAN]
  /\ (\E m \in Modes : m.driver = "poll") => ConnWindow = StreamWindow

VARIABLES
  snd,        \* the sending peer's controller
  rcv,        \* the receiving peer's controller
  sendLife,   \* each stream at the sender
  recvLife,   \* each stream at the receiver
  wire,       \* bytes in flight: of each stream, and of all under Connection
  credit,     \* window update in flight for each stream and the connection
  mode

vars == <<snd, rcv, sendLife, recvLife, wire, credit, mode>>

StreamIds == Streams \cup {Connection}
Frames    == 1 .. MaxFrame

InitialWindow(x) == IF x = Connection THEN ConnWindow ELSE StreamWindow

Init ==
  /\ snd = NewController(ConnWindow, StreamWindow)
  /\ rcv = NewController(ConnWindow, StreamWindow)
  /\ sendLife = [s \in Streams |-> "idle"]
  /\ recvLife = [s \in Streams |-> "idle"]
  /\ wire = [x \in StreamIds |-> 0]
  /\ credit = [x \in StreamIds |-> 0]
  /\ mode \in Modes

-----------------------------------------------------------------------------
(* The sender. *)

Open(s) ==
  /\ sendLife[s] = "idle"
  /\ snd' = InitializeStream(snd, s).fc
  /\ sendLife' = [sendLife EXCEPT ![s] = "open"]
  /\ UNCHANGED <<rcv, recvLife, wire, credit, mode>>

Send(s, n) ==
  LET out == ReserveSendWindow(snd, s, n)
  IN /\ sendLife[s] = "open"
     /\ snd.totalSent + n <= MaxTotal
     /\ ~WasBlocked(out)
     /\ snd' = out.fc
     /\ wire' = [wire EXCEPT ![s] = @ + n, ![Connection] = @ + n]
     /\ UNCHANGED <<rcv, sendLife, recvLife, credit, mode>>

CloseSend(s) ==
  /\ sendLife[s] = "open"
  /\ snd' = RemoveStream(snd, s)
  /\ sendLife' = [sendLife EXCEPT ![s] = "closed"]
  /\ UNCHANGED <<rcv, recvLife, wire, credit, mode>>

\* A WINDOW_UPDATE arrives, for a stream that may have been closed since.
CreditArrives(x) ==
  /\ credit[x] > 0
  /\ snd' = UpdateSendWindow(snd, x, credit[x]).fc
  /\ credit' = [credit EXCEPT ![x] = 0]
  /\ UNCHANGED <<rcv, sendLife, recvLife, wire, mode>>

-----------------------------------------------------------------------------
(* The receiver. *)

\* The stream is accepted when its first bytes arrive, before they are processed.
Accept(s) ==
  /\ recvLife[s] = "idle"
  /\ wire[s] > 0
  /\ rcv' = InitializeStream(rcv, s).fc
  /\ recvLife' = [recvLife EXCEPT ![s] = "open"]
  /\ UNCHANGED <<snd, sendLife, wire, credit, mode>>

Announced(out, x) ==
  IF \E e \in out.events : e.type = "WindowUpdateNeeded" /\ e.stream = x
  THEN (CHOOSE e \in out.events : e.type = "WindowUpdateNeeded" /\ e.stream = x).increment
  ELSE 0

\* Grant an announced increment: WINDOW_UPDATE frames go out, the windows follow.
Granted(fc, x, inc) == IF inc = 0 THEN fc ELSE UpdateRecvWindow(fc, x, inc).fc

\* wire[Connection] is the sum of the streams' bytes, so n fits it, too.
Deliver(s, n) ==
  LET out == ProcessReceivedData(rcv, s, n)
      inc == [x \in {s, Connection} |-> Announced(out, x)]
  IN /\ recvLife[s] # "idle"
     /\ n <= wire[s]
     /\ wire' = [wire EXCEPT ![s] = @ - n, ![Connection] = @ - n]
     /\ \/ /\ mode.driver = "events"
           /\ rcv' = Granted(Granted(out.fc, s, inc[s]), Connection, inc[Connection])
           /\ credit' = [credit EXCEPT ![s] = @ + inc[s],
                                       ![Connection] = @ + inc[Connection]]
        \/ /\ mode.driver = "poll"
           /\ rcv' = out.fc
           /\ UNCHANGED credit
     /\ UNCHANGED <<snd, sendLife, recvLife, mode>>

\* The manager lists the connection and every stream it still holds, also the
\* closed ones it has not cleaned up yet.
Listed == {Connection} \cup {s \in Streams : recvLife[s] \in {"open", "closed"}}

\* The list halves the initial size as an integer, needs_window_update as an f32.
NeedsPolledUpdate(x) ==
  x \in Listed /\ RecvWindow(rcv, x) <= InitialWindow(x) \div 2

\* Faulty: sends the WINDOW_UPDATE and forgets update_recv_window.
PollForgetsWindow(x) ==
  /\ mode.driver = "poll"
  /\ NeedsPolledUpdate(x)
  /\ credit[x] = 0
  /\ credit' = [credit EXCEPT ![x] = InitialWindow(x) - RecvWindow(rcv, x)]
  /\ UNCHANGED <<snd, rcv, sendLife, recvLife, wire, mode>>

Poll(x) ==
  LET window == RecvWindow(rcv, x)
      inc    == CalculateWindowUpdate(window, InitialWindow(x))
  IN /\ mode.driver = "poll"
     /\ NeedsPolledUpdate(x)
     /\ rcv' = UpdateRecvWindow(rcv, x, inc).fc
     /\ credit' = [credit EXCEPT ![x] = @ + inc]
     /\ UNCHANGED <<snd, sendLife, recvLife, wire, mode>>

\* Orderly after the sender is done and everything has arrived; abrupt at any time.
CloseRecv(s) ==
  /\ recvLife[s] = "open"
  /\ mode.abrupt \/ (sendLife[s] = "closed" /\ wire[s] = 0)
  /\ rcv' = RemoveStream(rcv, s)
  /\ recvLife' = [recvLife EXCEPT ![s] = "closed"]
  /\ UNCHANGED <<snd, sendLife, wire, credit, mode>>

CleanUp(s) ==
  /\ recvLife[s] = "closed"
  /\ rcv' = RemoveStream(rcv, s)
  /\ recvLife' = [recvLife EXCEPT ![s] = "gone"]
  /\ UNCHANGED <<snd, sendLife, wire, credit, mode>>

Next ==
  \/ \E s \in Streams :
       Open(s) \/ CloseSend(s) \/ Accept(s) \/ CloseRecv(s) \/ CleanUp(s)
  \/ \E s \in Streams, n \in Frames : Send(s, n) \/ Deliver(s, n)
  \/ \E x \in StreamIds : CreditArrives(x) \/ Poll(x)

\* The network is reliable and the driver keeps running; nobody is obliged to
\* send, to open or to close.
Fairness ==
  /\ \A s \in Streams :
       WF_vars(Accept(s)) /\ WF_vars(\E n \in Frames : Deliver(s, n))
  /\ \A x \in StreamIds : WF_vars(CreditArrives(x)) /\ WF_vars(Poll(x))

Spec     == Init /\ [][Next]_vars
FairSpec == Spec /\ Fairness

-----------------------------------------------------------------------------
\* Both ends' windows stay in range whatever crosses on the way: no grant takes a
\* window past MAX_WINDOW_SIZE and no debit below 0, and initial sizes never move.
TypeOK ==
  /\ snd \in Controllers(Streams, MaxWindow, MaxWindow)
  /\ rcv \in Controllers(Streams, MaxWindow, MaxWindow)
  /\ rcv.initialConn = ConnWindow /\ rcv.initialStream = StreamWindow
  /\ snd.initialStream = StreamWindow
  /\ sendLife \in [Streams -> {"idle", "open", "closed"}]
  /\ recvLife \in [Streams -> {"idle", "open", "closed", "gone"}]
  /\ wire \in [StreamIds -> Nat]
  /\ credit \in [StreamIds -> Nat]
  /\ mode \in Modes

\* On the connection: what the sender may still send, what is in flight and what
\* has been granted but has not arrived add up to what the receiver will take.
ConnectionCreditConserved ==
  snd.connSend + wire[Connection] + credit[Connection] = rcv.connRecv

\* The same on each stream, from before it is accepted until either end drops it.
StreamCreditConserved ==
  \A s \in Streams : sendLife[s] = "open" =>
    /\ recvLife[s] = "idle" =>
         WindowOf(snd.send, s) + wire[s] = StreamWindow /\ credit[s] = 0
    /\ recvLife[s] = "open" =>
         WindowOf(snd.send, s) + wire[s] + credit[s] = WindowOf(rcv.recv, s)

\* Credit is conserved between the two controllers, which never look at each
\* other: debits in reserve_send_window and process_received_data match, and every
\* increment that was granted is applied once, at both ends.
CreditConserved == ConnectionCreditConserved /\ StreamCreditConserved

\* A peer that respects its windows is never refused: whatever arrives on an
\* open stream fits both receive windows, however the deliveries interleave
\* with grants, resets of other streams and the sender's own close.
NeverRefused ==
  \A s \in Streams, n \in Frames :
    recvLife[s] = "open" /\ n <= wire[s] => ProcessReceivedData(rcv, s, n).ok

\* The receiver never commits to buffer more than the initial windows.
NeverOvercommitted ==
  \A x \in StreamIds : RecvWindow(rcv, x) <= InitialWindow(x)

NothingToGrant ==
  mode.driver = "poll" => \A x \in StreamIds : ~NeedsPolledUpdate(x)

Quiet == NothingToGrant /\ \A x \in StreamIds : wire[x] = 0 /\ credit[x] = 0

\* When nothing is in flight and the driver has nothing to grant, the sender
\* can send on the connection: no reset, refusal or close has leaked its credit.
ConnectionNeverStalls == Quiet => snd.connSend > 0

OutOfCredit(s) ==
  /\ sendLife[s] = "open"
  /\ recvLife[s] \in {"idle", "open"}
  /\ EffectiveSendWindow(snd, s) = 0

\* A sender out of credit on a stream that stays open at both ends is
\* eventually given credit again: what it could send always reaches the
\* threshold below which the receiver grants.
BlockedSenderResumes == \A s \in Streams : OutOfCredit(s) ~> ~OutOfCredit(s)
=============================================================================
