----------------------------- MODULE StreamState -----------------------------
(***************************************************************************)
(* One stream of protocol/stream.rs: a StreamState is a record, and every  *)
(* method of the code is an operator on it.  A fallible method returns the *)
(* record it leaves behind (an error does not undo what was assigned       *)
(* before it), whether it returned Ok, and the kinds of the events it      *)
(* returned.                                                               *)
(*                                                                         *)
(* send and recv are the stream's OWN windows.  The FlowController keeps   *)
(* another pair for the same stream, and no method relates the two.  stale *)
(* says that last_activity lies further back than the idle timeout.  Left  *)
(* out is what no method reads back to decide anything: the byte counters, *)
(* the priority, the reset flag and its error code, and headers_received,  *)
(* which only keeps HeadersReceived from being reported twice.             *)
(***************************************************************************)
EXTENDS Integers

CONSTANTS InitialWindow,   \* StreamConfig::initial_window_size
          WindowLimit      \* u32::MAX, the limit of a stream's own windows

ASSUME StreamWindows ==
  /\ InitialWindow \in Nat
  /\ WindowLimit \in Nat
  /\ InitialWindow <= WindowLimit

StreamStateType ==
  {"Idle", "Open", "HalfClosedLocal", "HalfClosedRemote", "Closed",
   "ReservedLocal", "ReservedRemote"}

StreamStates ==
  [state : StreamStateType, send : 0 .. WindowLimit, recv : 0 .. WindowLimit,
   headersSent : BOOLEAN, endReceived : BOOLEAN, endSent : BOOLEAN, stale : BOOLEAN]

NewStream ==
  [state |-> "Idle", send |-> InitialWindow, recv |-> InitialWindow,
   headersSent |-> FALSE, endReceived |-> FALSE, endSent |-> FALSE, stale |-> FALSE]

InState(st, state) == [st EXCEPT !.state = state]

\* What the manager files for a stream it creates: new, and already Open.
OpenStream == InState(NewStream, "Open")

IsClosed(st)      == st.state = "Closed"
StreamCanSend(st) == st.state \in {"Open", "HalfClosedRemote"}
StreamCanReceive(st) == st.state \in {"Open", "HalfClosedLocal"}

Ok(st, events) == [st |-> st, ok |-> TRUE, events |-> events]
Err(st)        == [st |-> st, ok |-> FALSE, events |-> {}]

Touched(st) == [st EXCEPT !.stale = FALSE]   \* last_activity = Instant::now()

-----------------------------------------------------------------------------
(* The end of the stream, from either side.  The flag is set first, so it  *)
(* stays set when the state does not allow the transition.                 *)

\* Faulty: does not see that our own end was sent before.
EndReceivedForgetsOurs(st, events) ==
  LET flagged == [st EXCEPT !.endReceived = TRUE]
  IN IF StreamCanReceive(st) THEN Ok(InState(flagged, "HalfClosedRemote"), events)
     ELSE Err(flagged)

EndReceived(st, events) ==
  LET flagged == [st EXCEPT !.endReceived = TRUE]
      all     == events \cup {"EndStreamReceived"}
  IN CASE st.state = "Open"            -> Ok(InState(flagged, "HalfClosedRemote"), all)
       [] st.state = "HalfClosedLocal" -> Ok(InState(flagged, "Closed"), all)
       [] OTHER                        -> Err(flagged)

\* Faulty: a stream the peer has ended stays half-closed.
EndSentKeepsHalf(st) ==
  LET flagged == [st EXCEPT !.endSent = TRUE]
  IN IF StreamCanSend(st) THEN Ok(InState(flagged, "HalfClosedLocal"), {}) ELSE Err(flagged)

EndSent(st) ==
  LET flagged == [st EXCEPT !.endSent = TRUE]
  IN CASE st.state = "Open"             -> Ok(InState(flagged, "HalfClosedLocal"), {})
       [] st.state = "HalfClosedRemote" -> Ok(InState(flagged, "Closed"), {})
       [] OTHER                         -> Err(flagged)

-----------------------------------------------------------------------------
(* Frames: Headers(end_stream), Data(length, end_stream), or any other type *)
(* that carries a stream id.  The state of the stream is never asked.       *)

HeadersFrame(end) == [type |-> "Headers", length |-> 0, end |-> end]
DataFrame(n, end) == [type |-> "Data", length |-> n, end |-> end]
OtherFrame        == [type |-> "Other", length |-> 0, end |-> FALSE]

\* Faulty: the frame is charged without looking at the window.
ProcessFrameUnchecked(st, f) ==
  LET charged == [st EXCEPT !.recv = @ - f.length]
  IN CASE f.type = "Other" -> Ok(st, {})
       [] f.type = "Headers" -> Ok(st, {"HeadersReceived"})
       [] f.end -> EndReceived(charged, {"DataReceived"})
       [] OTHER -> Ok(charged, {"DataReceived"})

ProcessFrame(st, f) ==
  LET charged == [st EXCEPT !.recv = @ - f.length]
  IN CASE f.type = "Other" -> Ok(st, {})
       [] f.type = "Headers" /\ ~f.end -> Ok(st, {"HeadersReceived"})
       [] f.type = "Headers" /\ f.end  -> EndReceived(st, {"HeadersReceived"})
       [] f.type = "Data" /\ f.length > st.recv -> Err(st)
       [] f.type = "Data" /\ f.length <= st.recv /\ ~f.end -> Ok(charged, {"DataReceived"})
       [] f.type = "Data" /\ f.length <= st.recv /\ f.end ->
            EndReceived(charged, {"DataReceived"})

-----------------------------------------------------------------------------
(* The local side. *)

OpenLocal(st) == IF st.state = "Idle" THEN Ok(Touched(InState(st, "Open")), {}) ELSE Err(st)

\* Reset needs no state and leaves every window as it is.
ResetStream(st) == Touched(InState(st, "Closed"))

SendHeaders(st, end) ==
  LET sent == Touched([st EXCEPT !.headersSent = TRUE])
  IN IF ~StreamCanSend(st) \/ st.headersSent THEN Err(st)
     ELSE IF end THEN EndSent(sent)
     ELSE Ok(sent, {})

\* Faulty: bytes are sent while the window lasts, whatever the state.
SendDataAnyState(st, n, end) ==
  LET sent == Touched([st EXCEPT !.send = @ - n])
  IN IF n > st.send THEN Err(st)
     ELSE IF end THEN EndSent(sent)
     ELSE Ok(sent, {})

SendData(st, n, end) ==
  LET sent == Touched([st EXCEPT !.send = @ - n])
  IN IF ~StreamCanSend(st) \/ n > st.send THEN Err(st)
     ELSE IF end THEN EndSent(sent)
     ELSE Ok(sent, {})

GrowSend(st, inc) ==
  IF st.send + inc > WindowLimit THEN Err(st) ELSE Ok(Touched([st EXCEPT !.send = @ + inc]), {})

GrowRecv(st, inc) ==
  IF st.recv + inc > WindowLimit THEN Err(st) ELSE Ok(Touched([st EXCEPT !.recv = @ + inc]), {})

\* can_transition_to: what the documentation of the states allows.  No method
\* consults it.
CanTransition(from, to) ==
  \/ to = from
  \/ to = "Closed"
  \/ from = "Idle" /\ to \in {"Open", "ReservedLocal", "ReservedRemote"}
  \/ from = "Open" /\ to \in {"HalfClosedLocal", "HalfClosedRemote"}
  \/ from = "ReservedLocal" /\ to = "HalfClosedRemote"
  \/ from = "ReservedRemote" /\ to = "HalfClosedLocal"
=============================================================================
