------------------------ MODULE StreamManagerProofs ------------------------
(***************************************************************************)
(* What the StreamManager guarantees for every set of ids and frames, every *)
(* limit, schedule and bound: the peer's ids are taken in rising order, the *)
(* streams' states change only as their documentation allows, a stream that *)
(* was created or accepted keeps its flow-control windows while open, the   *)
(* queue and the tree repeat no stream, a sweep leaves no trace of those it *)
(* takes, and every window stays in range.                                  *)
(***************************************************************************)
EXTENDS StreamManager, FlowControllerProofs, WellFoundedInduction

\* max_remote_stream_id is kept apart from the map of streams.  It bounds every
\* id ever taken, which is what makes the next one larger than all of them.
RemoteIds ==
  /\ maxRemote \in Nat
  /\ accepted \in Seq(Nat)
  /\ \A i \in DOMAIN accepted : accepted[i] <= maxRemote

RemoteInv == RemoteIds /\ AcceptedInOrder

\* Appending a number above all others keeps a sequence rising, and bounded by
\* its new last element (accept_stream, and the counter of create_stream).
LEMMA AppendAbove ==
  ASSUME NEW seq \in Seq(Nat), NEW top \in Nat, NEW x \in Nat, x > top,
         \A i \in DOMAIN seq : seq[i] <= top,
         \A i, j \in DOMAIN seq : i < j => seq[i] < seq[j]
  PROVE  /\ Append(seq, x) \in Seq(Nat)
         /\ \A i \in DOMAIN Append(seq, x) : Append(seq, x)[i] <= x
         /\ \A i, j \in DOMAIN Append(seq, x) :
              i < j => Append(seq, x)[i] < Append(seq, x)[j]
<1> DEFINE longer == Append(seq, x)
<1>1. longer \in Seq(Nat) /\ Len(longer) = Len(seq) + 1
  OBVIOUS
<1>2. DOMAIN longer = 1 .. Len(seq) + 1 /\ DOMAIN seq = 1 .. Len(seq)
  BY <1>1
<1>3. \A i \in 1 .. Len(seq) : longer[i] = seq[i] /\ seq[i] \in Nat
  OBVIOUS
<1>4. longer[Len(seq) + 1] = x
  OBVIOUS
<1>5. \A i \in DOMAIN longer : longer[i] <= x
  <2> SUFFICES ASSUME NEW i \in DOMAIN longer PROVE longer[i] <= x
    OBVIOUS
  <2>1. CASE i \in 1 .. Len(seq)
    BY <2>1, <1>2, <1>3
  <2>2. CASE i = Len(seq) + 1
    BY <2>2, <1>4
  <2> QED
    BY <2>1, <2>2, <1>2
<1>6. \A i, j \in DOMAIN longer : i < j => longer[i] < longer[j]
  <2> SUFFICES ASSUME NEW i \in DOMAIN longer, NEW j \in DOMAIN longer, i < j
               PROVE  longer[i] < longer[j]
    OBVIOUS
  <2>1. i \in 1 .. Len(seq)
    BY <1>2
  <2>2. CASE j \in 1 .. Len(seq)
    BY <2>1, <2>2, <1>2, <1>3
  <2>3. CASE j = Len(seq) + 1
    <3>1. longer[i] = seq[i] /\ seq[i] \in Nat /\ seq[i] <= top
      BY <2>1, <1>2, <1>3
    <3> QED
      BY <3>1, <2>3, <1>4
  <2> QED
    BY <2>2, <2>3, <1>2
<1> QED
  BY <1>1, <1>5, <1>6

\* accept_stream is the only operation that moves the peer's ids.
LEMMA RemoteStep == RemoteInv /\ [Next]_vars => RemoteInv'
<1> SUFFICES ASSUME RemoteInv, [Next]_vars PROVE RemoteInv'
  OBVIOUS
<1> USE DEF RemoteInv, RemoteIds
<1>1. ASSUME NEW s \in Ids, Accept(s) PROVE RemoteInv'
  <2>1. s \in Nat /\ s > maxRemote
    BY <1>1, ManagerArguments DEF Accept, CanAccept
  <2>2. maxRemote' = s /\ accepted' = Append(accepted, s)
    BY <1>1 DEF Accept
  <2>3. \A i, j \in DOMAIN accepted : i < j => accepted[i] < accepted[j]
    BY DEF AcceptedInOrder
  <2>4. /\ Append(accepted, s) \in Seq(Nat)
        /\ \A i \in DOMAIN Append(accepted, s) : Append(accepted, s)[i] <= s
        /\ \A i, j \in DOMAIN Append(accepted, s) :
             i < j => Append(accepted, s)[i] < Append(accepted, s)[j]
    BY <2>1, <2>3, AppendAbove
  <2> QED
    BY <2>1, <2>2, <2>4 DEF AcceptedInOrder
<1>2. CASE UNCHANGED <<maxRemote, accepted>>
  BY <1>2 DEF AcceptedInOrder
<1>3. ASSUME Create PROVE UNCHANGED <<maxRemote, accepted>>
  BY <1>3 DEF Create, CreateStream
<1>4. ASSUME NEW sch \in Schedules, CreateWithPriority(sch)
      PROVE  UNCHANGED <<maxRemote, accepted>>
  BY <1>4 DEF CreateWithPriority, CreateStream
<1>5. ASSUME NEW s \in Ids, OnStream(s) PROVE UNCHANGED <<maxRemote, accepted>>
  BY <1>5 DEF OnStream, Local, Update, history
<1>6. ASSUME NEW s \in Ids, Close(s) PROVE UNCHANGED <<maxRemote, accepted>>
  BY <1>6 DEF Close, Update, history
<1>7. ASSUME NEW s \in Ids, NEW f \in Frames, Receive(s, f)
      PROVE  UNCHANGED <<maxRemote, accepted>>
  BY <1>7 DEF Receive, history
<1>8. ASSUME NEW s \in Ids, NEW sch \in Schedules, UpdatePriority(s, sch)
      PROVE  UNCHANGED <<maxRemote, accepted>>
  BY <1>8 DEF UpdatePriority, history
<1>9. ASSUME NEW s \in Ids, NEW n \in Amounts, FlowControl(s, n)
      PROVE  UNCHANGED <<maxRemote, accepted>>
  BY <1>9 DEF FlowControl, history
<1>10. ASSUME NEW n \in Limits, SetMaxConcurrent(n)
       PROVE  UNCHANGED <<maxRemote, accepted>>
  BY <1>10 DEF SetMaxConcurrent, history
<1>11. ASSUME NEW long \in BOOLEAN, Wait(long) PROVE UNCHANGED <<maxRemote, accepted>>
  BY <1>11 DEF Wait, history
<1>12. ASSUME CleanupClosed \/ CleanupIdle PROVE UNCHANGED <<maxRemote, accepted>>
  BY <1>12 DEF CleanupClosed, CleanupIdle
<1>13. ASSUME UNCHANGED vars PROVE UNCHANGED <<maxRemote, accepted>>
  BY <1>13 DEF vars, managed, history
<1> QED
  BY <1>1, <1>2, <1>3, <1>4, <1>5, <1>6, <1>7, <1>8, <1>9, <1>10, <1>11, <1>12, <1>13
  DEF Next, Named

\* The ids accepted from the peer rise for ever: no close, sweep, limit or early
\* frame lets accept_stream take an id a second time, or one below another.
THEOREM RemoteIdsRise == Spec => []AcceptedInOrder
<1>1. Init => RemoteInv
  BY DEF Init, RemoteInv, RemoteIds, AcceptedInOrder
<1>2. RemoteInv => AcceptedInOrder
  BY DEF RemoteInv
<1> QED
  BY <1>1, <1>2, RemoteStep, PTL DEF Spec

-----------------------------------------------------------------------------
(* The states of the streams. *)

\* What a method of a stream may do to it.
Legal(st, after) == after \in StreamStates /\ CanTransition(st.state, after.state)

\* An end received moves a stream legally, or fails and leaves its state.
LEMMA EndReceivedLegal ==
  ASSUME NEW st \in StreamStates, NEW events
  PROVE  Legal(st, EndReceived(st, events).st)
  BY DEF Legal, EndReceived, StreamStates, StreamStateType, CanTransition, Ok, Err, InState

\* So does an end sent.
LEMMA EndSentLegal ==
  ASSUME NEW st \in StreamStates
  PROVE  Legal(st, EndSent(st).st)
  BY DEF Legal, EndSent, StreamStates, StreamStateType, CanTransition, Ok, Err, InState

\* A stream's own windows can be set to any u32, and its activity noted,
\* without a change of its state.
LEMMA WithWindow ==
  ASSUME NEW st \in StreamStates, NEW w \in 0 .. WindowLimit
  PROVE  /\ [st EXCEPT !.recv = w] \in StreamStates
         /\ [st EXCEPT !.recv = w].state = st.state
         /\ [st EXCEPT !.send = w] \in StreamStates
         /\ [st EXCEPT !.send = w].state = st.state
         /\ Touched(st) \in StreamStates
         /\ Touched(st).state = st.state
  BY DEF StreamStates, Touched

\* A stream's own windows are numbers.
LEMMA OwnWindows ==
  ASSUME NEW st \in StreamStates
  PROVE  /\ st.send \in Int /\ 0 <= st.send /\ st.send <= WindowLimit
         /\ st.recv \in Int /\ 0 <= st.recv /\ st.recv <= WindowLimit
         /\ WindowLimit \in Int
<1>1. st.send \in 0 .. WindowLimit /\ st.recv \in 0 .. WindowLimit
  BY DEF StreamStates
<1> QED
  BY <1>1, StreamWindows

\* A move between two states that follows a step without a change of state.
LEMMA LegalAfter ==
  ASSUME NEW st, NEW between, NEW after,
         between.state = st.state, Legal(between, after)
  PROVE  Legal(st, after)
  BY DEF Legal

\* A step without a change of state is legal.
LEMMA LegalSame ==
  ASSUME NEW st, NEW after \in StreamStates, after.state = st.state
  PROVE  Legal(st, after)
  BY DEF Legal, CanTransition

\* What a frame may carry.
LEMMA FrameShape ==
  ASSUME NEW f \in Frames
  PROVE  f.type \in {"Headers", "Data", "Other"} /\ f.end \in BOOLEAN /\ f.length \in Nat
<1>1. CASE f \in {HeadersFrame(end) : end \in BOOLEAN}
  BY <1>1 DEF HeadersFrame
<1>2. CASE f = OtherFrame
  BY <1>2 DEF OtherFrame
<1>3. CASE f \in {DataFrame(n, end) : n \in Amounts, end \in BOOLEAN}
  <2>1. PICK n \in Amounts, end \in BOOLEAN : f = DataFrame(n, end)
    BY <1>3
  <2> QED
    BY <2>1, ManagerArguments DEF DataFrame
<1> QED
  BY <1>1, <1>2, <1>3 DEF Frames

\* A frame moves a stream legally, although process_frame never asks its state.
LEMMA ProcessFrameLegal ==
  ASSUME NEW st \in StreamStates, NEW f \in Frames
  PROVE  Legal(st, ProcessFrame(st, f).st)
<1> DEFINE charged == [st EXCEPT !.recv = @ - f.length]
<1>1. f.type \in {"Headers", "Data", "Other"} /\ f.end \in BOOLEAN /\ f.length \in Nat
  BY FrameShape
<1>2. Legal(st, st)
  BY LegalSame
<1>3. ASSUME f.length <= st.recv
      PROVE  charged \in StreamStates /\ charged.state = st.state
  <2>1. st.recv - f.length \in 0 .. WindowLimit
    BY <1>1, <1>3, OwnWindows
  <2> QED
    BY <2>1, WithWindow
<1>4. ASSUME f.length <= st.recv
      PROVE  Legal(st, charged) /\ \A e : Legal(st, EndReceived(charged, e).st)
  <2> HIDE DEF charged
  <2>1. charged \in StreamStates /\ charged.state = st.state
    BY <1>3, <1>4
  <2>2. ASSUME NEW e PROVE Legal(st, EndReceived(charged, e).st)
    BY <2>1, EndReceivedLegal, LegalAfter
  <2> QED
    BY <2>1, <2>2, LegalSame
<1>5. CASE f.type = "Other"
  BY <1>5, <1>2 DEF ProcessFrame, Ok
<1>6. CASE f.type = "Headers"
  BY <1>1, <1>6, <1>2, EndReceivedLegal DEF ProcessFrame, Ok
<1>7. CASE f.type = "Data" /\ ~(f.length <= st.recv)
  <2>1. f.length > st.recv
    BY <1>7, <1>1, StreamWindows DEF StreamStates
  <2> QED
    BY <1>7, <2>1, <1>2 DEF ProcessFrame, Err
<1>8. CASE f.type = "Data" /\ f.length <= st.recv
  <2>1. ~(f.length > st.recv)
    BY <1>8, <1>1, StreamWindows DEF StreamStates
  <2>2. CASE f.end
    <3>1. ProcessFrame(st, f).st = EndReceived(charged, {"DataReceived"}).st
      BY <1>8, <2>1, <2>2 DEF ProcessFrame
    <3> QED
      BY <3>1, <1>8, <1>4
  <2>3. CASE ~f.end
    <3>1. ProcessFrame(st, f).st = charged
      BY <1>8, <2>1, <2>3 DEF ProcessFrame, Ok
    <3> QED
      BY <3>1, <1>8, <1>4
  <2> QED
    BY <2>2, <2>3
<1> QED
  BY <1>1, <1>5, <1>6, <1>7, <1>8

\* Every method the caller may call on a stream moves it legally.
LEMMA LocalLegal ==
  ASSUME NEW st \in StreamStates, NEW n \in Amounts, NEW end \in BOOLEAN
  PROVE  /\ Legal(st, SendData(st, n, end).st)
         /\ Legal(st, GrowSend(st, n).st)
         /\ Legal(st, GrowRecv(st, n).st)
<1>1. n \in Nat
  BY ManagerArguments
<1>2. Legal(st, st)
  BY LegalSame
<1>3. Legal(st, SendData(st, n, end).st)
  <2> DEFINE sent == Touched([st EXCEPT !.send = @ - n])
  <2>1. CASE ~StreamCanSend(st) \/ n > st.send
    BY <2>1, <1>2 DEF SendData, Err
  <2>2. CASE ~(~StreamCanSend(st) \/ n > st.send)
    <3>1. st.send - n \in 0 .. WindowLimit
      BY <2>2, <1>1, OwnWindows
    <3>2. sent \in StreamStates /\ sent.state = st.state
      BY <3>1, WithWindow
    <3>3. SendData(st, n, end).st = IF end THEN EndSent(sent).st ELSE sent
      BY <2>2 DEF SendData, Ok
    <3> HIDE DEF sent
    <3>4. Legal(st, EndSent(sent).st) /\ Legal(st, sent)
      BY <3>2, EndSentLegal, LegalAfter, LegalSame
    <3> QED
      BY <3>3, <3>4
  <2> QED
    BY <2>1, <2>2
<1>4. Legal(st, GrowSend(st, n).st)
  <2>1. CASE st.send + n > WindowLimit
    BY <2>1, <1>2 DEF GrowSend, Err
  <2>2. CASE ~(st.send + n > WindowLimit)
    <3>1. st.send + n \in 0 .. WindowLimit
      BY <2>2, <1>1, OwnWindows
    <3> DEFINE grown == [st EXCEPT !.send = st.send + n]
    <3>2. GrowSend(st, n).st = Touched(grown)
      BY <2>2 DEF GrowSend, Ok
    <3>3. grown \in StreamStates /\ grown.state = st.state
      BY <3>1, WithWindow
    <3> HIDE DEF grown
    <3>4. Touched(grown) \in StreamStates /\ Touched(grown).state = st.state
      BY <3>3 DEF Touched, StreamStates
    <3> QED
      BY <3>2, <3>4, LegalSame
  <2> QED
    BY <2>1, <2>2
<1>5. Legal(st, GrowRecv(st, n).st)
  <2>1. CASE st.recv + n > WindowLimit
    BY <2>1, <1>2 DEF GrowRecv, Err
  <2>2. CASE ~(st.recv + n > WindowLimit)
    <3>1. st.recv + n \in 0 .. WindowLimit
      BY <2>2, <1>1, OwnWindows
    <3> DEFINE grown == [st EXCEPT !.recv = st.recv + n]
    <3>2. GrowRecv(st, n).st = Touched(grown)
      BY <2>2 DEF GrowRecv, Ok
    <3>3. grown \in StreamStates /\ grown.state = st.state
      BY <3>1, WithWindow
    <3> HIDE DEF grown
    <3>4. Touched(grown) \in StreamStates /\ Touched(grown).state = st.state
      BY <3>3 DEF Touched, StreamStates
    <3> QED
      BY <3>2, <3>4, LegalSame
  <2> QED
    BY <2>1, <2>2
<1> QED
  BY <1>3, <1>4, <1>5

\* And so do the methods that take no amount.
LEMMA LocalLegalWithoutBytes ==
  ASSUME NEW st \in StreamStates, NEW end \in BOOLEAN
  PROVE  /\ Legal(st, OpenLocal(st).st)
         /\ Legal(st, ResetStream(st))
         /\ Legal(st, InState(st, "Closed"))
         /\ Legal(st, SendHeaders(st, end).st)
<1>1. Legal(st, st)
  BY DEF Legal, CanTransition
<1>2. Legal(st, OpenLocal(st).st)
  BY DEF OpenLocal, Legal, CanTransition, Ok, Err, Touched, InState, StreamStates,
         StreamStateType
<1>3. Legal(st, ResetStream(st)) /\ Legal(st, InState(st, "Closed"))
  BY DEF ResetStream, Legal, CanTransition, Touched, InState, StreamStates, StreamStateType
<1>4. Legal(st, SendHeaders(st, end).st)
  <2> DEFINE sent == Touched([st EXCEPT !.headersSent = TRUE])
  <2>1. sent \in StreamStates /\ sent.state = st.state
    BY DEF Touched, StreamStates
  <2>2. Legal(sent, EndSent(sent).st)
    BY <2>1, EndSentLegal
  <2> QED
    BY <1>1, <2>1, <2>2 DEF SendHeaders, Ok, Err, Legal, CanTransition
<1> QED
  BY <1>2, <1>3, <1>4

\* A stream that is filed for the first time, or anew, is a stream.
LEMMA NewTypedStream == NewStream \in StreamStates /\ OpenStream \in StreamStates
<1>1. InitialWindow \in 0 .. WindowLimit
  BY StreamWindows
<1> QED
  BY <1>1 DEF NewStream, OpenStream, InState, StreamStates, StreamStateType

StreamsTyped == \A s \in DOMAIN streams : streams[s] \in StreamStates

\* One step of one stream: filed anew, or moved legally.
Moved(s) == \/ streams'[s] \in {NewStream, OpenStream}
            \/ CanTransition(streams[s].state, streams'[s].state)

LegalStep == \A s \in DOMAIN streams : s \in DOMAIN streams' => Moved(s)

\* Filing one stream, new or after a legal move, is a legal step of the map.
LEMMA FileLegal ==
  ASSUME StreamsTyped, NEW s, NEW st, FileStream(s, st),
         \/ st \in {NewStream, OpenStream}
         \/ s \in DOMAIN streams /\ Legal(streams[s], st)
         \/ Legal(OpenStream, st) /\ s \notin DOMAIN streams
  PROVE  StreamsTyped' /\ LegalStep
<1>1. streams' = [x \in DOMAIN streams \cup {s} |-> IF x = s THEN st ELSE streams[x]]
  BY DEF FileStream, Insert
<1>2. st \in StreamStates
  BY NewTypedStream DEF Legal
<1>3. StreamsTyped'
  BY <1>1, <1>2 DEF StreamsTyped
<1>4. ASSUME NEW x \in DOMAIN streams PROVE Moved(x)
  <2>1. CASE x = s
    BY <2>1, <1>1, <1>4 DEF Moved, Legal
  <2>2. CASE x # s
    BY <2>2, <1>1 DEF Moved, CanTransition
  <2> QED
    BY <2>1, <2>2
<1> QED
  BY <1>3, <1>4 DEF LegalStep

\* Every step of the manager moves every stream legally.
LEMMA EveryStepLegal == StreamsTyped /\ [Next]_vars => StreamsTyped' /\ LegalStep
<1> SUFFICES ASSUME StreamsTyped, [Next]_vars PROVE StreamsTyped' /\ LegalStep
  OBVIOUS
<1>1. ASSUME CreateStream PROVE StreamsTyped' /\ LegalStep
  BY <1>1, FileLegal DEF CreateStream
<1>2. ASSUME NEW s \in Ids, Accept(s) PROVE StreamsTyped' /\ LegalStep
  BY <1>2, FileLegal DEF Accept
<1>3. ASSUME NEW s \in Ids, OnStream(s) PROVE StreamsTyped' /\ LegalStep
  <2>1. s \in DOMAIN streams /\ streams[s] \in StreamStates
    BY <1>3 DEF OnStream, StreamsTyped
  <2>2. PICK st : FileStream(s, st) /\ Legal(streams[s], st)
    BY <1>3, <2>1, LocalLegal, LocalLegalWithoutBytes DEF OnStream, Local, Update
  <2> QED
    BY <2>1, <2>2, FileLegal
<1>4. ASSUME NEW s \in Ids, Close(s) PROVE StreamsTyped' /\ LegalStep
  <2>1. s \in DOMAIN streams /\ streams[s] \in StreamStates
    BY <1>4 DEF Close, StreamsTyped
  <2>2. Legal(streams[s], InState(streams[s], "Closed"))
    BY <2>1, LocalLegalWithoutBytes
  <2> QED
    BY <1>4, <2>1, <2>2, FileLegal DEF Close, Update
<1>5. ASSUME NEW s \in Ids, NEW f \in Frames, Receive(s, f)
      PROVE  StreamsTyped' /\ LegalStep
  <2> DEFINE st == IF s \in DOMAIN streams THEN streams[s] ELSE OpenStream
  <2>1. st \in StreamStates
    BY NewTypedStream DEF StreamsTyped
  <2>2. Legal(st, ProcessFrame(st, f).st)
    BY <2>1, ProcessFrameLegal
  <2>3. FileStream(s, ProcessFrame(st, f).st)
    BY <1>5 DEF Receive, history
  <2> QED
    BY <2>2, <2>3, FileLegal
<1>6. ASSUME \E kept \in SUBSET DOMAIN streams : streams' = [s \in kept |-> streams[s]]
      PROVE  StreamsTyped' /\ LegalStep
  BY <1>6 DEF StreamsTyped, LegalStep, Moved, CanTransition
<1>7. ASSUME CleanupClosed \/ CleanupIdle
      PROVE  \E kept \in SUBSET DOMAIN streams : streams' = [s \in kept |-> streams[s]]
  <2>1. CASE CleanupClosed
    BY <2>1 DEF CleanupClosed
  <2>2. CASE CleanupIdle
    BY <2>2 DEF CleanupIdle
  <2> QED
    BY <1>7, <2>1, <2>2
<1>8. ASSUME UNCHANGED streams PROVE StreamsTyped' /\ LegalStep
  BY <1>8 DEF StreamsTyped, LegalStep, Moved, CanTransition
<1>9. ASSUME NEW long \in BOOLEAN, Wait(long) PROVE StreamsTyped' /\ LegalStep
  <2>1. CASE ~long
    BY <1>9, <2>1, <1>8 DEF Wait
  <2>2. CASE long
    <3>1. streams' = [s \in DOMAIN streams |-> [streams[s] EXCEPT !.stale = TRUE]]
      BY <1>9, <2>2 DEF Wait
    <3>2. \A s \in DOMAIN streams :
             /\ [streams[s] EXCEPT !.stale = TRUE] \in StreamStates
             /\ [streams[s] EXCEPT !.stale = TRUE].state = streams[s].state
      BY DEF StreamsTyped, StreamStates
    <3> QED
      BY <3>1, <3>2 DEF StreamsTyped, LegalStep, Moved, CanTransition
  <2> QED
    BY <2>1, <2>2
<1>10. ASSUME NEW s \in Ids, NEW sch \in Schedules, UpdatePriority(s, sch)
       PROVE  UNCHANGED streams
  BY <1>10 DEF UpdatePriority
<1>11. ASSUME NEW s \in Ids, NEW n \in Amounts, FlowControl(s, n)
       PROVE  UNCHANGED streams
  BY <1>11 DEF FlowControl
<1>12. ASSUME NEW n \in Limits, SetMaxConcurrent(n) PROVE UNCHANGED streams
  BY <1>12 DEF SetMaxConcurrent
<1>13. ASSUME UNCHANGED vars PROVE UNCHANGED streams
  BY <1>13 DEF vars, managed
<1> QED
  BY <1>1, <1>2, <1>3, <1>4, <1>5, <1>6, <1>7, <1>8, <1>9, <1>10, <1>11, <1>12, <1>13
  DEF Next, Named, Create, CreateWithPriority

\* No frame, reset, end of stream or cleanup takes a stream to a state that
\* can_transition_to rules out; a closed stream is never open again.
THEOREM StreamsMoveLegally == Spec => LegalTransitions
<1>1. Init => StreamsTyped
  BY DEF Init, StreamsTyped
<1> QED
  BY <1>1, EveryStepLegal, PTL DEF Spec, LegalTransitions, LegalStep, Moved

-----------------------------------------------------------------------------
(* The ends of the streams. *)

\* How a stream's state and its two ends go together.
Earned(st) ==
  /\ st.state = "HalfClosedRemote" => st.endReceived /\ ~st.endSent
  /\ st.state = "HalfClosedLocal" => st.endSent
  /\ st.endSent => st.state \in {"HalfClosedLocal", "Closed"}

\* Once our end is sent, it stays sent and nothing follows it.
Quiet(st, after) == st.endSent => after.endSent /\ after.send >= st.send

KeepsEnds(st, after) == Earned(st) => Earned(after) /\ Quiet(st, after)

\* A step that leaves state and ends alone, and takes bytes only where the
\* stream may send.
LEMMA SameEnds ==
  ASSUME NEW st \in StreamStates, NEW after \in StreamStates,
         after.state = st.state, after.endSent = st.endSent,
         after.endReceived = st.endReceived,
         after.send >= st.send \/ StreamCanSend(st)
  PROVE  KeepsEnds(st, after)
  BY DEF KeepsEnds, Earned, Quiet, StreamCanSend

\* The peer's end half-closes or closes a stream, ours stays as it was.
LEMMA EndReceivedKeeps ==
  ASSUME NEW st \in StreamStates, NEW events
  PROVE  KeepsEnds(st, EndReceived(st, events).st)
<1>1. st.send \in Int
  BY OwnWindows
<1> QED
  BY <1>1 DEF EndReceived, KeepsEnds, Earned, Quiet, StreamStates, Ok, Err, InState

\* Our end is sent where the stream may send, so it was not sent before.
LEMMA EndSentKeeps ==
  ASSUME NEW st \in StreamStates, StreamCanSend(st)
  PROVE  KeepsEnds(st, EndSent(st).st)
  BY DEF EndSent, KeepsEnds, Earned, Quiet, StreamStates, StreamCanSend, Ok, Err, InState

\* What follows a step that changed neither the state nor the ends, and took
\* bytes only where the stream may send.
LEMMA KeepsAfter ==
  ASSUME NEW st \in StreamStates, NEW between \in StreamStates, NEW after \in StreamStates,
         between.state = st.state, between.endSent = st.endSent,
         between.endReceived = st.endReceived,
         between.send = st.send \/ StreamCanSend(st),
         KeepsEnds(between, after)
  PROVE  KeepsEnds(st, after)
  BY DEF KeepsEnds, Earned, Quiet, StreamCanSend

\* A frame keeps the ends, whatever the state it finds.
LEMMA ProcessFrameKeeps ==
  ASSUME NEW st \in StreamStates, NEW f \in Frames
  PROVE  KeepsEnds(st, ProcessFrame(st, f).st)
<1> DEFINE charged == [st EXCEPT !.recv = @ - f.length]
           after == ProcessFrame(st, f).st
<1>1. st.send \in Int /\ after \in StreamStates
  BY OwnWindows, ProcessFrameLegal DEF Legal
<1>2. KeepsEnds(st, st)
  BY <1>1, SameEnds
<1>3. \A e : KeepsEnds(st, EndReceived(st, e).st)
  BY EndReceivedKeeps
<1>4. CASE f.type = "Data" /\ f.length <= st.recv
  <2>1. /\ charged.state = st.state /\ charged.endSent = st.endSent
        /\ charged.endReceived = st.endReceived /\ charged.send = st.send
    BY DEF StreamStates
  <2>2. charged \in StreamStates
    <3>1. f.length \in Nat
      BY FrameShape
    <3>2. st.recv - f.length \in 0 .. WindowLimit
      BY <1>4, <3>1, OwnWindows
    <3> QED
      BY <3>2, WithWindow
  <2>3. after = charged \/ after = EndReceived(charged, {"DataReceived"}).st
    <3>1. f.end \in BOOLEAN
      BY FrameShape
    <3> QED
      BY <1>4, <3>1 DEF ProcessFrame, Ok
  <2> HIDE DEF charged, after
  <2>4. KeepsEnds(charged, charged) /\ \A e : KeepsEnds(charged, EndReceived(charged, e).st)
    <3>1. charged.send >= charged.send
      BY <1>1, <2>1
    <3> QED
      BY <3>1, <2>2, SameEnds, EndReceivedKeeps
  <2>5. KeepsEnds(charged, after)
    BY <2>3, <2>4
  <2>6. KeepsEnds(st, after)
    BY <1>1, <2>1, <2>2, <2>5, KeepsAfter
  <2> QED
    BY <2>6 DEF after
<1>5. CASE ~(f.type = "Data" /\ f.length <= st.recv)
  <2>1. f.type \in {"Headers", "Data", "Other"} /\ f.end \in BOOLEAN /\ f.length \in Nat
    BY FrameShape
  <2>2. f.type = "Data" => f.length > st.recv
    BY <1>5, <2>1, OwnWindows
  <2>3. after = st \/ after = EndReceived(st, {"HeadersReceived"}).st
    BY <2>1, <2>2, <1>5 DEF ProcessFrame, Ok, Err
  <2> QED
    BY <2>3, <1>2, <1>3
<1> QED
  BY <1>4, <1>5

\* So does every method of a stream: bytes and ends are sent only where
\* can_send allows, and windows otherwise only grow.
LEMMA LocalKeeps ==
  ASSUME NEW st \in StreamStates, NEW n \in Amounts, NEW end \in BOOLEAN
  PROVE  /\ KeepsEnds(st, SendData(st, n, end).st)
         /\ KeepsEnds(st, GrowSend(st, n).st)
         /\ KeepsEnds(st, GrowRecv(st, n).st)
<1>1. n \in Nat /\ st.send \in Int
  BY ManagerArguments, OwnWindows
<1>2. KeepsEnds(st, st)
  BY <1>1, SameEnds
<1>3. KeepsEnds(st, SendData(st, n, end).st)
  <2> DEFINE sent == Touched([st EXCEPT !.send = @ - n])
             after == SendData(st, n, end).st
  <2>1. CASE ~StreamCanSend(st) \/ n > st.send
    BY <2>1, <1>2 DEF SendData, Err
  <2>2. CASE ~(~StreamCanSend(st) \/ n > st.send)
    <3>1. st.send - n \in 0 .. WindowLimit
      BY <2>2, <1>1, OwnWindows
    <3>2. /\ sent \in StreamStates
          /\ sent.state = st.state /\ sent.endSent = st.endSent
          /\ sent.endReceived = st.endReceived
      BY <3>1 DEF Touched, StreamStates
    <3>3. after = IF end THEN EndSent(sent).st ELSE sent
      BY <2>2 DEF SendData, Ok
    <3>4. after \in StreamStates
      BY LocalLegal DEF Legal
    <3> HIDE DEF sent, after
    <3>5. StreamCanSend(st) /\ StreamCanSend(sent)
      BY <2>2, <3>2 DEF StreamCanSend
    <3>6. KeepsEnds(sent, EndSent(sent).st) /\ KeepsEnds(st, sent)
      BY <3>2, <3>5, EndSentKeeps, SameEnds
    <3>7. CASE end
      BY <3>7, <3>2, <3>3, <3>4, <3>5, <3>6, KeepsAfter DEF after
    <3>8. CASE ~end
      BY <3>8, <3>3, <3>6 DEF after
    <3> QED
      BY <3>7, <3>8
  <2> QED
    BY <2>1, <2>2
<1>4. KeepsEnds(st, GrowSend(st, n).st)
  <2> DEFINE after == GrowSend(st, n).st
  <2>1. after \in StreamStates
    BY LocalLegal DEF Legal
  <2>2. /\ after.state = st.state /\ after.endSent = st.endSent
        /\ after.endReceived = st.endReceived /\ after.send >= st.send
    BY <1>1 DEF GrowSend, Ok, Err, Touched, StreamStates
  <2> QED
    BY <2>1, <2>2, SameEnds
<1>5. KeepsEnds(st, GrowRecv(st, n).st)
  <2> DEFINE after == GrowRecv(st, n).st
  <2>1. after \in StreamStates
    BY LocalLegal DEF Legal
  <2>2. /\ after.state = st.state /\ after.endSent = st.endSent
        /\ after.endReceived = st.endReceived /\ after.send >= st.send
    BY <1>1 DEF GrowRecv, Ok, Err, Touched, StreamStates
  <2> QED
    BY <2>1, <2>2, SameEnds
<1> QED
  BY <1>3, <1>4, <1>5

\* And the methods that take no amount.
LEMMA LocalKeepsWithoutBytes ==
  ASSUME NEW st \in StreamStates, NEW end \in BOOLEAN
  PROVE  /\ KeepsEnds(st, OpenLocal(st).st)
         /\ KeepsEnds(st, ResetStream(st))
         /\ KeepsEnds(st, InState(st, "Closed"))
         /\ KeepsEnds(st, SendHeaders(st, end).st)
<1>1. st.send \in Int
  BY OwnWindows
<1>2. KeepsEnds(st, OpenLocal(st).st)
  BY <1>1 DEF OpenLocal, KeepsEnds, Earned, Quiet, Ok, Err, Touched, InState, StreamStates
<1>3. KeepsEnds(st, ResetStream(st)) /\ KeepsEnds(st, InState(st, "Closed"))
  BY <1>1 DEF ResetStream, KeepsEnds, Earned, Quiet, Touched, InState, StreamStates
<1>4. KeepsEnds(st, SendHeaders(st, end).st)
  <2> DEFINE sent == Touched([st EXCEPT !.headersSent = TRUE])
             after == SendHeaders(st, end).st
  <2>1. CASE ~StreamCanSend(st) \/ st.headersSent
    BY <2>1, <1>1, SameEnds DEF SendHeaders, Err
  <2>2. CASE ~(~StreamCanSend(st) \/ st.headersSent)
    <3>1. /\ sent \in StreamStates
          /\ sent.state = st.state /\ sent.endSent = st.endSent
          /\ sent.endReceived = st.endReceived /\ sent.send = st.send
      BY DEF Touched, StreamStates
    <3>2. after = IF end THEN EndSent(sent).st ELSE sent
      BY <2>2 DEF SendHeaders, Ok
    <3>3. after \in StreamStates
      BY LocalLegalWithoutBytes DEF Legal
    <3> HIDE DEF sent, after
    <3>4. StreamCanSend(sent)
      BY <2>2, <3>1 DEF StreamCanSend
    <3>5. KeepsEnds(sent, EndSent(sent).st) /\ KeepsEnds(st, sent)
      BY <1>1, <3>1, <3>4, EndSentKeeps, SameEnds
    <3>6. CASE end
      BY <3>6, <3>1, <3>2, <3>3, <3>5, KeepsAfter DEF after
    <3>7. CASE ~end
      BY <3>7, <3>2, <3>5 DEF after
    <3> QED
      BY <3>6, <3>7
  <2> QED
    BY <2>1, <2>2
<1> QED
  BY <1>2, <1>3, <1>4

EndsEarned == \A s \in DOMAIN streams : Earned(streams[s])

\* Of every stream that stays: filed anew, or nothing sent after its end.
QuietStep ==
  \A s \in DOMAIN streams :
    s \in DOMAIN streams' =>
      streams'[s] \in {NewStream, OpenStream} \/ Quiet(streams[s], streams'[s])

LEMMA NewEarned == Earned(NewStream) /\ Earned(OpenStream)
  BY DEF Earned, NewStream, OpenStream, InState

\* A stream that is not touched, or only grows stale, stays quiet.
LEMMA QuietSame ==
  ASSUME NEW st \in StreamStates
  PROVE  Quiet(st, st)
  BY OwnWindows DEF Quiet

\* Filing one stream, new or after a step that keeps its ends.
LEMMA FileEarned ==
  ASSUME StreamsTyped, EndsEarned, NEW s, NEW st, FileStream(s, st),
         \/ st \in {NewStream, OpenStream}
         \/ s \in DOMAIN streams /\ KeepsEnds(streams[s], st)
         \/ KeepsEnds(OpenStream, st) /\ s \notin DOMAIN streams
  PROVE  EndsEarned' /\ QuietStep
<1>1. streams' = [x \in DOMAIN streams \cup {s} |-> IF x = s THEN st ELSE streams[x]]
  BY DEF FileStream, Insert
<1>2. /\ Earned(st)
      /\ s \in DOMAIN streams => st \in {NewStream, OpenStream} \/ Quiet(streams[s], st)
  BY NewEarned DEF KeepsEnds, EndsEarned
<1>3. EndsEarned'
  BY <1>1, <1>2 DEF EndsEarned
<1>4. ASSUME NEW x \in DOMAIN streams
      PROVE  streams'[x] \in {NewStream, OpenStream} \/ Quiet(streams[x], streams'[x])
  <2>1. CASE x = s
    BY <2>1, <1>1, <1>2
  <2>2. CASE x # s
    BY <2>2, <1>1, QuietSame DEF StreamsTyped
  <2> QED
    BY <2>1, <2>2
<1> QED
  BY <1>3, <1>4 DEF QuietStep

LEMMA EveryStepKeepsEnds ==
  StreamsTyped /\ EndsEarned /\ [Next]_vars => EndsEarned' /\ QuietStep
<1> SUFFICES ASSUME StreamsTyped, EndsEarned, [Next]_vars PROVE EndsEarned' /\ QuietStep
  OBVIOUS
<1>1. ASSUME CreateStream PROVE EndsEarned' /\ QuietStep
  BY <1>1, FileEarned DEF CreateStream
<1>2. ASSUME NEW s \in Ids, Accept(s) PROVE EndsEarned' /\ QuietStep
  BY <1>2, FileEarned DEF Accept
<1>3. ASSUME NEW s \in Ids, OnStream(s) PROVE EndsEarned' /\ QuietStep
  <2>1. s \in DOMAIN streams /\ streams[s] \in StreamStates
    BY <1>3 DEF OnStream, StreamsTyped
  <2>2. PICK st : FileStream(s, st) /\ KeepsEnds(streams[s], st)
    BY <1>3, <2>1, LocalKeeps, LocalKeepsWithoutBytes DEF OnStream, Local, Update
  <2> QED
    BY <2>1, <2>2, FileEarned
<1>4. ASSUME NEW s \in Ids, Close(s) PROVE EndsEarned' /\ QuietStep
  <2>1. s \in DOMAIN streams /\ streams[s] \in StreamStates
    BY <1>4 DEF Close, StreamsTyped
  <2>2. KeepsEnds(streams[s], InState(streams[s], "Closed"))
    BY <2>1, LocalKeepsWithoutBytes
  <2> QED
    BY <1>4, <2>1, <2>2, FileEarned DEF Close, Update
<1>5. ASSUME NEW s \in Ids, NEW f \in Frames, Receive(s, f)
      PROVE  EndsEarned' /\ QuietStep
  <2> DEFINE st == IF s \in DOMAIN streams THEN streams[s] ELSE OpenStream
  <2>1. st \in StreamStates
    BY NewTypedStream DEF StreamsTyped
  <2>2. KeepsEnds(st, ProcessFrame(st, f).st)
    BY <2>1, ProcessFrameKeeps
  <2>3. FileStream(s, ProcessFrame(st, f).st)
    BY <1>5 DEF Receive, history
  <2> QED
    BY <2>2, <2>3, FileEarned
<1>6. ASSUME \E kept \in SUBSET DOMAIN streams : streams' = [s \in kept |-> streams[s]]
      PROVE  EndsEarned' /\ QuietStep
  BY <1>6, QuietSame DEF StreamsTyped, EndsEarned, QuietStep
<1>7. ASSUME CleanupClosed \/ CleanupIdle
      PROVE  \E kept \in SUBSET DOMAIN streams : streams' = [s \in kept |-> streams[s]]
  <2>1. CASE CleanupClosed
    BY <2>1 DEF CleanupClosed
  <2>2. CASE CleanupIdle
    BY <2>2 DEF CleanupIdle
  <2> QED
    BY <1>7, <2>1, <2>2
<1>8. ASSUME UNCHANGED streams PROVE EndsEarned' /\ QuietStep
  BY <1>8, QuietSame DEF StreamsTyped, EndsEarned, QuietStep
<1>9. ASSUME NEW long \in BOOLEAN, Wait(long) PROVE EndsEarned' /\ QuietStep
  <2>1. CASE ~long
    BY <1>9, <2>1, <1>8 DEF Wait
  <2>2. CASE long
    <3>1. streams' = [s \in DOMAIN streams |-> [streams[s] EXCEPT !.stale = TRUE]]
      BY <1>9, <2>2 DEF Wait
    <3>2. ASSUME NEW s \in DOMAIN streams
          PROVE  LET st == [streams[s] EXCEPT !.stale = TRUE]
                 IN Earned(st) /\ Quiet(streams[s], st)
      <4>1. streams[s] \in StreamStates /\ streams[s].send \in Int /\ Earned(streams[s])
        BY OwnWindows DEF StreamsTyped, EndsEarned
      <4> QED
        BY <4>1 DEF StreamStates, Earned, Quiet
    <3> QED
      BY <3>1, <3>2 DEF EndsEarned, QuietStep
  <2> QED
    BY <2>1, <2>2
<1>10. ASSUME NEW s \in Ids, NEW sch \in Schedules, UpdatePriority(s, sch)
       PROVE  UNCHANGED streams
  BY <1>10 DEF UpdatePriority
<1>11. ASSUME NEW s \in Ids, NEW n \in Amounts, FlowControl(s, n)
       PROVE  UNCHANGED streams
  BY <1>11 DEF FlowControl
<1>12. ASSUME NEW n \in Limits, SetMaxConcurrent(n) PROVE UNCHANGED streams
  BY <1>12 DEF SetMaxConcurrent
<1>13. ASSUME UNCHANGED vars PROVE UNCHANGED streams
  BY <1>13 DEF vars, managed
<1> QED
  BY <1>1, <1>2, <1>3, <1>4, <1>5, <1>6, <1>7, <1>8, <1>9, <1>10, <1>11, <1>12, <1>13
  DEF Next, Named, Create, CreateWithPriority

EndsInv == StreamsTyped /\ EndsEarned

LEMMA EndsStep == EndsInv /\ [Next]_vars => EndsInv' /\ QuietStep
  BY EveryStepLegal, EveryStepKeepsEnds DEF EndsInv

\* A stream is half-closed by the end its state names, and not left so when
\* both ends are through, whatever frames and calls meet.
THEOREM HalfClosedByItsEnd == Spec => []HalfClosedIsEarned
<1>1. Init => EndsInv
  BY DEF Init, EndsInv, StreamsTyped, EndsEarned
<1>2. EndsInv => HalfClosedIsEarned
  BY DEF EndsInv, EndsEarned, Earned, HalfClosedIsEarned
<1> QED
  BY <1>1, <1>2, EndsStep, PTL DEF Spec

\* Nothing is sent on a stream after our end of it.
THEOREM EndIsTheLast == Spec => NothingSentAfterEnd
<1>1. Init => EndsInv
  BY DEF Init, EndsInv, StreamsTyped, EndsEarned
<1>2. QuietStep => \A s \in DOMAIN streams :
                     streams[s].endSent /\ s \in DOMAIN streams' =>
                       \/ streams'[s] \in {NewStream, OpenStream}
                       \/ streams'[s].send >= streams[s].send
  BY DEF QuietStep, Quiet
<1> QED
  BY <1>1, <1>2, EndsStep, PTL DEF Spec, NothingSentAfterEnd

-----------------------------------------------------------------------------
(* The windows of the streams.  Their sizes do not matter here, so nothing  *)
(* is assumed of them: InitialWindow may exceed MAX_WINDOW_SIZE.            *)

AnyWindows == UNION {[known -> Int] : known \in SUBSET Int}

AnyController ==
  [connSend : Int, connRecv : Int, initialConn : Int,
   send : AnyWindows, recv : AnyWindows, initialStream : Int,
   totalSent : Int, totalReceived : Int, pending : Int]

\* HashMap::insert adds one key.
LEMMA InsertAny ==
  ASSUME NEW w \in AnyWindows, NEW s \in Int, NEW v \in Int
  PROVE  Insert(w, s, v) \in AnyWindows /\ DOMAIN Insert(w, s, v) = DOMAIN w \cup {s}
<1>1. PICK known \in SUBSET Int : w \in [known -> Int]
  BY DEF AnyWindows
<1>2. Insert(w, s, v) \in [known \cup {s} -> Int] /\ known \cup {s} \in SUBSET Int
  BY <1>1 DEF Insert
<1>3. DOMAIN Insert(w, s, v) = DOMAIN w \cup {s}
  BY DEF Insert
<1> QED
  BY <1>2, <1>3 DEF AnyWindows

\* HashMap::remove of some keys takes those keys.
LEMMA RemoveAny ==
  ASSUME NEW w \in AnyWindows, NEW gone
  PROVE  /\ [s \in DOMAIN w \ gone |-> w[s]] \in AnyWindows
         /\ DOMAIN [s \in DOMAIN w \ gone |-> w[s]] = DOMAIN w \ gone
<1>1. PICK known \in SUBSET Int : w \in [known -> Int]
  BY DEF AnyWindows
<1>2. /\ [s \in DOMAIN w \ gone |-> w[s]] \in [known \ gone -> Int]
      /\ known \ gone \in SUBSET Int
  BY <1>1
<1> QED
  BY <1>2 DEF AnyWindows

\* A missing entry reads 0.
LEMMA WindowOfAny ==
  ASSUME NEW w \in AnyWindows, NEW s
  PROVE  WindowOf(w, s) \in Int
<1>1. PICK known \in SUBSET Int : w \in [known -> Int]
  BY DEF AnyWindows
<1>2. CASE s \in DOMAIN w
  <2>1. s \in known /\ w[s] \in Int
    BY <1>1, <1>2
  <2>2. WindowOf(w, s) = w[s]
    BY <1>2 DEF WindowOf
  <2> QED
    BY <2>1, <2>2
<1>3. CASE s \notin DOMAIN w
  <2>1. WindowOf(w, s) = 0
    BY <1>3 DEF WindowOf
  <2> QED
    BY <2>1
<1> QED
  BY <1>2, <1>3

\* No stream loses a window from c to d.
Grows(c, d) ==
  /\ d \in AnyController
  /\ DOMAIN c.send \subseteq DOMAIN d.send
  /\ DOMAIN c.recv \subseteq DOMAIN d.recv

\* Sending, receiving and window updates take no window away.
LEMMA FlowControlGrows ==
  ASSUME NEW c \in AnyController, NEW s \in Int, NEW n \in Int
  PROVE  /\ Grows(c, ReserveSendWindow(c, s, n).fc)
         /\ Grows(c, ProcessReceivedData(c, s, n).fc)
         /\ Grows(c, UpdateSendWindow(c, s, n).fc)
         /\ Grows(c, UpdateRecvWindow(c, s, n).fc)
<1>1. /\ c.send \in AnyWindows /\ c.recv \in AnyWindows
      /\ c.connSend \in Int /\ c.connRecv \in Int
      /\ c.totalSent \in Int /\ c.totalReceived \in Int
  BY DEF AnyController
<1>2. ASSUME NEW v \in Int
      PROVE  /\ Insert(c.send, s, v) \in AnyWindows
             /\ DOMAIN c.send \subseteq DOMAIN Insert(c.send, s, v)
             /\ Insert(c.recv, s, v) \in AnyWindows
             /\ DOMAIN c.recv \subseteq DOMAIN Insert(c.recv, s, v)
  <2>1. /\ Insert(c.send, s, v) \in AnyWindows
        /\ DOMAIN Insert(c.send, s, v) = DOMAIN c.send \cup {s}
    BY <1>1, InsertAny
  <2>2. /\ Insert(c.recv, s, v) \in AnyWindows
        /\ DOMAIN Insert(c.recv, s, v) = DOMAIN c.recv \cup {s}
    BY <1>1, InsertAny
  <2> QED
    BY <2>1, <2>2
<1>3. WindowOf(c.send, s) \in Int /\ WindowOf(c.recv, s) \in Int
  BY <1>1, WindowOfAny
<1>4. Grows(c, c)
  BY DEF Grows
<1>5. Grows(c, ReserveSendWindow(c, s, n).fc)
  <2> DEFINE left == c.connSend - n
             sent == c.totalSent + n
             map  == IF s = Connection THEN c.send
                     ELSE Insert(c.send, s, WindowOf(c.send, s) - n)
             d    == ReserveSendWindow(c, s, n).fc
  <2>1. left \in Int /\ sent \in Int /\ map \in AnyWindows
        /\ DOMAIN c.send \subseteq DOMAIN map
    <3>1. WindowOf(c.send, s) - n \in Int
      BY <1>3
    <3> QED
      BY <3>1, <1>1, <1>2
  <2>2. d = c \/ d = [c EXCEPT !.connSend = left, !.totalSent = sent, !.send = map]
    BY DEF ReserveSendWindow, Done
  <2> HIDE DEF left, sent, map, d
  <2>3. Grows(c, d)
    BY <2>1, <2>2, <1>4 DEF Grows, AnyController
  <2> QED
    BY <2>3 DEF d
<1>6. Grows(c, ProcessReceivedData(c, s, n).fc)
  <2> DEFINE left == c.connRecv - n
             got  == c.totalReceived + n
             map  == Insert(c.recv, s, WindowOf(c.recv, s) - n)
             charged == [c EXCEPT !.connRecv = left, !.totalReceived = got]
             d    == ProcessReceivedData(c, s, n).fc
  <2>1. left \in Int /\ got \in Int /\ map \in AnyWindows
        /\ DOMAIN c.recv \subseteq DOMAIN map
    <3>1. WindowOf(c.recv, s) - n \in Int
      BY <1>3
    <3> QED
      BY <3>1, <1>1, <1>2
  <2>2. d = c \/ d = charged \/ d = [charged EXCEPT !.recv = map]
    <3>1. charged.recv = c.recv
      BY DEF AnyController
    <3> QED
      BY <3>1 DEF ProcessReceivedData, Done, Failed
  <2> HIDE DEF left, got, map, d
  <2>3. Grows(c, d)
    BY <2>1, <2>2, <1>4 DEF Grows, AnyController
  <2> QED
    BY <2>3 DEF d
<1>7. Grows(c, UpdateSendWindow(c, s, n).fc)
  <2> DEFINE conn == c.connSend + n
             map  == Insert(c.send, s, WindowOf(c.send, s) + n)
             d    == UpdateSendWindow(c, s, n).fc
  <2>1. conn \in Int /\ map \in AnyWindows /\ DOMAIN c.send \subseteq DOMAIN map
    <3>1. WindowOf(c.send, s) + n \in Int
      BY <1>3
    <3> QED
      BY <3>1, <1>1, <1>2
  <2>2. d = c \/ d = [c EXCEPT !.connSend = conn] \/ d = [c EXCEPT !.send = map]
    BY DEF UpdateSendWindow, Done, Failed
  <2> HIDE DEF conn, map, d
  <2>3. Grows(c, d)
    BY <2>1, <2>2, <1>4 DEF Grows, AnyController
  <2> QED
    BY <2>3 DEF d
<1>8. Grows(c, UpdateRecvWindow(c, s, n).fc)
  <2> DEFINE conn == c.connRecv + n
             map  == Insert(c.recv, s, WindowOf(c.recv, s) + n)
             d    == UpdateRecvWindow(c, s, n).fc
  <2>1. conn \in Int /\ map \in AnyWindows /\ DOMAIN c.recv \subseteq DOMAIN map
    <3>1. WindowOf(c.recv, s) + n \in Int
      BY <1>3
    <3> QED
      BY <3>1, <1>1, <1>2
  <2>2. d = c \/ d = [c EXCEPT !.connRecv = conn] \/ d = [c EXCEPT !.recv = map]
    BY DEF UpdateRecvWindow, Done, Failed
  <2> HIDE DEF conn, map, d
  <2>3. Grows(c, d)
    BY <2>1, <2>2, <1>4 DEF Grows, AnyController
  <2> QED
    BY <2>3 DEF d
<1> QED
  BY <1>5, <1>6, <1>7, <1>8

\* initialize_stream gives a stream both windows and takes none.
LEMMA InitializeGrows ==
  ASSUME NEW c \in AnyController, NEW s \in Int, s # Connection
  PROVE  LET d == InitializeStream(c, s).fc
         IN Grows(c, d) /\ s \in DOMAIN d.send /\ s \in DOMAIN d.recv
<1> DEFINE send == Insert(c.send, s, c.initialStream)
           recv == Insert(c.recv, s, c.initialStream)
           d    == InitializeStream(c, s).fc
<1>1. /\ send \in AnyWindows /\ DOMAIN send = DOMAIN c.send \cup {s}
      /\ recv \in AnyWindows /\ DOMAIN recv = DOMAIN c.recv \cup {s}
  BY InsertAny DEF AnyController
<1>2. d = [c EXCEPT !.send = send, !.recv = recv]
  BY DEF InitializeStream, Done
<1> HIDE DEF send, recv, d
<1>3. Grows(c, d) /\ s \in DOMAIN d.send /\ s \in DOMAIN d.recv
  BY <1>1, <1>2 DEF Grows, AnyController
<1> QED
  BY <1>3 DEF d

\* Removing streams takes their windows and no others.
LEMMA ForgottenTakes ==
  ASSUME NEW c \in AnyController, NEW gone
  PROVE  LET d == Forgotten(c, gone)
         IN /\ d \in AnyController
            /\ DOMAIN d.send = DOMAIN c.send \ gone
            /\ DOMAIN d.recv = DOMAIN c.recv \ gone
<1> DEFINE send == [s \in DOMAIN c.send \ gone |-> c.send[s]]
           recv == [s \in DOMAIN c.recv \ gone |-> c.recv[s]]
           d    == Forgotten(c, gone)
<1>1. /\ send \in AnyWindows /\ DOMAIN send = DOMAIN c.send \ gone
      /\ recv \in AnyWindows /\ DOMAIN recv = DOMAIN c.recv \ gone
  BY RemoveAny DEF AnyController
<1>2. d = [c EXCEPT !.send = send, !.recv = recv]
  BY DEF Forgotten
<1> HIDE DEF send, recv, d
<1>3. d \in AnyController /\ d.send = send /\ d.recv = recv
  BY <1>1, <1>2 DEF AnyController
<1> QED
  BY <1>1, <1>3 DEF d

\* remove_stream is the removal of one stream.
LEMMA RemoveIsForgotten == \A c, s : RemoveStream(c, s) = Forgotten(c, {s})
  BY DEF RemoveStream, Forgotten, Remove

\* What makes AdmittedHaveWindows inductive: an admitted stream is filed, and a
\* stream that is filed has a state that only LegalStep changes.
AdmittedInv ==
  /\ StreamsTyped
  /\ nextId \in Int
  /\ fc \in AnyController
  /\ admitted \subseteq DOMAIN streams
  /\ AdmittedHaveWindows

LEMMA AdmittedStarts == Init => AdmittedInv
<1> SUFFICES ASSUME Init PROVE AdmittedInv
  OBVIOUS
<1>1. NoWindows \in AnyWindows
  BY DEF NoWindows, AnyWindows
<1>2. fc \in AnyController
  BY <1>1, StreamWindows DEF Init, NewController, AnyController
<1> QED
  BY <1>2 DEF Init, AdmittedInv, StreamsTyped, AdmittedHaveWindows

\* Filing a stream under an id that had none, or after a legal move, keeps the
\* invariant while the windows grow: a closed stream is not open again.
LEMMA FileKeeps ==
  ASSUME AdmittedInv, NEW s, NEW st, FileStream(s, st),
         s \in DOMAIN streams => Legal(streams[s], st),
         Grows(fc, fc'), admitted' = admitted
  PROVE  admitted' \subseteq DOMAIN streams' /\ AdmittedHaveWindows'
<1>1. streams' = [x \in DOMAIN streams \cup {s} |-> IF x = s THEN st ELSE streams[x]]
  BY DEF FileStream, Insert
<1>2. \A x \in admitted : ~IsClosed(streams'[x]) => ~IsClosed(streams[x])
  BY <1>1 DEF AdmittedInv, IsClosed, Legal, CanTransition
<1> QED
  BY <1>1, <1>2 DEF AdmittedInv, AdmittedHaveWindows, Grows

\* A stream that is filed anew with both windows joins the admitted ones.
LEMMA AdmitKeeps ==
  ASSUME AdmittedInv, NEW s \in Int, NEW st, FileStream(s, st), InitializeUnlessZero(s),
         admitted' = admitted \cup {s}
  PROVE  fc' \in AnyController /\ admitted' \subseteq DOMAIN streams' /\ AdmittedHaveWindows'
<1>1. streams' = [x \in DOMAIN streams \cup {s} |-> IF x = s THEN st ELSE streams[x]]
  BY DEF FileStream, Insert
<1>2. /\ Grows(fc, fc')
      /\ s # Connection => s \in DOMAIN fc'.send /\ s \in DOMAIN fc'.recv
  BY InitializeGrows DEF InitializeUnlessZero, AdmittedInv, Connection, Grows
<1>3. \A x \in admitted \ {s} : x \in DOMAIN streams /\ streams'[x] = streams[x]
  BY <1>1 DEF AdmittedInv
<1> QED
  BY <1>1, <1>2, <1>3 DEF AdmittedInv, AdmittedHaveWindows, Grows

\* Every step of the manager keeps the windows of the streams that are open.
LEMMA AdmittedStep == AdmittedInv /\ [Next]_vars => AdmittedInv'
<1> SUFFICES ASSUME AdmittedInv, [Next]_vars PROVE AdmittedInv'
  OBVIOUS
<1> DEFINE Kept == /\ nextId' \in Int
                   /\ fc' \in AnyController
                   /\ admitted' \subseteq DOMAIN streams'
                   /\ AdmittedHaveWindows'
<1>1. StreamsTyped'
  BY EveryStepLegal DEF AdmittedInv
<1>2. ASSUME CreateStream PROVE Kept
  <2>1. nextId \in Int /\ nextId' = nextId + 4 /\ FileStream(nextId, OpenStream)
        /\ InitializeUnlessZero(nextId) /\ admitted' = admitted \cup {nextId}
    BY <1>2 DEF CreateStream, AdmittedInv
  <2> QED
    BY <2>1, AdmitKeeps
<1>3. ASSUME NEW s \in Ids, Accept(s) PROVE Kept
  <2>1. s \in Int /\ FileStream(s, NewStream) /\ InitializeUnlessZero(s)
        /\ admitted' = admitted \cup {s} /\ nextId' = nextId
    BY <1>3, ManagerArguments DEF Accept
  <2> QED
    BY <2>1, AdmitKeeps DEF AdmittedInv
<1>4. Grows(fc, fc)
  BY DEF AdmittedInv, Grows
<1>5. ASSUME NEW s \in Ids, OnStream(s) PROVE Kept
  <2>1. s \in DOMAIN streams /\ streams[s] \in StreamStates
    BY <1>5 DEF OnStream, AdmittedInv, StreamsTyped
  <2>2. PICK st : FileStream(s, st) /\ Legal(streams[s], st)
    BY <1>5, <2>1, LocalLegal, LocalLegalWithoutBytes DEF OnStream, Local, Update
  <2>3. UNCHANGED <<fc, nextId, admitted>>
    BY <1>5 DEF OnStream, Local, Update, history
  <2> QED
    BY <2>2, <2>3, <1>4, FileKeeps DEF AdmittedInv
<1>6. ASSUME NEW s \in Ids, NEW f \in Frames, Receive(s, f) PROVE Kept
  <2> DEFINE st == IF s \in DOMAIN streams THEN streams[s] ELSE OpenStream
  <2>1. st \in StreamStates
    BY NewTypedStream DEF AdmittedInv, StreamsTyped
  <2>2. Legal(st, ProcessFrame(st, f).st)
    BY <2>1, ProcessFrameLegal
  <2>3. FileStream(s, ProcessFrame(st, f).st) /\ UNCHANGED <<fc, nextId, admitted>>
    BY <1>6 DEF Receive, history
  <2> QED
    BY <2>2, <2>3, <1>4, FileKeeps DEF AdmittedInv
<1>7. ASSUME NEW s \in Ids, Close(s) PROVE Kept
  <2>1. /\ s \in DOMAIN streams
        /\ FileStream(s, InState(streams[s], "Closed"))
        /\ fc' = Forgotten(fc, {s}) /\ UNCHANGED <<nextId, admitted>>
    BY <1>7, RemoveIsForgotten DEF Close, Update, history
  <2>2. /\ fc' \in AnyController
        /\ DOMAIN fc'.send = DOMAIN fc.send \ {s}
        /\ DOMAIN fc'.recv = DOMAIN fc.recv \ {s}
    BY <2>1, ForgottenTakes DEF AdmittedInv
  <2>3. streams' = [x \in DOMAIN streams \cup {s} |->
                      IF x = s THEN InState(streams[s], "Closed") ELSE streams[x]]
    BY <2>1 DEF FileStream, Insert
  <2>4. IsClosed(streams'[s])
    BY <2>1, <2>3 DEF AdmittedInv, StreamsTyped, StreamStates, InState, IsClosed
  <2> QED
    BY <2>1, <2>2, <2>3, <2>4 DEF AdmittedInv, AdmittedHaveWindows
<1>8. ASSUME CleanupClosed PROVE Kept
  BY <1>8 DEF CleanupClosed, AdmittedInv, AdmittedHaveWindows
<1>9. ASSUME CleanupIdle PROVE Kept
  <2>1. /\ streams' = [s \in DOMAIN streams \ Swept |-> streams[s]]
        /\ fc' = Forgotten(fc, Swept) /\ admitted' = admitted \ Swept /\ nextId' = nextId
    BY <1>9 DEF CleanupIdle
  <2>2. /\ fc' \in AnyController
        /\ DOMAIN fc'.send = DOMAIN fc.send \ Swept
        /\ DOMAIN fc'.recv = DOMAIN fc.recv \ Swept
    BY <2>1, ForgottenTakes DEF AdmittedInv
  <2> QED
    BY <2>1, <2>2 DEF AdmittedInv, AdmittedHaveWindows
<1>10. ASSUME NEW long \in BOOLEAN, Wait(long) PROVE Kept
  <2>1. UNCHANGED <<fc, nextId, admitted>> /\ DOMAIN streams' = DOMAIN streams
    BY <1>10 DEF Wait, history
  <2>2. \A s \in DOMAIN streams : streams'[s].state = streams[s].state
    BY <1>10 DEF Wait, AdmittedInv, StreamsTyped, StreamStates
  <2> QED
    BY <2>1, <2>2 DEF AdmittedInv, AdmittedHaveWindows, IsClosed
<1>11. ASSUME NEW s \in Ids, NEW n \in Amounts, FlowControl(s, n) PROVE Kept
  <2>1. UNCHANGED <<streams, nextId, admitted>>
    BY <1>11 DEF FlowControl, history
  <2>2. s \in Int /\ n \in Int
    BY ManagerArguments
  <2>3. Grows(fc, fc')
    BY <1>11, <2>2, FlowControlGrows DEF FlowControl, AdmittedInv
  <2> QED
    BY <2>1, <2>3 DEF AdmittedInv, AdmittedHaveWindows, Grows
<1>12. ASSUME UNCHANGED <<streams, fc, nextId, admitted>> PROVE Kept
  BY <1>12 DEF AdmittedInv, AdmittedHaveWindows
<1>13. ASSUME NEW s \in Ids, NEW sch \in Schedules, UpdatePriority(s, sch)
       PROVE  UNCHANGED <<streams, fc, nextId, admitted>>
  BY <1>13 DEF UpdatePriority, history
<1>14. ASSUME NEW n \in Limits, SetMaxConcurrent(n)
       PROVE  UNCHANGED <<streams, fc, nextId, admitted>>
  BY <1>14 DEF SetMaxConcurrent, history
<1>15. ASSUME UNCHANGED vars PROVE UNCHANGED <<streams, fc, nextId, admitted>>
  BY <1>15 DEF vars, managed, history
<1> HIDE DEF Kept
<1>16. Kept
  BY <1>2, <1>3, <1>5, <1>6, <1>7, <1>8, <1>9, <1>10, <1>11, <1>12, <1>13, <1>14, <1>15
  DEF Next, Named, Create, CreateWithPriority
<1> QED
  BY <1>1, <1>16 DEF AdmittedInv, Kept

\* A stream that was created or accepted has both of its windows until it is
\* closed or swept, whatever frames, resets and cleanups come.
THEOREM AdmittedKeepWindows == Spec => []AdmittedHaveWindows
<1>1. Init => AdmittedInv
  BY AdmittedStarts
<1>2. AdmittedInv => AdmittedHaveWindows
  BY DEF AdmittedInv
<1> QED
  BY <1>1, <1>2, AdmittedStep, PTL DEF Spec

-----------------------------------------------------------------------------
(* Vec::retain.  What it returns sits, in order, at positions of the list   *)
(* it was given.                                                            *)

LEMMA SmallestExists ==
  ASSUME NEW U \in SUBSET Nat, U # {}
  PROVE  \E u \in U : \A v \in U : u <= v
<1> DEFINE Less == OpToRel(<, Nat)
<1>1. IsWellFoundedOn(Less, Nat)
  BY NatLessThanWellFounded
<1>2. \A a, b \in Nat : a < b => <<a, b>> \in Less
  BY Zenon DEF OpToRel
<1> HIDE DEF Less
<1>3. PICK u \in U : \A v \in U : ~(<<v, u>> \in Less)
  <2>1. U \subseteq Nat
    OBVIOUS
  <2> QED
    BY <1>1, <2>1, WFMin, Zenon
<1>4. \A v \in U : ~(v < u)
  BY <1>2, <1>3
<1> QED
  BY <1>4

\* The function Retain is defined by, up to position top.
Builds(f, list, kept, top) ==
  f = [n \in 0 .. top |->
         IF n = 0 THEN <<>>
         ELSE IF n \in kept THEN Append(f[n - 1], list[n]) ELSE f[n - 1]]

LEMMA BuildsExists ==
  ASSUME NEW list, NEW kept, NEW top \in Nat
  PROVE  \E f : Builds(f, list, kept, top)
<1> DEFINE Bad == {n \in Nat : ~\E f : Builds(f, list, kept, n)}
<1> SUFFICES ASSUME Bad # {} PROVE FALSE
  OBVIOUS
<1>1. PICK n \in Bad : \A k \in Bad : n <= k
  <2>1. Bad \in SUBSET Nat
    OBVIOUS
  <2> HIDE DEF Bad
  <2> QED
    BY <2>1, SmallestExists
<1>2. n \in Nat /\ ~\E f : Builds(f, list, kept, n)
  OBVIOUS
<1>3. CASE n = 0
  <2>1. Builds([k \in 0 .. 0 |-> <<>>], list, kept, 0)
    BY DEF Builds
  <2> QED
    BY <1>2, <1>3, <2>1
<1>4. CASE n # 0
  <2>1. n - 1 \in Nat /\ n - 1 \notin Bad
    BY <1>1, <1>2, <1>4
  <2>2. PICK f : Builds(f, list, kept, n - 1)
    BY <2>1
  <2> DEFINE step == IF n \in kept THEN Append(f[n - 1], list[n]) ELSE f[n - 1]
             g    == [k \in 0 .. n |-> IF k = n THEN step ELSE f[k]]
  <2>3. \A k \in 0 .. n - 1 :
          f[k] = IF k = 0 THEN <<>>
                 ELSE IF k \in kept THEN Append(f[k - 1], list[k]) ELSE f[k - 1]
    BY <2>1, <2>2 DEF Builds
  <2>4. ASSUME NEW k \in 0 .. n
        PROVE  g[k] = IF k = 0 THEN <<>>
                      ELSE IF k \in kept THEN Append(g[k - 1], list[k]) ELSE g[k - 1]
    <3>1. CASE k = n
      <4>1. g[k] = step /\ g[k - 1] = f[n - 1]
        BY <1>2, <1>4, <3>1
      <4> HIDE DEF g
      <4> QED
        BY <1>4, <3>1, <4>1
    <3>2. CASE k # n
      <4>1. k \in 0 .. n - 1 /\ g[k] = f[k]
        BY <1>2, <3>2
      <4>2. k # 0 => g[k - 1] = f[k - 1]
        BY <1>2, <4>1
      <4> HIDE DEF g
      <4> QED
        BY <2>3, <4>1, <4>2
    <3> QED
      BY <3>1, <3>2
  <2>5. Builds(g, list, kept, n)
    <3>1. g = [k \in 0 .. n |-> g[k]]
      OBVIOUS
    <3> HIDE DEF g
    <3> QED
      BY <2>4, <3>1 DEF Builds
  <2> QED
    BY <1>2, <2>5
<1> QED
  BY <1>3, <1>4

LEMMA RetainBuilds ==
  ASSUME NEW list, NEW kept, Len(list) \in Nat
  PROVE  \E f : Builds(f, list, kept, Len(list)) /\ Retain(list, kept) = f[Len(list)]
<1> DEFINE f == CHOOSE g : Builds(g, list, kept, Len(list))
<1>1. Builds(f, list, kept, Len(list))
  BY BuildsExists
<1>2. Retain(list, kept) = f[Len(list)]
  BY Zenon DEF Retain, Builds
<1> QED
  BY <1>1, <1>2

\* The entries of r stand in list at the kept positions from[1] < from[2] < ...,
\* none of them beyond n.
Embeds(r, list, kept, n, from) ==
  /\ from \in [1 .. Len(r) -> kept \cap (1 .. n)]
  /\ \A i \in 1 .. Len(r) : r[i] = list[from[i]]
  /\ \A i, j \in 1 .. Len(r) : i < j => from[i] < from[j]

LEMMA EmbedsMore ==
  ASSUME NEW S, NEW list \in Seq(S), NEW kept, NEW n \in 1 .. Len(list),
         NEW r \in Seq(S), NEW from, Embeds(r, list, kept, n - 1, from)
  PROVE  /\ Embeds(r, list, kept, n, from)
         /\ n \in kept => \E more : Embeds(Append(r, list[n]), list, kept, n, more)
<1>1. n \in Int /\ 1 .. n - 1 \subseteq 1 .. n
  OBVIOUS
<1>2. Embeds(r, list, kept, n, from)
  BY <1>1 DEF Embeds
<1>3. ASSUME n \in kept PROVE \E more : Embeds(Append(r, list[n]), list, kept, n, more)
  <2> DEFINE longer == Append(r, list[n])
             more   == [i \in 1 .. Len(r) + 1 |-> IF i = Len(r) + 1 THEN n ELSE from[i]]
  <2>1. /\ Len(r) \in Nat /\ Len(longer) = Len(r) + 1
        /\ longer[Len(r) + 1] = list[n]
        /\ \A i \in 1 .. Len(r) : longer[i] = r[i]
    OBVIOUS
  <2>2. more[Len(r) + 1] = n /\ \A i \in 1 .. Len(r) : more[i] = from[i]
    BY <2>1
  <2>3. more \in [1 .. Len(r) + 1 -> kept \cap (1 .. n)]
    BY <1>1, <1>3, <2>1 DEF Embeds
  <2> HIDE DEF longer, more
  <2>4. \A i \in 1 .. Len(r) + 1 : i = Len(r) + 1 \/ i \in 1 .. Len(r)
    BY <2>1
  <2>5. \A i \in 1 .. Len(r) + 1 : longer[i] = list[more[i]]
    BY <2>1, <2>2, <2>4 DEF Embeds
  <2>6. \A i, j \in 1 .. Len(r) + 1 : i < j => more[i] < more[j]
    <3> SUFFICES ASSUME NEW i \in 1 .. Len(r) + 1, NEW j \in 1 .. Len(r) + 1, i < j
                 PROVE  more[i] < more[j]
      OBVIOUS
    <3>1. i \in 1 .. Len(r) /\ from[i] \in 1 .. n - 1
      BY <2>1 DEF Embeds
    <3>2. CASE j = Len(r) + 1
      BY <2>2, <3>1, <3>2
    <3>3. CASE j \in 1 .. Len(r)
      BY <2>2, <3>1, <3>3 DEF Embeds
    <3> QED
      BY <2>4, <3>2, <3>3
  <2>7. Embeds(longer, list, kept, n, more)
    BY <2>1, <2>3, <2>5, <2>6 DEF Embeds
  <2> QED
    BY <2>7 DEF longer
<1> QED
  BY <1>2, <1>3

LEMMA BuiltEmbeds ==
  ASSUME NEW S, NEW list \in Seq(S), NEW kept, NEW f, Builds(f, list, kept, Len(list)),
         NEW n \in 0 .. Len(list)
  PROVE  f[n] \in Seq(S) /\ \E from : Embeds(f[n], list, kept, n, from)
<1> DEFINE Good(k) == f[k] \in Seq(S) /\ \E from : Embeds(f[k], list, kept, k, from)
           Bad     == {k \in 0 .. Len(list) : ~Good(k)}
<1> SUFFICES ASSUME Bad # {} PROVE FALSE
  OBVIOUS
<1> HIDE DEF Good
<1>1. PICK k \in Bad : \A b \in Bad : k <= b
  <2>1. Bad \in SUBSET Nat
    OBVIOUS
  <2> HIDE DEF Bad
  <2> QED
    BY <2>1, SmallestExists
<1>2. k \in 0 .. Len(list) /\ ~Good(k) /\ Len(list) \in Nat
  OBVIOUS
<1>3. f[k] = IF k = 0 THEN <<>>
             ELSE IF k \in kept THEN Append(f[k - 1], list[k]) ELSE f[k - 1]
  BY <1>2 DEF Builds
<1>4. CASE k = 0
  <2>1. f[k] = <<>> /\ f[k] \in Seq(S)
    BY <1>3, <1>4
  <2>2. Embeds(<<>>, list, kept, 0, [i \in {} |-> 0])
    BY DEF Embeds
  <2> QED
    BY <1>2, <1>4, <2>1, <2>2 DEF Good
<1>5. CASE k # 0
  <2>1. k \in 1 .. Len(list) /\ k - 1 \in 0 .. Len(list) /\ k - 1 \notin Bad
    BY <1>1, <1>2, <1>5
  <2>2. Good(k - 1)
    BY <2>1
  <2>3. PICK from : Embeds(f[k - 1], list, kept, k - 1, from)
    BY <2>2 DEF Good
  <2>4. f[k - 1] \in Seq(S) /\ list[k] \in S
    BY <2>1, <2>2 DEF Good
  <2>5. /\ Embeds(f[k - 1], list, kept, k, from)
        /\ k \in kept => \E more : Embeds(Append(f[k - 1], list[k]), list, kept, k, more)
    BY <2>1, <2>3, <2>4, EmbedsMore
  <2>6. CASE k \in kept
    <3>1. f[k] = Append(f[k - 1], list[k]) /\ f[k] \in Seq(S)
      BY <1>3, <1>5, <2>4, <2>6
    <3> QED
      BY <1>2, <2>5, <2>6, <3>1 DEF Good
  <2>7. CASE k \notin kept
    BY <1>2, <1>3, <1>5, <2>4, <2>5, <2>7 DEF Good
  <2> QED
    BY <2>6, <2>7
<1> QED
  BY <1>4, <1>5

\* r is what is left of list when the entries at some positions are dropped.
Thinned(r, list, kept) ==
  \E from \in [DOMAIN r -> kept \cap DOMAIN list] :
    /\ \A i \in DOMAIN r : r[i] = list[from[i]]
    /\ \A i, j \in DOMAIN r : i < j => from[i] < from[j]

\* retain keeps only what is asked for, changes no entry and repeats none.
LEMMA RetainThins ==
  ASSUME NEW S, NEW list \in Seq(S), NEW kept
  PROVE  Retain(list, kept) \in Seq(S) /\ Thinned(Retain(list, kept), list, kept)
<1>1. Len(list) \in Nat /\ Len(list) \in 0 .. Len(list) /\ DOMAIN list = 1 .. Len(list)
  OBVIOUS
<1>2. PICK f : Builds(f, list, kept, Len(list)) /\ Retain(list, kept) = f[Len(list)]
  BY <1>1, RetainBuilds
<1>3. /\ Retain(list, kept) \in Seq(S)
      /\ \E from : Embeds(Retain(list, kept), list, kept, Len(list), from)
  BY <1>1, <1>2, BuiltEmbeds
<1>4. DOMAIN Retain(list, kept) = 1 .. Len(Retain(list, kept))
  BY <1>3
<1> QED
  BY <1>1, <1>3, <1>4 DEF Embeds, Thinned

\* One list of children is what is left of another.
Part(r, list) ==
  \E from \in [DOMAIN r -> DOMAIN list] :
    /\ \A i \in DOMAIN r : r[i] = list[from[i]]
    /\ \A i, j \in DOMAIN r : i < j => from[i] < from[j]

\* A stream's children without some streams: those are gone, the others are
\* listed as before.
LEMMA WithoutFacts ==
  ASSUME NEW S, NEW children \in Seq(S), NEW gone
  PROVE  /\ Without(children, gone) \in Seq(S)
         /\ Part(Without(children, gone), children)
         /\ \A i \in DOMAIN Without(children, gone) : Without(children, gone)[i] \notin gone
<1> DEFINE kept == {i \in DOMAIN children : children[i] \notin gone}
           left == Retain(children, kept)
<1>1. left \in Seq(S) /\ Thinned(left, children, kept)
  BY RetainThins
<1>2. Without(children, gone) = left
  BY DEF Without
<1> HIDE DEF left
<1>3. PICK from \in [DOMAIN left -> kept \cap DOMAIN children] :
        /\ \A i \in DOMAIN left : left[i] = children[from[i]]
        /\ \A i, j \in DOMAIN left : i < j => from[i] < from[j]
  BY <1>1 DEF Thinned
<1>4. Part(left, children)
  <2>1. from \in [DOMAIN left -> DOMAIN children]
    BY <1>3
  <2> QED
    BY <1>3, <2>1 DEF Part
<1>5. \A i \in DOMAIN left : left[i] \notin gone
  BY <1>3
<1> QED
  BY <1>1, <1>2, <1>4, <1>5

-----------------------------------------------------------------------------
(* The priority queue and the dependency tree.  Both keep ids of streams    *)
(* that are gone, so that neither repeats one rests on where ids come from. *)

Entries == [id : Ids, priority : Nat, weight : Nat]

\* Only four operations touch our ids, the queue or the tree.
LEMMA WhatMovesIds ==
  [Next]_vars =>
    \/ UNCHANGED <<role, nextId, queue, tree, created, early>>
    \/ Create
    \/ \E sch \in Schedules : CreateWithPriority(sch)
    \/ \E s \in Ids, sch \in Schedules : UpdatePriority(s, sch)
    \/ CleanupIdle
<1> SUFFICES ASSUME [Next]_vars,
                    ~Create, ~\E sch \in Schedules : CreateWithPriority(sch),
                    ~\E s \in Ids, sch \in Schedules : UpdatePriority(s, sch),
                    ~CleanupIdle
             PROVE  UNCHANGED <<role, nextId, queue, tree, created, early>>
  OBVIOUS
<1> DEFINE Same == UNCHANGED <<role, nextId, queue, tree, created, early>>
<1>1. ASSUME NEW s \in Ids, OnStream(s) PROVE Same
  BY <1>1 DEF OnStream, Local, Update, history
<1>2. ASSUME NEW s \in Ids, Close(s) PROVE Same
  BY <1>2 DEF Close, Update, history
<1>3. ASSUME NEW s \in Ids, NEW f \in Frames, Receive(s, f) PROVE Same
  BY <1>3 DEF Receive, history
<1>4. ASSUME NEW s \in Ids, NEW n \in Amounts, FlowControl(s, n) PROVE Same
  BY <1>4 DEF FlowControl, history
<1>5. ASSUME NEW n \in Limits, SetMaxConcurrent(n) PROVE Same
  BY <1>5 DEF SetMaxConcurrent, history
<1>6. ASSUME NEW long \in BOOLEAN, Wait(long) PROVE Same
  BY <1>6 DEF Wait, history
<1>7. ASSUME CleanupClosed PROVE Same
  BY <1>7 DEF CleanupClosed
<1>8. ASSUME UNCHANGED vars PROVE Same
  BY <1>8 DEF vars, managed, history
<1>9. ASSUME NEW s \in Ids, Accept(s) PROVE Same
  BY <1>9 DEF Accept
<1> QED
  BY <1>1, <1>2, <1>3, <1>4, <1>5, <1>6, <1>7, <1>8, <1>9 DEF Next, Named

\* The counter moves by four and bounds what it has handed out; every id in the
\* queue is one of those, and the queue repeats none.
QueueInv ==
  /\ nextId \in Nat /\ nextId % 4 = 0
  /\ created \in Seq(Nat)
  /\ \A i \in DOMAIN created : created[i] < nextId
  /\ queue \in Seq(Entries)
  /\ \A i \in DOMAIN queue : queue[i].id < nextId
  /\ QueuedOnce

\* What create_stream does to the ids.
LEMMA CreateIds ==
  ASSUME QueueInv, CreateStream
  PROVE  /\ nextId' \in Nat /\ nextId' % 4 = 0 /\ nextId < nextId'
         /\ nextId \in Ids
         /\ created' \in Seq(Nat) /\ \A i \in DOMAIN created' : created'[i] < nextId'
<1>1. /\ nextId \in Nat /\ nextId % 4 = 0
      /\ created \in Seq(Nat) /\ \A i \in DOMAIN created : created[i] < nextId
  BY DEF QueueInv
<1>2. nextId' = nextId + 4 /\ nextId \in Ids /\ created' = Append(created, nextId)
  BY DEF CreateStream, Named
<1>3. nextId' \in Nat /\ nextId' % 4 = 0 /\ nextId < nextId'
  BY <1>1, <1>2
<1>4. created' \in Seq(Nat) /\ DOMAIN created' = DOMAIN created \cup {Len(created) + 1}
  BY <1>1, <1>2
<1>5. ASSUME NEW i \in DOMAIN created' PROVE created'[i] < nextId'
  <2>1. CASE i \in DOMAIN created
    <3>1. created'[i] = created[i] /\ created[i] \in Nat /\ created[i] < nextId
      BY <1>1, <1>2, <2>1
    <3> QED
      BY <1>1, <1>3, <3>1
  <2>2. CASE i = Len(created) + 1
    <3>1. created'[i] = nextId
      BY <1>1, <1>2, <2>2
    <3> QED
      BY <1>3, <3>1
  <2> QED
    BY <1>4, <1>5, <2>1, <2>2
<1> QED
  BY <1>1, <1>2, <1>3, <1>4, <1>5

\* A new entry whose id is above all others repeats none of them.
LEMMA EntryJoins ==
  ASSUME NEW list \in Seq(Entries), NEW top \in Nat, NEW e \in Entries, e.id = top,
         \A i \in DOMAIN list : list[i].id < top,
         \A i, j \in DOMAIN list : i # j => list[i].id # list[j].id
  PROVE  /\ Append(list, e) \in Seq(Entries)
         /\ \A i \in DOMAIN Append(list, e) : Append(list, e)[i].id <= top
         /\ \A i, j \in DOMAIN Append(list, e) :
              i # j => Append(list, e)[i].id # Append(list, e)[j].id
<1> DEFINE longer == Append(list, e)
<1>1. longer \in Seq(Entries) /\ Len(list) \in Nat
  OBVIOUS
<1>2. DOMAIN longer = DOMAIN list \cup {Len(list) + 1} /\ longer[Len(list) + 1] = e
  OBVIOUS
<1>3. \A i \in DOMAIN list : longer[i] = list[i] /\ list[i] \in Entries
  OBVIOUS
<1>4. \A x \in Entries : x.id \in Nat
  BY ManagerArguments DEF Entries
<1> HIDE DEF longer
<1>5. \A i \in DOMAIN list : longer[i].id = list[i].id /\ longer[i].id < top
                             /\ longer[i].id \in Nat
  BY <1>3, <1>4
<1>6. \A i \in DOMAIN longer : longer[i].id <= top
  BY <1>2, <1>5
<1>7. ASSUME NEW i \in DOMAIN longer, NEW j \in DOMAIN longer, i # j
      PROVE  longer[i].id # longer[j].id
  <2>1. CASE i \in DOMAIN list /\ j \in DOMAIN list
    BY <1>5, <1>7, <2>1
  <2>2. CASE i = Len(list) + 1 /\ j \in DOMAIN list
    BY <1>2, <1>5, <2>2
  <2>3. CASE i \in DOMAIN list /\ j = Len(list) + 1
    BY <1>2, <1>5, <2>3
  <2> QED
    BY <1>2, <1>7, <2>1, <2>2, <2>3
<1> QED
  BY <1>1, <1>6, <1>7 DEF longer

LEMMA QueueStep == QueueInv /\ [Next]_vars => QueueInv'
<1> SUFFICES ASSUME QueueInv, [Next]_vars PROVE QueueInv'
  OBVIOUS
<1>1. CASE UNCHANGED <<role, nextId, queue, tree, created, early>>
  BY <1>1 DEF QueueInv, QueuedOnce
<1>2. CASE Create
  <2>1. CreateStream /\ queue' = queue
    BY <1>2 DEF Create
  <2>2. \A x \in Entries : x.id \in Nat
    BY ManagerArguments DEF Entries
  <2>3. \A i \in DOMAIN queue : queue[i] \in Entries
    BY DEF QueueInv
  <2>4. \A i \in DOMAIN queue : queue[i].id < nextId'
    BY <2>1, <2>2, <2>3, CreateIds DEF QueueInv
  <2> QED
    BY <2>1, <2>4, CreateIds DEF QueueInv, QueuedOnce
<1>3. ASSUME NEW sch \in Schedules, CreateWithPriority(sch) PROVE QueueInv'
  <2> DEFINE e == Entry(nextId, sch)
  <2>1. CreateStream /\ queue' = Append(queue, e)
    BY <1>3 DEF CreateWithPriority
  <2>2. e \in Entries /\ e.id = nextId /\ nextId \in Nat
    BY <2>1, CreateIds, ManagerArguments DEF Entries, Entry, QueueInv
  <2> HIDE DEF e
  <2>3. /\ queue' \in Seq(Entries)
        /\ \A i \in DOMAIN queue' : queue'[i].id <= nextId
        /\ \A i, j \in DOMAIN queue' : i # j => queue'[i].id # queue'[j].id
    BY <2>1, <2>2, EntryJoins DEF QueueInv, QueuedOnce
  <2>4. \A i \in DOMAIN queue' : queue'[i].id \in Nat
    <3>1. \A i \in DOMAIN queue' : queue'[i] \in Entries
      BY <2>3
    <3>2. \A x \in Entries : x.id \in Nat
      BY ManagerArguments DEF Entries
    <3> QED
      BY <3>1, <3>2
  <2>5. \A i \in DOMAIN queue' : queue'[i].id < nextId'
    BY <2>1, <2>2, <2>3, <2>4, CreateIds
  <2> QED
    BY <2>1, <2>3, <2>5, CreateIds DEF QueueInv, QueuedOnce
<1>5. ASSUME NEW s \in Ids, NEW sch \in Schedules, UpdatePriority(s, sch) PROVE QueueInv'
  <2>1. UNCHANGED <<nextId, created>>
    BY <1>5 DEF UpdatePriority
  <2>2. DOMAIN queue' = DOMAIN queue /\ DOMAIN queue = 1 .. Len(queue) /\ Len(queue) \in Nat
    BY <1>5 DEF UpdatePriority, QueueInv
  <2>3. ASSUME NEW i \in DOMAIN queue
        PROVE  queue'[i] \in Entries /\ queue'[i].id = queue[i].id
    <3>1. queue'[i] = queue[i] \/ (queue[i].id = s /\ queue'[i] = Entry(s, sch))
      BY <1>5 DEF UpdatePriority
    <3>2. queue[i] \in Entries
      BY DEF QueueInv
    <3>3. Entry(s, sch) \in Entries /\ Entry(s, sch).id = s
      BY ManagerArguments DEF Entries, Entry
    <3> QED
      BY <3>1, <3>2, <3>3
  <2>4. queue' \in Seq(Entries)
    <3>1. queue' = [i \in 1 .. Len(queue) |-> queue'[i]]
      BY <1>5, <2>2 DEF UpdatePriority
    <3> QED
      BY <2>2, <2>3, <3>1
  <2> QED
    BY <2>1, <2>2, <2>3, <2>4 DEF QueueInv, QueuedOnce
<1>6. CASE CleanupIdle
  <2> DEFINE kept == {i \in DOMAIN queue : queue[i].id \notin Swept}
  <2>1. UNCHANGED <<nextId, created>> /\ queue' = Retain(queue, kept)
    BY <1>6 DEF CleanupIdle, QueueWithout
  <2>2. queue' \in Seq(Entries) /\ Thinned(queue', queue, kept)
    BY <2>1, RetainThins DEF QueueInv
  <2>3. PICK from \in [DOMAIN queue' -> kept \cap DOMAIN queue] :
          /\ \A i \in DOMAIN queue' : queue'[i] = queue[from[i]]
          /\ \A i, j \in DOMAIN queue' : i < j => from[i] < from[j]
    BY <2>2 DEF Thinned
  <2>4. \A i \in DOMAIN queue' : queue'[i].id < nextId
    BY <2>3 DEF QueueInv
  <2>5. ASSUME NEW i \in DOMAIN queue', NEW j \in DOMAIN queue', i # j
        PROVE  queue'[i].id # queue'[j].id
    <3>1. i \in Int /\ j \in Int /\ from[i] \in Int /\ from[j] \in Int
      BY <2>2, <2>3 DEF QueueInv
    <3>2. from[i] # from[j]
      BY <2>3, <2>5, <3>1
    <3> QED
      BY <2>3, <3>2 DEF QueueInv, QueuedOnce
  <2> QED
    BY <2>1, <2>2, <2>4, <2>5 DEF QueueInv, QueuedOnce
<1> QED
  BY <1>1, <1>2, <1>3, <1>5, <1>6, WhatMovesIds

\* No stream is queued twice, although entries outlive the streams they name:
\* an id is handed out once.
THEOREM EachQueuedOnce == Spec => []QueuedOnce
<1>1. Init => QueueInv
  BY DEF Init, QueueInv, QueuedOnce
<1>2. QueueInv => QueuedOnce
  BY DEF QueueInv
<1> QED
  BY <1>1, <1>2, QueueStep, PTL DEF Spec

Trees == [Ids -> Seq(Ids)]

\* A stream is listed at one place in the tree, or nowhere.
OneParent(t, c) ==
  \A p, q \in Ids : \A i \in DOMAIN t[p], j \in DOMAIN t[q] :
    t[p][i] = c /\ t[q][j] = c => p = q /\ i = j

Children(t) == {c \in Ids : \E p \in Ids : \E i \in DOMAIN t[p] : t[p][i] = c}

LEMMA Childless ==
  ASSUME NEW t, NEW c \in Ids, c \notin Children(t)
  PROVE  OneParent(t, c)
  BY DEF Children, OneParent

LEMMA EmptyPart == \A list : Part(<<>>, list)
<1> SUFFICES ASSUME NEW list PROVE Part(<<>>, list)
  OBVIOUS
<1>1. [i \in {} |-> 0] \in [DOMAIN <<>> -> DOMAIN list]
  OBVIOUS
<1> QED
  BY <1>1 DEF Part

\* Streams taken out of the tree leave no other one listed twice.
LEMMA PrunedTree ==
  ASSUME NEW t \in Trees, NEW left \in Trees, \A p \in Ids : Part(left[p], t[p])
  PROVE  /\ Children(left) \subseteq Children(t)
         /\ \A c : OneParent(t, c) => OneParent(left, c)
<1>1. ASSUME NEW p \in Ids, NEW i \in DOMAIN left[p]
      PROVE  \E k \in DOMAIN t[p] : left[p][i] = t[p][k]
  <2>1. PICK from \in [DOMAIN left[p] -> DOMAIN t[p]] :
          \A k \in DOMAIN left[p] : left[p][k] = t[p][from[k]]
    BY DEF Part
  <2> QED
    BY <2>1
<1>2. Children(left) \subseteq Children(t)
  BY <1>1 DEF Children
<1>3. ASSUME NEW c, OneParent(t, c), NEW p \in Ids, NEW q \in Ids,
             NEW i \in DOMAIN left[p], NEW j \in DOMAIN left[q],
             left[p][i] = c, left[q][j] = c
      PROVE  p = q /\ i = j
  <2>1. p = q
    BY <1>1, <1>3 DEF OneParent
  <2>2. PICK from \in [DOMAIN left[p] -> DOMAIN t[p]] :
          /\ \A k \in DOMAIN left[p] : left[p][k] = t[p][from[k]]
          /\ \A k, l \in DOMAIN left[p] : k < l => from[k] < from[l]
    BY DEF Part
  <2>3. from[i] = from[j]
    BY <1>3, <2>1, <2>2 DEF OneParent
  <2>4. i \in Int /\ j \in Int /\ from[i] \in Int /\ from[j] \in Int
    BY <1>3, <2>1, <2>2 DEF Trees
  <2>5. ~(i < j) /\ ~(j < i)
    BY <1>3, <2>1, <2>2, <2>3, <2>4
  <2> QED
    BY <2>1, <2>4, <2>5
<1> QED
  BY <1>2, <1>3 DEF OneParent

\* A stream that hangs nowhere can be hung below one other.
LEMMA AddedToTree ==
  ASSUME NEW t \in Trees, NEW parent \in Ids \cup {NoParent}, NEW s \in Ids
  PROVE  LET more == AddChild(t, parent, s)
         IN /\ more \in Trees
            /\ Children(more) \subseteq Children(t) \cup {s}
            /\ parent = NoParent => more = t
            /\ \A c : OneParent(t, c) /\ (c = s => s \notin Children(t))
                       => OneParent(more, c)
<1> DEFINE more == AddChild(t, parent, s)
<1>1. CASE parent = NoParent
  <2>1. more = t
    BY <1>1 DEF AddChild
  <2> QED
    BY <2>1
<1>2. CASE parent # NoParent
  <2>1. parent \in Ids /\ more = [t EXCEPT ![parent] = Append(@, s)]
    BY <1>2 DEF AddChild
  <2> DEFINE old == t[parent]
             new == Append(old, s)
  <2>2. old \in Seq(Ids)
    BY <2>1 DEF Trees
  <2>3. more[parent] = new /\ \A p \in Ids : p # parent => more[p] = t[p]
    BY <2>1 DEF Trees
  <2> HIDE DEF more, old
  <2>4. /\ new \in Seq(Ids) /\ Len(old) \in Nat
        /\ DOMAIN old = 1 .. Len(old)
        /\ DOMAIN new = DOMAIN old \cup {Len(old) + 1}
        /\ new[Len(old) + 1] = s /\ \A i \in DOMAIN old : new[i] = old[i]
    BY <2>2
  <2> HIDE DEF new
  <2>5. more \in Trees
    BY <2>1, <2>4 DEF Trees, more, old, new
  <2>6. ASSUME NEW p \in Ids, NEW i \in DOMAIN more[p]
        PROVE  \/ i \in DOMAIN t[p] /\ more[p][i] = t[p][i]
               \/ p = parent /\ i = Len(old) + 1 /\ more[p][i] = s
    BY <2>3, <2>4 DEF old
  <2>7. Children(more) \subseteq Children(t) \cup {s}
    BY <2>6 DEF Children
  <2>8. ASSUME NEW c, OneParent(t, c), c = s => s \notin Children(t),
               NEW p \in Ids, NEW q \in Ids,
               NEW i \in DOMAIN more[p], NEW j \in DOMAIN more[q],
               more[p][i] = c, more[q][j] = c
        PROVE  p = q /\ i = j
    <3>1. c = s => \A x \in Ids : \A k \in DOMAIN t[x] : t[x][k] # s
      BY <2>8 DEF Children
    <3>2. \/ i \in DOMAIN t[p] /\ more[p][i] = t[p][i]
          \/ p = parent /\ i = Len(old) + 1 /\ more[p][i] = s
      BY <2>6
    <3>3. \/ j \in DOMAIN t[q] /\ more[q][j] = t[q][j]
          \/ q = parent /\ j = Len(old) + 1 /\ more[q][j] = s
      BY <2>6
    <3>4. CASE i \in DOMAIN t[p] /\ more[p][i] = t[p][i]
      <4>1. j \in DOMAIN t[q] /\ more[q][j] = t[q][j]
        BY <2>8, <3>1, <3>3, <3>4
      <4>2. t[p][i] = c /\ t[q][j] = c
        BY <2>8, <3>4, <4>1
      <4>3. OneParent(t, c)
        BY <2>8
      <4> QED
        BY <3>4, <4>1, <4>2, <4>3 DEF OneParent
    <3>5. CASE p = parent /\ i = Len(old) + 1 /\ more[p][i] = s
      <4>1. q = parent /\ j = Len(old) + 1
        BY <2>8, <3>1, <3>3, <3>5
      <4> QED
        BY <3>5, <4>1
    <3> QED
      BY <3>2, <3>4, <3>5
  <2>9. \A c : OneParent(t, c) /\ (c = s => s \notin Children(t)) => OneParent(more, c)
    BY <2>8 DEF OneParent
  <2> QED
    BY <1>2, <2>5, <2>7, <2>9 DEF more
<1> QED
  BY <1>1, <1>2

Created == Seqs!Range(created)

\* A stream in the tree was created, or was given its parent before that; so the
\* id of the next stream is not in the tree yet unless it is one of those.
TreeInv ==
  /\ role \in Roles
  /\ tree \in Trees
  /\ early \subseteq Ids
  /\ Children(tree) \subseteq Created \cup early
  /\ \A c \in Ids : c \notin early \cap Created => OneParent(tree, c)

\* Some streams are taken out of the tree: as children everywhere, and the bare
\* ones as parents too.
Pruned(left, t, gone, bare) ==
  left = [p \in Ids |-> IF p \in bare THEN <<>> ELSE Without(t[p], gone)]

LEMMA PrunedEverywhere ==
  ASSUME NEW t \in Trees, NEW left, NEW gone, NEW bare, Pruned(left, t, gone, bare)
  PROVE  /\ left \in Trees
         /\ Children(left) \subseteq Children(t) \ gone
         /\ \A c : OneParent(t, c) => OneParent(left, c)
<1>1. ASSUME NEW p \in Ids
      PROVE  /\ left[p] \in Seq(Ids) /\ Part(left[p], t[p])
             /\ \A i \in DOMAIN left[p] : left[p][i] \notin gone
  <2>1. t[p] \in Seq(Ids)
    BY DEF Trees
  <2>2. CASE p \in bare
    <3>1. left[p] = <<>>
      BY <2>2 DEF Pruned
    <3>2. Part(left[p], t[p])
      BY <3>1, EmptyPart
    <3> QED
      BY <3>1, <3>2
  <2>3. CASE p \notin bare
    <3>1. left[p] = Without(t[p], gone)
      BY <2>3 DEF Pruned
    <3>2. /\ Without(t[p], gone) \in Seq(Ids)
          /\ Part(Without(t[p], gone), t[p])
          /\ \A i \in DOMAIN Without(t[p], gone) : Without(t[p], gone)[i] \notin gone
      BY <2>1, WithoutFacts
    <3> QED
      BY <3>1, <3>2
  <2> QED
    BY <2>2, <2>3
<1>2. left \in Trees
  BY <1>1 DEF Trees, Pruned
<1>3. Children(left) \subseteq Children(t) /\ \A c : OneParent(t, c) => OneParent(left, c)
  BY <1>1, <1>2, PrunedTree
<1>4. Children(left) \cap gone = {}
  BY <1>1 DEF Children
<1> QED
  BY <1>2, <1>3, <1>4

\* create_stream takes an id that it never returned before.
LEMMA FreshId ==
  ASSUME QueueInv, CreateStream
  PROVE  nextId \in Ids /\ nextId \notin Created /\ Created' = Created \cup {nextId}
<1>1. /\ nextId \in Nat /\ created \in Seq(Nat) /\ nextId \in Ids
      /\ \A i \in DOMAIN created : created[i] < nextId
  BY CreateIds DEF QueueInv
<1>2. created' = Append(created, nextId)
  BY DEF CreateStream
<1>3. nextId \notin Created
  BY <1>1 DEF Created, Seqs!Range
<1>4. /\ DOMAIN created' = DOMAIN created \cup {Len(created) + 1}
      /\ created'[Len(created) + 1] = nextId
      /\ \A i \in DOMAIN created : created'[i] = created[i]
  BY <1>1, <1>2
<1>5. Created' = Created \cup {nextId}
  BY <1>4 DEF Created, Seqs!Range
<1> QED
  BY <1>1, <1>3, <1>5

LEMMA TreeStep == QueueInv /\ TreeInv /\ [Next]_vars => TreeInv'
<1> SUFFICES ASSUME QueueInv, TreeInv, [Next]_vars PROVE TreeInv'
  OBVIOUS
<1>0. /\ role \in Roles /\ tree \in Trees /\ early \subseteq Ids
      /\ Children(tree) \subseteq Created \cup early
      /\ \A c \in Ids : c \notin early \cap Created => OneParent(tree, c)
      /\ \A sch \in Schedules : sch.dependsOn \in Ids \cup {NoParent}
  BY ManagerArguments DEF TreeInv
<1>1. CASE UNCHANGED <<role, nextId, queue, tree, created, early>>
  BY <1>1 DEF TreeInv, Children, OneParent, Created
<1>2. ASSUME role' = role, early' \subseteq Ids, tree' \in Trees,
             Children(tree') \subseteq Created' \cup early',
             \A c \in Ids : c \notin early' \cap Created' => OneParent(tree', c)
      PROVE  TreeInv'
  BY <1>0, <1>2 DEF TreeInv, Children, OneParent
<1>3. ASSUME NEW sch \in Schedules, CreateWithPriority(sch) PROVE TreeInv'
  <2>1. /\ CreateStream /\ tree' = AddChild(tree, sch.dependsOn, nextId)
        /\ role' = role /\ early' = early
    BY <1>3 DEF CreateWithPriority, CreateStream
  <2>2. nextId \in Ids /\ nextId \notin Created /\ Created' = Created \cup {nextId}
    BY <2>1, FreshId
  <2>3. /\ tree' \in Trees
        /\ Children(tree') \subseteq Children(tree) \cup {nextId}
        /\ \A c : OneParent(tree, c) /\ (c = nextId => nextId \notin Children(tree))
                  => OneParent(tree', c)
    BY <1>0, <2>1, <2>2, AddedToTree
  <2>4. ASSUME NEW c \in Ids, c \notin early' \cap Created' PROVE OneParent(tree', c)
    BY <1>0, <2>1, <2>2, <2>3, <2>4
  <2> QED
    BY <1>0, <1>2, <2>1, <2>2, <2>3, <2>4
<1>4. CASE Create
  <2>1. CreateStream /\ tree' = tree /\ role' = role /\ early' = early
    BY <1>4 DEF Create, CreateStream
  <2>2. Created' = Created \cup {nextId}
    BY <2>1, FreshId
  <2> QED
    BY <1>0, <1>2, <2>1, <2>2
<1>5. ASSUME NEW s \in Ids, NEW sch \in Schedules, UpdatePriority(s, sch) PROVE TreeInv'
  <2> DEFINE left == [p \in Ids |-> Without(tree[p], {s})]
  <2>1. /\ role' = role /\ created' = created
        /\ tree' = AddChild(left, sch.dependsOn, s)
        /\ early' = IF s \in Created \/ sch.dependsOn = NoParent
                    THEN early \ {s} ELSE early \cup {s}
    BY <1>5 DEF UpdatePriority, NoteEarly, Created
  <2>2. Created' = Created
    BY <2>1 DEF Created
  <2>3. Pruned(left, tree, {s}, {})
    BY DEF Pruned
  <2> HIDE DEF left
  <2>4. /\ left \in Trees
        /\ Children(left) \subseteq Children(tree) \ {s}
        /\ \A c : OneParent(tree, c) => OneParent(left, c)
    BY <1>0, <2>3, PrunedEverywhere
  <2>5. /\ tree' \in Trees
        /\ Children(tree') \subseteq Children(left) \cup {s}
        /\ sch.dependsOn = NoParent => tree' = left
        /\ \A c : OneParent(left, c) /\ (c = s => s \notin Children(left))
                  => OneParent(tree', c)
    BY <1>0, <2>1, <2>4, AddedToTree
  <2>6. ASSUME NEW c \in Ids, c \notin early' \cap Created' PROVE OneParent(tree', c)
    <3>1. CASE c = s
      BY <2>4, <2>5, <3>1, Childless
    <3>2. CASE c # s
      BY <1>0, <2>1, <2>2, <2>4, <2>5, <2>6, <3>2
    <3> QED
      BY <3>1, <3>2
  <2>7. Children(tree') \subseteq Created' \cup early'
    BY <1>0, <2>1, <2>2, <2>4, <2>5
  <2> QED
    BY <1>0, <1>2, <2>1, <2>5, <2>6, <2>7
<1>6. CASE CleanupIdle
  <2>1. /\ role' = role /\ created' = created /\ early' = early \ Swept
        /\ tree' = [p \in Ids |-> IF p \in Swept THEN <<>> ELSE Without(tree[p], Swept)]
    BY <1>6 DEF CleanupIdle
  <2>2. Created' = Created
    BY <2>1 DEF Created
  <2>3. Pruned(tree', tree, Swept, Swept)
    BY <2>1 DEF Pruned
  <2>4. /\ tree' \in Trees /\ Children(tree') \subseteq Children(tree) \ Swept
        /\ \A c : OneParent(tree, c) => OneParent(tree', c)
    BY <1>0, <2>3, PrunedEverywhere
  <2>5. ASSUME NEW c \in Ids, c \notin early' \cap Created' PROVE OneParent(tree', c)
    <3>1. CASE c \in Swept
      BY <2>4, <3>1, Childless
    <3>2. CASE c \notin Swept
      BY <1>0, <2>1, <2>2, <2>4, <2>5, <3>2
    <3> QED
      BY <3>1, <3>2
  <2> QED
    BY <1>0, <1>2, <2>1, <2>2, <2>4, <2>5
<1> QED
  BY <1>1, <1>3, <1>4, <1>5, <1>6, WhatMovesIds

-----------------------------------------------------------------------------
(* The sweep, and the types of everything the manager keeps.                *)

\* Only ids the callers and frames name are filed.
Plain ==
  /\ DOMAIN streams \subseteq Ids
  /\ maxRemote \in Nat /\ limit \in Limits /\ due \in BOOLEAN

LEMMA FileDomain ==
  ASSUME NEW s, NEW st, FileStream(s, st)
  PROVE  DOMAIN streams' = DOMAIN streams \cup {s}
  BY DEF FileStream, Insert

LEMMA PlainStep == QueueInv /\ Plain /\ [Next]_vars => Plain'
<1> SUFFICES ASSUME QueueInv, Plain, [Next]_vars PROVE Plain'
  OBVIOUS
<1>1. ASSUME CreateStream PROVE Plain'
  <2>1. nextId \in Ids /\ DOMAIN streams' = DOMAIN streams \cup {nextId}
    BY <1>1, CreateIds, FileDomain DEF CreateStream
  <2> QED
    BY <1>1, <2>1 DEF CreateStream, Plain
<1>2. ASSUME NEW s \in Ids, Accept(s) PROVE Plain'
  <2>1. DOMAIN streams' = DOMAIN streams \cup {s} /\ s \in Nat
    BY <1>2, FileDomain, ManagerArguments DEF Accept
  <2> QED
    BY <1>2, <2>1 DEF Accept, Plain
<1>3. ASSUME NEW s \in Ids, NEW st, FileStream(s, st), UNCHANGED <<maxRemote, limit, due>>
      PROVE  Plain'
  <2>1. DOMAIN streams' = DOMAIN streams \cup {s}
    BY <1>3, FileDomain
  <2> QED
    BY <1>3, <2>1 DEF Plain
<1>4. ASSUME NEW s \in Ids, OnStream(s) PROVE Plain'
  <2>1. \E st : FileStream(s, st) /\ UNCHANGED <<maxRemote, limit, due>>
    BY <1>4 DEF OnStream, Local, Update
  <2> QED
    BY <2>1, <1>3
<1>5. ASSUME NEW s \in Ids, Close(s) PROVE Plain'
  BY <1>5, <1>3 DEF Close, Update
<1>6. ASSUME NEW s \in Ids, NEW f \in Frames, Receive(s, f) PROVE Plain'
  BY <1>6, <1>3 DEF Receive
<1>7. CASE CleanupClosed
  <2>1. DOMAIN streams' \subseteq DOMAIN streams /\ UNCHANGED <<maxRemote, limit, due>>
    BY <1>7 DEF CleanupClosed
  <2> QED
    BY <2>1 DEF Plain
<1>8. CASE CleanupIdle
  BY <1>8 DEF CleanupIdle, Plain
<1>9. ASSUME NEW long \in BOOLEAN, Wait(long) PROVE Plain'
  BY <1>9 DEF Wait, Plain
<1>10. ASSUME NEW s \in Ids, NEW sch \in Schedules, UpdatePriority(s, sch) PROVE Plain'
  BY <1>10 DEF UpdatePriority, Plain
<1>11. ASSUME NEW s \in Ids, NEW n \in Amounts, FlowControl(s, n) PROVE Plain'
  BY <1>11 DEF FlowControl, Plain
<1>12. ASSUME NEW n \in Limits, SetMaxConcurrent(n) PROVE Plain'
  BY <1>12 DEF SetMaxConcurrent, Plain
<1>13. CASE UNCHANGED vars
  BY <1>13 DEF vars, managed, Plain
<1> QED
  BY <1>1, <1>2, <1>4, <1>5, <1>6, <1>7, <1>8, <1>9, <1>10, <1>11, <1>12, <1>13
  DEF Next, Named, Create, CreateWithPriority

\* Nothing but the sweep takes back that a sweep is due.
LEMMA OnlySweepEndsDue ==
  ASSUME [Next]_vars, due, ~due'
  PROVE  CleanupIdle
<1> DEFINE Waiting == due' = due \/ due' = TRUE
<1>1. ASSUME CreateStream \/ CleanupClosed PROVE Waiting
  BY <1>1 DEF CreateStream, CleanupClosed
<1>2. ASSUME NEW s \in Ids, Accept(s) \/ OnStream(s) \/ Close(s) PROVE Waiting
  BY <1>2 DEF Accept, OnStream, Local, Close, Update
<1>3. ASSUME NEW s \in Ids, NEW f \in Frames, Receive(s, f) PROVE Waiting
  BY <1>3 DEF Receive, history
<1>4. ASSUME NEW s \in Ids, NEW sch \in Schedules, UpdatePriority(s, sch) PROVE Waiting
  BY <1>4 DEF UpdatePriority
<1>5. ASSUME NEW s \in Ids, NEW n \in Amounts, FlowControl(s, n) PROVE Waiting
  BY <1>5 DEF FlowControl
<1>6. ASSUME NEW n \in Limits, SetMaxConcurrent(n) PROVE Waiting
  BY <1>6 DEF SetMaxConcurrent
<1>7. ASSUME NEW long \in BOOLEAN, Wait(long) PROVE Waiting
  BY <1>7 DEF Wait, history
<1>8. ASSUME UNCHANGED vars PROVE Waiting
  BY <1>8 DEF vars, managed
<1> QED
  BY <1>1, <1>2, <1>3, <1>4, <1>5, <1>6, <1>7, <1>8
  DEF Next, Named, Create, CreateWithPriority

CleanSweep ==
  due /\ ~due' =>
    \A s \in DOMAIN streams \ DOMAIN streams' :
      /\ \A i \in DOMAIN queue' : queue'[i].id # s
      /\ tree'[s] = <<>>
      /\ \A p \in Ids : \A i \in DOMAIN tree'[p] : tree'[p][i] # s
      /\ s \notin DOMAIN fc'.send \cup DOMAIN fc'.recv

LEMMA SweepStep ==
  QueueInv /\ TreeInv /\ Plain /\ AdmittedInv /\ [Next]_vars => CleanSweep
<1> SUFFICES ASSUME QueueInv, TreeInv, Plain, AdmittedInv, [Next]_vars, due, ~due',
                    NEW s \in DOMAIN streams \ DOMAIN streams'
             PROVE  /\ \A i \in DOMAIN queue' : queue'[i].id # s
                    /\ tree'[s] = <<>>
                    /\ \A p \in Ids : \A i \in DOMAIN tree'[p] : tree'[p][i] # s
                    /\ s \notin DOMAIN fc'.send \cup DOMAIN fc'.recv
  BY DEF CleanSweep
<1>1. CleanupIdle
  BY OnlySweepEndsDue
<1>2. s \in Swept /\ s \in Ids
  <2>1. DOMAIN streams' = DOMAIN streams \ Swept
    BY <1>1 DEF CleanupIdle
  <2> QED
    BY <2>1 DEF Plain
<1>3. \A i \in DOMAIN queue' : queue'[i].id # s
  <2> DEFINE kept == {i \in DOMAIN queue : queue[i].id \notin Swept}
  <2>1. queue' = Retain(queue, kept) /\ queue \in Seq(Entries)
    BY <1>1 DEF CleanupIdle, QueueWithout, QueueInv
  <2>2. Thinned(queue', queue, kept)
    BY <2>1, RetainThins
  <2>3. \A i \in DOMAIN queue' : \E k \in kept : queue'[i] = queue[k]
    BY <2>2 DEF Thinned
  <2> QED
    BY <1>2, <2>3
<1>4. /\ tree'[s] = <<>>
      /\ \A p \in Ids : \A i \in DOMAIN tree'[p] : tree'[p][i] # s
  <2>1. Pruned(tree', tree, Swept, Swept) /\ tree \in Trees
    BY <1>1 DEF CleanupIdle, Pruned, TreeInv
  <2>2. s \notin Children(tree')
    BY <1>2, <2>1, PrunedEverywhere
  <2>3. tree'[s] = <<>>
    BY <1>2, <2>1 DEF Pruned
  <2> QED
    BY <1>2, <2>2, <2>3 DEF Children
<1>5. s \notin DOMAIN fc'.send \cup DOMAIN fc'.recv
  <2>1. fc' = Forgotten(fc, Swept) /\ fc \in AnyController
    BY <1>1 DEF CleanupIdle, AdmittedInv
  <2>2. /\ DOMAIN fc'.send = DOMAIN fc.send \ Swept
        /\ DOMAIN fc'.recv = DOMAIN fc.recv \ Swept
    BY <2>1, ForgottenTakes
  <2> QED
    BY <1>2, <2>2
<1> QED
  BY <1>3, <1>4, <1>5

\* What holds of a manager whatever the sizes of its windows.
ManagerInv == QueueInv /\ TreeInv /\ Plain /\ AdmittedInv

LEMMA ManagerStarts == Init => ManagerInv
<1> SUFFICES ASSUME Init PROVE ManagerInv
  OBVIOUS
<1>1. AdmittedInv
  BY AdmittedStarts
<1>2. QueueInv
  BY DEF Init, QueueInv, QueuedOnce
<1>3. Plain
  <2>1. DOMAIN streams = {} /\ maxRemote = 0 /\ limit \in Limits /\ due = FALSE
    BY DEF Init
  <2> QED
    BY <2>1 DEF Plain
<1>4. TreeInv
  <2>1. role \in Roles /\ tree = [s \in Ids |-> <<>>] /\ early = {}
    BY DEF Init
  <2>2. tree \in Trees /\ Children(tree) = {} /\ \A c : OneParent(tree, c)
    BY <2>1 DEF Trees, Children, OneParent
  <2> QED
    BY <2>1, <2>2 DEF TreeInv
<1> QED
  BY <1>1, <1>2, <1>3, <1>4 DEF ManagerInv

LEMMA ManagerSteps == ManagerInv /\ [Next]_vars => ManagerInv'
  BY QueueStep, TreeStep, PlainStep, AdmittedStep DEF ManagerInv

\* No stream hangs below two others, or twice below one, unless it was given a
\* parent before create_stream returned its id: whatever streams are created,
\* reprioritised below one another, closed and swept in between.
THEOREM NoSecondParent == Spec => []AtMostOneParent
<1>1. ManagerInv => AtMostOneParent
  <2> SUFFICES ASSUME ManagerInv, NEW p \in Ids, NEW q \in Ids,
                      NEW i \in DOMAIN tree[p], NEW j \in DOMAIN tree[q],
                      tree[p][i] = tree[q][j], tree[p][i] \notin early \cap Created
               PROVE  p = q /\ i = j
    BY DEF AtMostOneParent, Created
  <2>1. tree[p][i] \in Ids
    BY DEF ManagerInv, TreeInv, Trees
  <2> QED
    BY <2>1 DEF ManagerInv, TreeInv, OneParent
<1> QED
  BY <1>1, ManagerStarts, ManagerSteps, PTL DEF Spec

\* A sweep leaves no trace of the streams it takes, in whichever of the four
\* places and in whatever order they got there.
THEOREM SweepTakesEverything == Spec => SweepLeavesNothing
<1>1. ManagerInv /\ [Next]_vars => CleanSweep
  BY SweepStep DEF ManagerInv
<1> QED
  BY <1>1, ManagerStarts, ManagerSteps, PTL DEF Spec, SweepLeavesNothing, CleanSweep

OwnStreams == Ids \ {Connection}
Top == Limit(InitialWindow)
Typed(c) == c \in Controllers(OwnStreams, Top, Top)

LEMMA TopFits == Top \in Nat /\ InitialWindow \in Window(Top) /\ MaxWindow <= Top
  BY StreamWindows, WindowLimits DEF Top, Limit, Window

\* remove_stream of all that were swept keeps the windows in range.
LEMMA ForgottenTyped ==
  ASSUME NEW c, Typed(c), NEW gone
  PROVE  Typed(Forgotten(c, gone))
<1>1. ASSUME NEW w \in WindowMaps(OwnStreams, Top)
      PROVE  [s \in DOMAIN w \ gone |-> w[s]] \in WindowMaps(OwnStreams, Top)
  <2>1. PICK known \in SUBSET OwnStreams : w \in [known -> Window(Top)]
    BY DEF WindowMaps
  <2>2. /\ known \ gone \in SUBSET OwnStreams
        /\ [s \in DOMAIN w \ gone |-> w[s]] \in [known \ gone -> Window(Top)]
    BY <2>1
  <2> QED
    BY <2>2 DEF WindowMaps
<1> DEFINE send == [s \in DOMAIN c.send \ gone |-> c.send[s]]
           recv == [s \in DOMAIN c.recv \ gone |-> c.recv[s]]
<1>2. send \in WindowMaps(OwnStreams, Top) /\ recv \in WindowMaps(OwnStreams, Top)
  BY <1>1 DEF Controllers, Typed
<1>3. Forgotten(c, gone) = [c EXCEPT !.send = send, !.recv = recv]
  BY DEF Forgotten
<1> HIDE DEF send, recv
<1> QED
  BY <1>2, <1>3 DEF Controllers, Typed

\* No call takes a window of the FlowController out of range.
LEMMA ControllerStep == ManagerInv /\ Typed(fc) /\ [Next]_vars => Typed(fc)'
<1> SUFFICES ASSUME ManagerInv, Typed(fc), [Next]_vars PROVE Typed(fc')
  BY DEF Typed
<1>0. \A s \in Ids : s \in OwnStreams \cup {Connection}
  BY DEF OwnStreams
<1>1. ASSUME NEW s \in Ids, InitializeUnlessZero(s) PROVE Typed(fc')
  BY <1>0, <1>1, TopFits, InitializeStreamTyped DEF InitializeUnlessZero, Typed
<1>2. ASSUME CreateStream PROVE Typed(fc')
  BY <1>1, <1>2, CreateIds DEF CreateStream, ManagerInv
<1>3. ASSUME NEW s \in Ids, Accept(s) PROVE Typed(fc')
  BY <1>1, <1>3 DEF Accept
<1>4. ASSUME NEW s \in Ids, Close(s) PROVE Typed(fc')
  BY <1>0, <1>4, TopFits, RemoveStreamTyped DEF Close, Typed
<1>5. ASSUME CleanupIdle PROVE Typed(fc')
  BY <1>5, ForgottenTyped DEF CleanupIdle
<1>6. ASSUME NEW s \in Ids, NEW n \in Amounts, FlowControl(s, n)
      PROVE  Typed(fc')
  <2>1. n \in Nat /\ s \in OwnStreams \cup {Connection}
    BY <1>0, ManagerArguments
  <2>2. /\ Typed(ReserveSendWindow(fc, s, n).fc)
        /\ Typed(ProcessReceivedData(fc, s, n).fc)
        /\ Typed(UpdateSendWindow(fc, s, n).fc)
        /\ Typed(UpdateRecvWindow(fc, s, n).fc)
    BY <2>1, TopFits, ReserveTyped, ProcessReceivedTyped, UpdateSendTyped, UpdateRecvTyped
    DEF Typed
  <2> QED
    BY <1>6, <2>2 DEF FlowControl
<1>7. ASSUME NEW s \in Ids, OnStream(s) PROVE fc' = fc
  BY <1>7 DEF OnStream
<1>8. ASSUME NEW s \in Ids, NEW f \in Frames, Receive(s, f) PROVE fc' = fc
  BY <1>8 DEF Receive, history
<1>9. ASSUME NEW s \in Ids, NEW sch \in Schedules, UpdatePriority(s, sch) PROVE fc' = fc
  BY <1>9 DEF UpdatePriority
<1>10. ASSUME NEW n \in Limits, SetMaxConcurrent(n) PROVE fc' = fc
  BY <1>10 DEF SetMaxConcurrent
<1>11. ASSUME NEW long \in BOOLEAN, Wait(long) PROVE fc' = fc
  BY <1>11 DEF Wait, history
<1>12. ASSUME CleanupClosed \/ UNCHANGED vars PROVE fc' = fc
  BY <1>12 DEF CleanupClosed, vars, managed
<1> QED
  BY <1>2, <1>3, <1>4, <1>5, <1>6, <1>7, <1>8, <1>9, <1>10, <1>11, <1>12
  DEF Next, Named, Create, CreateWithPriority

\* Every window of every stream, its own and the controller's, stays in range,
\* whatever the configured initial size: below the controller's 2^31 - 1, or the
\* initial size if that is larger.  Nothing is filed, queued or in the tree that
\* no caller named.
THEOREM ManagerTyped == Spec => []TypeOK
<1> DEFINE Inv == ManagerInv /\ Typed(fc)
<1>1. Init => Inv
  <2>1. Init => Typed(fc)
    BY TopFits, NewTyped DEF Init, Typed
  <2> QED
    BY <2>1, ManagerStarts
<1>2. Inv /\ [Next]_vars => Inv'
  BY ManagerSteps, ControllerStep DEF OwnStreams
<1>3. Inv => TypeOK
  BY DEF TypeOK, ManagerInv, QueueInv, Entries, TreeInv, Trees, Plain, AdmittedInv,
         StreamsTyped, OwnStreams, Typed, Top
<1> QED
  BY <1>1, <1>2, <1>3, PTL DEF Spec
=============================================================================
