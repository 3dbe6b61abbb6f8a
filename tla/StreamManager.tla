---------------------------- MODULE StreamManager ----------------------------
(***************************************************************************)
(* The StreamManager of protocol/stream.rs: the map of streams, the ids it *)
(* hands out and accepts, the priority queue and the dependency tree, and  *)
(* the FlowController it owns.  Its caller is arbitrary: any method, or    *)
(* any method of a stream reached through get_stream, in any order.        *)
(*                                                                         *)
(* Time enters through two facts only: whether cleanup_idle_streams is due *)
(* (30 s since the last one) and whether a stream's last activity is older *)
(* than the idle timeout (its field stale).                                *)
(***************************************************************************)
EXTENDS StreamState, FlowController, Sequences, FiniteSets

Seqs == INSTANCE SequencesExt

CONSTANTS Roles,        \* the endpoints to consider: [isClient, ids], the ids
                        \* that frames and callers name there (a bound)
          Ids,          \* all the stream ids of the instance
          Amounts,      \* byte counts and increments
          Limits,       \* values of max_concurrent_streams
          Schedules,    \* StreamSchedules: [priority, weight, dependsOn]
          MaxTotal      \* bound on the controller's byte counters

NoParent == -1

ASSUME ManagerArguments ==
  /\ Ids \subseteq Nat
  /\ Roles \subseteq [isClient : BOOLEAN, ids : SUBSET Ids]
  /\ Amounts \subseteq Nat
  /\ Limits \subseteq Nat
  /\ MaxTotal \in Nat
  /\ \A sch \in Schedules : /\ sch.priority \in Nat /\ sch.weight \in Nat
                            /\ sch.dependsOn \in Ids \cup {NoParent}

VARIABLES
  role,        \* is_client, and the ids this endpoint meets
  streams,     \* HashMap<u64, StreamState>
  nextId,      \* the counter of our own ids; the peer's counter never moves
  maxRemote,   \* max_remote_stream_id
  limit,       \* max_concurrent_streams
  queue,       \* priority_queue
  tree,        \* dependency_tree: the children of each stream
  fc,          \* flow_controller
  due,         \* 30 s have passed since last_cleanup
  created,     \* history: the ids create_stream returned, in order
  accepted,    \* history: the ids accept_stream took, in order
  admitted,    \* history: the streams filed by create or accept, still filed
  early        \* history: the ids given a parent before they were created

managed == <<streams, nextId, maxRemote, limit, queue, tree, fc, due>>
history == <<created, accepted, admitted, early>>
vars    == <<role, managed, history>>

\* The ids that frames and callers name at this endpoint.
Named == Ids \cap role.ids

Frames == {HeadersFrame(end) : end \in BOOLEAN} \cup {OtherFrame}
            \cup {DataFrame(n, end) : n \in Amounts, end \in BOOLEAN}

Init ==
  /\ role \in Roles
  /\ streams = [s \in {} |-> NewStream]
  /\ nextId = 0 /\ maxRemote = 0
  /\ limit \in Limits
  /\ queue = <<>>
  /\ tree = [s \in Ids |-> <<>>]
  /\ fc = NewController(InitialWindow, InitialWindow)
  /\ due = FALSE
  /\ created = <<>> /\ accepted = <<>> /\ admitted = {} /\ early = {}

-----------------------------------------------------------------------------
(* Stream ids. *)

\* StreamType::from_id: the two low bits; the lowest says who initiated it.
ClientInitiated(s) == s % 4 \in {0, 2}
RemoteInitiated(s) == ClientInitiated(s) # role.isClient

Full == Cardinality(DOMAIN streams) >= limit

\* Faulty: any id not filed at the moment is acceptable.
CanAcceptUnknown(s) == RemoteInitiated(s) /\ s \notin DOMAIN streams /\ s > 0 /\ ~Full

CanAccept(s) == RemoteInitiated(s) /\ s > maxRemote /\ ~Full

FileStream(s, st) == streams' = Insert(streams, s, st)

\* initialize_stream is skipped for stream 0.
InitializeUnlessZero(s) ==
  fc' = IF s = 0 THEN fc ELSE InitializeStream(fc, s).fc

\* create_stream, called with a type of our own role.  Both of a role's types
\* draw from one counter.
CreateStream ==
  /\ ~Full
  /\ nextId \in Named
  /\ nextId' = nextId + 4
  /\ InitializeUnlessZero(nextId)
  /\ FileStream(nextId, OpenStream)
  /\ created' = Append(created, nextId)
  /\ admitted' = admitted \cup {nextId}
  /\ UNCHANGED <<role, maxRemote, limit, due, accepted, early>>

Create == CreateStream /\ UNCHANGED <<queue, tree>>

\* A PriorityEntry, without the parent and the exclusive flag nobody reads there.
Entry(s, sch) == [id |-> s, priority |-> sch.priority, weight |-> sch.weight]

\* Faulty: the lowest id that is not filed is taken again.
CreateLowestFree(sch) ==
  LET free == {x \in Named \ DOMAIN streams : x % 4 = 0}
      id   == CHOOSE x \in free : \A y \in free : x <= y
  IN /\ ~Full
     /\ free # {} /\ Len(created) < 3
     /\ InitializeUnlessZero(id)
     /\ FileStream(id, OpenStream)
     /\ created' = Append(created, id)
     /\ admitted' = admitted \cup {id}
     /\ queue' = Append(queue, Entry(id, sch))
     /\ UNCHANGED <<role, nextId, maxRemote, limit, due, accepted, early, tree>>

AddChild(t, parent, s) ==
  IF parent = NoParent THEN t ELSE [t EXCEPT ![parent] = Append(@, s)]

CreateWithPriority(sch) ==
  /\ CreateStream
  /\ queue' = Append(queue, Entry(nextId, sch))
  /\ tree' = AddChild(tree, sch.dependsOn, nextId)

\* Faulty: files the stream and leaves it without flow-control windows.
AcceptWithoutWindows(s) ==
  /\ CanAccept(s)
  /\ FileStream(s, NewStream)
  /\ maxRemote' = s
  /\ accepted' = Append(accepted, s)
  /\ admitted' = admitted \cup {s}
  /\ UNCHANGED <<role, nextId, limit, queue, tree, fc, due, created, early>>

\* accept_stream leaves the stream Idle.  It replaces a stream a frame has
\* already created under the same id.
Accept(s) ==
  /\ CanAccept(s)
  /\ InitializeUnlessZero(s)
  /\ FileStream(s, NewStream)
  /\ maxRemote' = s
  /\ accepted' = Append(accepted, s)
  /\ admitted' = admitted \cup {s}
  /\ UNCHANGED <<role, nextId, limit, queue, tree, due, created, early>>

\* process_frame files an unknown stream first, in state Open: no limit, no
\* order, no flow-control windows.  It ignores the stream's state.
Receive(s, f) ==
  LET st == IF s \in DOMAIN streams THEN streams[s] ELSE OpenStream
  IN /\ FileStream(s, ProcessFrame(st, f).st)
     /\ UNCHANGED <<role, nextId, maxRemote, limit, queue, tree, fc, due, history>>

-----------------------------------------------------------------------------
(* What the caller does to a stream it holds. *)

Update(s, st) ==
  /\ FileStream(s, st)
  /\ UNCHANGED <<role, nextId, maxRemote, limit, queue, tree, due, history>>

Local(s) ==
  \/ Update(s, OpenLocal(streams[s]).st)
  \/ Update(s, ResetStream(streams[s]))
  \/ \E end \in BOOLEAN :
       \/ Update(s, SendHeaders(streams[s], end).st)
       \/ \E n \in Amounts : Update(s, SendData(streams[s], n, end).st)
  \/ \E n \in Amounts :
       \/ Update(s, GrowSend(streams[s], n).st)
       \/ Update(s, GrowRecv(streams[s], n).st)

OnStream(s) == s \in DOMAIN streams /\ Local(s) /\ UNCHANGED fc

\* close_stream drops the flow-control windows, reset (above) does not.
Close(s) ==
  /\ s \in DOMAIN streams
  /\ Update(s, InState(streams[s], "Closed"))
  /\ fc' = RemoveStream(fc, s)

-----------------------------------------------------------------------------
(* Cleaning up. *)

\* cleanup_closed_streams touches the map alone.
CleanupClosed ==
  LET kept == {s \in DOMAIN streams : ~IsClosed(streams[s])}
  IN /\ streams' = [s \in kept |-> streams[s]]
     /\ admitted' = admitted \cap kept
     /\ UNCHANGED <<role, nextId, maxRemote, limit, queue, tree, fc, due,
                    created, accepted, early>>

Swept == {s \in DOMAIN streams : IsClosed(streams[s]) \/ streams[s].stale}

Forgotten(f, gone) ==
  [f EXCEPT !.send = [s \in DOMAIN f.send \ gone |-> f.send[s]],
            !.recv = [s \in DOMAIN f.recv \ gone |-> f.recv[s]]]

\* Vec::retain: the entries at the kept positions, in their order.
Retain(list, kept) ==
  LET upTo[n \in 0 .. Len(list)] ==
        IF n = 0 THEN <<>>
        ELSE IF n \in kept THEN Append(upTo[n - 1], list[n]) ELSE upTo[n - 1]
  IN upTo[Len(list)]

Without(children, gone) == Retain(children, {i \in DOMAIN children : children[i] \notin gone})

QueueWithout(gone) == Retain(queue, {i \in DOMAIN queue : queue[i].id \notin gone})

\* Faulty: the swept streams stay in the lists of their parents.
SweepLeavesChildren ==
  /\ due
  /\ due' = FALSE
  /\ streams' = [s \in DOMAIN streams \ Swept |-> streams[s]]
  /\ queue' = QueueWithout(Swept)
  /\ tree' = [p \in Ids |-> IF p \in Swept THEN <<>> ELSE tree[p]]
  /\ fc' = Forgotten(fc, Swept)
  /\ admitted' = admitted \ Swept
  /\ early' = early \ Swept
  /\ UNCHANGED <<role, nextId, maxRemote, limit, created, accepted>>

CleanupIdle ==
  /\ due
  /\ due' = FALSE
  /\ streams' = [s \in DOMAIN streams \ Swept |-> streams[s]]
  /\ queue' = QueueWithout(Swept)
  /\ tree' = [p \in Ids |-> IF p \in Swept THEN <<>> ELSE Without(tree[p], Swept)]
  /\ fc' = Forgotten(fc, Swept)
  /\ admitted' = admitted \ Swept
  /\ early' = early \ Swept
  /\ UNCHANGED <<role, nextId, maxRemote, limit, created, accepted>>

\* Time passes: 30 s, or so long that every stream's last activity is stale.
Wait(long) ==
  /\ due' = TRUE
  /\ streams' = IF long THEN [s \in DOMAIN streams |-> [streams[s] EXCEPT !.stale = TRUE]]
                ELSE streams
  /\ UNCHANGED <<role, nextId, maxRemote, limit, queue, tree, fc, history>>

-----------------------------------------------------------------------------
(* Priorities, limits and flow control. *)

\* Any id is taken, filed or not: one that is created later gets its second parent
\* from create_stream_with_priority.
NoteEarly(s, sch) ==
  early' = IF s \in Seqs!Range(created) \/ sch.dependsOn = NoParent
           THEN early \ {s} ELSE early \cup {s}

\* Faulty: the old parents keep the stream.
PriorityAddsParent(s, sch) ==
  /\ queue' = [i \in DOMAIN queue |->
                 IF queue[i].id = s THEN Entry(s, sch) ELSE queue[i]]
  /\ tree' = AddChild(tree, sch.dependsOn, s)
  /\ NoteEarly(s, sch)
  /\ UNCHANGED <<role, streams, nextId, maxRemote, limit, fc, due,
                 created, accepted, admitted>>

UpdatePriority(s, sch) ==
  /\ queue' = [i \in DOMAIN queue |->
                 IF queue[i].id = s /\ \A j \in 1 .. i - 1 : queue[j].id # s
                 THEN Entry(s, sch) ELSE queue[i]]
  /\ tree' = AddChild([p \in Ids |-> Without(tree[p], {s})], sch.dependsOn, s)
  /\ NoteEarly(s, sch)
  /\ UNCHANGED <<role, streams, nextId, maxRemote, limit, fc, due,
                 created, accepted, admitted>>

SetMaxConcurrent(n) ==
  /\ limit' = n
  /\ UNCHANGED <<role, streams, nextId, maxRemote, queue, tree, fc, due, history>>

\* The delegates to the FlowController ask nothing of the stream.
FlowControl(s, n) ==
  /\ \/ /\ fc.totalSent + n <= MaxTotal
        /\ fc' = ReserveSendWindow(fc, s, n).fc
     \/ /\ fc.totalReceived + n <= MaxTotal
        /\ fc' = ProcessReceivedData(fc, s, n).fc
     \/ fc' = UpdateSendWindow(fc, s, n).fc
     \/ fc' = UpdateRecvWindow(fc, s, n).fc
  /\ UNCHANGED <<role, streams, nextId, maxRemote, limit, queue, tree, due, history>>

Next ==
  \/ Create
  \/ \E sch \in Schedules : CreateWithPriority(sch)
  \/ \E s \in Named : Accept(s) \/ OnStream(s) \/ Close(s)
  \/ \E s \in Named, f \in Frames : Receive(s, f)
  \/ \E s \in Named, sch \in Schedules : UpdatePriority(s, sch)
  \/ \E s \in Named, n \in Amounts : FlowControl(s, n)
  \/ \E n \in Limits : SetMaxConcurrent(n)
  \/ \E long \in BOOLEAN : Wait(long)
  \/ CleanupClosed
  \/ CleanupIdle

Spec == Init /\ [][Next]_vars

-----------------------------------------------------------------------------
(* What the rest of the program reads. *)

\* can_send_data: the state of the stream, and the controller's windows.
CanSendData(s, n) ==
  /\ s \in DOMAIN streams
  /\ StreamCanSend(streams[s])
  /\ CanSend(fc, s, n)

\* get_sendable_streams: the queue sorted (stably) by rising priority value and
\* falling weight, without the streams that cannot send or have no window of
\* their own.
Before(i, j) ==
  LET a == queue[i]
      b == queue[j]
  IN \/ a.priority < b.priority
     \/ a.priority = b.priority /\ a.weight > b.weight
     \/ a.priority = b.priority /\ a.weight = b.weight /\ i < j

Sendable ==
  LET ready == {i \in DOMAIN queue :
                  /\ queue[i].id \in DOMAIN streams
                  /\ StreamCanSend(streams[queue[i].id])
                  /\ streams[queue[i].id].send > 0}
      order == Seqs!SetToSortSeq(ready, Before)
  IN [k \in DOMAIN order |-> queue[order[k]].id]

-----------------------------------------------------------------------------
\* Every stream's own windows and the controller's stay in range under any mix of
\* frames, sends and updates, only known ids are queued or in the tree, and what
\* was admitted is filed until a cleanup takes it.
TypeOK ==
  /\ role \in Roles
  /\ DOMAIN streams \subseteq Ids /\ \A s \in DOMAIN streams : streams[s] \in StreamStates
  /\ nextId \in Nat /\ maxRemote \in Nat /\ limit \in Limits
  /\ queue \in Seq([id : Ids, priority : Nat, weight : Nat])
  /\ tree \in [Ids -> Seq(Ids)]
  /\ fc \in Controllers(Ids \ {Connection}, Limit(InitialWindow), Limit(InitialWindow))
  /\ due \in BOOLEAN
  /\ admitted \subseteq DOMAIN streams /\ early \subseteq Ids

\* A stream leaves a state only for one that can_transition_to allows, although
\* no method asks it: a closed stream stays closed, no end closes twice.  The
\* one exception is a stream that is filed anew under its id.
LegalTransitions ==
  [][\A s \in DOMAIN streams :
       s \in DOMAIN streams' =>
         \/ streams'[s] \in {NewStream, OpenStream}
         \/ CanTransition(streams[s].state, streams'[s].state)]_vars

\* Once we have ended a stream nothing more is sent on it, whatever frames,
\* resets and window updates come in between.
NothingSentAfterEnd ==
  [][\A s \in DOMAIN streams :
       streams[s].endSent /\ s \in DOMAIN streams' =>
         \/ streams'[s] \in {NewStream, OpenStream}
         \/ streams'[s].send >= streams[s].send]_vars

\* A half-closed stream got there by the end its name says, and a stream that
\* both ends have finished is not left half-closed waiting for our end.
HalfClosedIsEarned ==
  \A s \in DOMAIN streams :
    LET st == streams[s]
    IN /\ st.state = "HalfClosedRemote" => st.endReceived /\ ~st.endSent
       /\ st.state = "HalfClosedLocal" => st.endSent

\* The ids taken from the peer rise, across closes, sweeps and frames that come
\* before or after: a stream that is gone is never accepted a second time.
AcceptedInOrder ==
  \A i, j \in DOMAIN accepted : i < j => accepted[i] < accepted[j]

\* A stream that was created or accepted and is not closed keeps both of its
\* flow-control windows: it can be blocked, but not left without a window.
AdmittedHaveWindows ==
  \A s \in admitted \ {Connection} :
    ~IsClosed(streams[s]) => s \in DOMAIN fc.send /\ s \in DOMAIN fc.recv

\* A stream is queued at most once, although cleanup_closed_streams leaves the
\* entries of the streams it removes: get_sendable_streams lists none twice.
QueuedOnce ==
  \A i, j \in DOMAIN queue : i # j => queue[i].id # queue[j].id

\* A stream hangs below at most one other stream, and there once, unless it was
\* given a parent before it was created: update_stream_priority takes any id, and
\* create_stream_with_priority does not look for the id's old parent.
AtMostOneParent ==
  \A p, q \in Ids : \A i \in DOMAIN tree[p], j \in DOMAIN tree[q] :
    tree[p][i] = tree[q][j] /\ tree[p][i] \notin early \cap Seqs!Range(created)
      => p = q /\ i = j

\* A sweep removes every trace of the streams it takes: none of them is queued,
\* is anybody's child or parent, or holds a window afterwards.
SweepLeavesNothing ==
  [][due /\ ~due' =>
       \A s \in DOMAIN streams \ DOMAIN streams' :
         /\ \A i \in DOMAIN queue' : queue'[i].id # s
         /\ tree'[s] = <<>>
         /\ \A p \in Ids : \A i \in DOMAIN tree'[p] : tree'[p][i] # s
         /\ s \notin DOMAIN fc'.send \cup DOMAIN fc'.recv]_vars

-----------------------------------------------------------------------------
(* What the documentation says and the code does not do. *)

\* "Get streams ready for sending data (based on priority and flow control)":
\* what is listed can send a byte.
SendableCanSend ==
  \A k \in DOMAIN Sendable : CanSendData(Sendable[k], 1)

\* "Whether end-of-stream has been received": a stream the peer has ended is
\* not one that can receive data (can_receive).
EndReceivedIsFinal ==
  \A s \in DOMAIN streams : streams[s].endReceived => ~StreamCanReceive(streams[s])

\* "Remote can't create streams we should create": no id is ours and the peer's.
OwnIdsAreOurs == Seqs!Range(created) \cap Seqs!Range(accepted) = {}
=============================================================================
