------------------------------- MODULE H3Client -------------------------------
(***************************************************************************)
(* H3Client of client/mod.rs: send_request and close, the task connect     *)
(* spawns, and the two bounded channels between them.                      *)
(*                                                                         *)
(* Every method takes &mut self, so one call runs at a time; a call that   *)
(* waits can be given up by its caller, who drops the future (a timeout, a *)
(* select), while the task goes on.  A request and its response are its    *)
(* id; neither channel carries the id, so only the histories look at it.   *)
(*                                                                         *)
(* The connection is asked for nothing but close: no request or packet     *)
(* passes through it, and what is kept of it is whether the client has it. *)
(***************************************************************************)
EXTENDS Naturals, Sequences, FiniteSets

CONSTANTS Capacity,      \* of each channel, 100
          MaxRequests    \* bound on the requests sent

ASSUME ClientArguments ==
  /\ Capacity \in Nat \ {0}
  /\ MaxRequests \in Nat

Ids == 1 .. MaxRequests
None == 0

VARIABLES
  connection,  \* H3Client::connection is Some
  channels,    \* request_sender and response_receiver are Some
  active,      \* the keys of active_requests
  nextId,      \* next_request_id
  pc,          \* where the running call is: "idle", "sending", "waiting"
  current,     \* its request_id
  requests,    \* the request channel
  working,     \* the request the task is at
  responses,   \* the response channel
  served,      \* history: [request, response] of each call that returned one
  givenUp      \* history: the requests whose caller gave up

client == <<connection, channels, active, nextId, pc, current>>
task   == <<requests, working, responses>>
vars   == <<client, task, served, givenUp>>

Init ==
  /\ connection = TRUE /\ channels = TRUE
  /\ active = {} /\ nextId = 1
  /\ pc = "idle" /\ current = None
  /\ requests = <<>> /\ working = None /\ responses = <<>>
  /\ served = <<>> /\ givenUp = {}

-----------------------------------------------------------------------------
(* send_request.  Without a connection it returns at once.  It does not ask *)
(* whether the connection is established.                                   *)

SendRequest ==
  /\ pc = "idle" /\ connection
  /\ nextId <= MaxRequests
  /\ nextId' = nextId + 1
  /\ current' = nextId
  /\ active' = active \cup {nextId}
  /\ pc' = "sending"
  /\ UNCHANGED <<connection, channels, task, served, givenUp>>

\* Faulty: the newest request first.
EnqueueFirst ==
  /\ pc = "sending" /\ Len(requests) < Capacity
  /\ requests' = <<current>> \o requests
  /\ pc' = "waiting"
  /\ UNCHANGED <<connection, channels, active, nextId, current, working, responses, served, givenUp>>

\* sender.send(..).await: waits for room in the channel.
Enqueue ==
  /\ pc = "sending" /\ Len(requests) < Capacity
  /\ requests' = Append(requests, current)
  /\ pc' = "waiting"
  /\ UNCHANGED <<connection, channels, active, nextId, current, working, responses, served, givenUp>>

\* Faulty: removes the entry of the request the response was made for.
ReceiveRemovesResponse ==
  /\ pc = "waiting" /\ responses # <<>>
  /\ active' = active \ {Head(responses)}
  /\ responses' = Tail(responses)
  /\ served' = Append(served, [request |-> current, response |-> Head(responses)])
  /\ pc' = "idle" /\ current' = None
  /\ UNCHANGED <<connection, channels, nextId, requests, working, givenUp>>

\* process_response: whatever response is next is taken for this request's.
Receive ==
  /\ pc = "waiting" /\ responses # <<>>
  /\ active' = active \ {current}
  /\ responses' = Tail(responses)
  /\ served' = Append(served, [request |-> current, response |-> Head(responses)])
  /\ pc' = "idle" /\ current' = None
  /\ UNCHANGED <<connection, channels, nextId, requests, working, givenUp>>

\* The caller drops the future.  A request that waits for room is never queued;
\* the entry in active_requests stays in either case.
GiveUp ==
  /\ pc # "idle"
  /\ givenUp' = givenUp \cup {current}
  /\ pc' = "idle" /\ current' = None
  /\ UNCHANGED <<connection, channels, active, nextId, task, served>>

-----------------------------------------------------------------------------
(* The task that connect spawns. *)

TaskTakes ==
  /\ working = None /\ requests # <<>>
  /\ working' = Head(requests)
  /\ requests' = Tail(requests)
  /\ UNCHANGED <<client, responses, served, givenUp>>

\* Faulty: keeps the response until its own caller waits for it.
TaskAnswersCaller ==
  /\ working # None
  /\ channels => Len(responses) < Capacity /\ working = current
  /\ working' = None
  /\ responses' = IF channels THEN Append(responses, working) ELSE responses
  /\ UNCHANGED <<client, requests, served, givenUp>>

\* response_tx.send(..).await waits for room, and fails, which is ignored, when
\* the receiver is gone.
TaskAnswers ==
  /\ working # None
  /\ channels => Len(responses) < Capacity
  /\ working' = None
  /\ responses' = IF channels THEN Append(responses, working) ELSE responses
  /\ UNCHANGED <<client, requests, served, givenUp>>

-----------------------------------------------------------------------------
\* close: without a connection, or when closing it succeeded, the channels are
\* dropped and the entries drained.
CloseChannels ==
  /\ channels' = FALSE
  /\ responses' = <<>>
  /\ active' = {}

Close ==
  /\ pc = "idle"
  /\ CloseChannels
  /\ connection' = FALSE
  /\ UNCHANGED <<nextId, pc, current, requests, working, served, givenUp>>

\* The connection's close fails to send: the connection is gone and the rest is
\* left for another call.
CloseFails ==
  /\ pc = "idle" /\ connection
  /\ connection' = FALSE
  /\ UNCHANGED <<channels, active, nextId, pc, current, task, served, givenUp>>

Next ==
  \/ SendRequest \/ Enqueue \/ Receive \/ GiveUp
  \/ TaskTakes \/ TaskAnswers
  \/ Close \/ CloseFails

Spec == Init /\ [][Next]_vars

\* The runtime polls the task and the future of the running call.
Fairness ==
  /\ WF_vars(Enqueue) /\ WF_vars(Receive)
  /\ WF_vars(TaskTakes) /\ WF_vars(TaskAnswers)

FairSpec == Spec /\ Fairness

-----------------------------------------------------------------------------
(* Properties. *)

\* Responses are handed out in the order of the requests they were made for, none
\* twice, and none before its request; a call gets another request's response only
\* if a caller gave up before, and then one at most as much older as there were
\* such callers (the channels, process_response).
ResponsesInOrder ==
  \A i \in DOMAIN served :
    /\ served[i].response <= served[i].request
    /\ served[i].request - served[i].response <= Cardinality(givenUp)
    /\ \A j \in DOMAIN served : i < j => served[i].response < served[j].response

\* active_requests holds the running call's request and none but those whose
\* callers gave up besides: no call that returned leaves its entry behind, and none
\* loses it while it runs.
EntriesAccounted ==
  /\ active \subseteq givenUp \cup {current}
  /\ pc # "idle" => current \in active

\* A call ends, with a response or because its caller gives up, unless the task and
\* both channels are full of requests that were given up: then nobody reads the
\* responses, and no call gets as far as reading one.
Full ==
  /\ Len(responses) = Capacity /\ working # None /\ Len(requests) = Capacity
  /\ Cardinality(givenUp) >= 2 * Capacity + 1

RequestsFinish == pc # "idle" ~> (pc = "idle" \/ Full)
=============================================================================
