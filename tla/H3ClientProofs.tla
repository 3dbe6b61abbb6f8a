---------------------------- MODULE H3ClientProofs ----------------------------
(***************************************************************************)
(* Proofs about H3Client, for channels of any capacity and any number of   *)
(* requests.                                                               *)
(*                                                                         *)
(* Responses stay in order because everything between the caller and the   *)
(* task is a queue: the ids that wait rise from the responses over the     *)
(* task to the requests, and lie above every response handed out.  A       *)
(* response can be older than its request only by as many ids as were      *)
(* given up, because each id was answered, was given up, or is the running *)
(* call's, and the i-th response handed out was made for the i-th id or a  *)
(* later one.                                                              *)
(***************************************************************************)
EXTENDS H3Client, FiniteSetTheorems, TLAPS

Outcomes == [request : Nat, response : Nat]

TypeOK ==
  /\ active \subseteq 1 .. nextId - 1
  /\ nextId \in Nat \ {0}
  /\ pc \in {"idle", "sending", "waiting"}
  /\ current \in Nat
  /\ requests \in Seq(Nat) /\ responses \in Seq(Nat)
  /\ working \in Nat
  /\ served \in Seq(Outcomes)
  /\ IsFiniteSet(givenUp) /\ givenUp \subseteq 1 .. nextId - 1

\* The running call's id is the last one, and nobody has given it up.
CurrentIsLast ==
  IF pc = "idle" THEN current = None
  ELSE current = nextId - 1 /\ nextId > 1 /\ current \notin givenUp

\* Every id was answered, was given up, or is the running call's.
EachIdEnds ==
  nextId = 1 + Len(served) + Cardinality(givenUp) + (IF pc = "idle" THEN 0 ELSE 1)

\* What waits between the caller and the task is an id above those handed out, and
\* not the one that waits to be queued.
Waits(n) ==
  /\ 0 < n /\ n < nextId
  /\ pc = "sending" => n < current
  /\ \A i \in DOMAIN served : served[i].response < n

AllWait ==
  /\ \A i \in DOMAIN requests : Waits(requests[i])
  /\ working # None => Waits(working)
  /\ \A i \in DOMAIN responses : Waits(responses[i])

Rising(q) == \A i, j \in DOMAIN q : i < j => q[i] < q[j]

\* The ids that wait rise along their way.
WayRises ==
  /\ Rising(requests) /\ Rising(responses)
  /\ \A i \in DOMAIN requests : working < requests[i]
  /\ working # None => \A i \in DOMAIN responses : responses[i] < working
  /\ \A i \in DOMAIN responses : \A j \in DOMAIN requests : responses[i] < requests[j]

\* The i-th response that was handed out is the i-th id's or a later one's.
NoneTooOld == \A i \in DOMAIN served : i <= served[i].response

\* Calls that returned are older than the running one.
ServedBefore ==
  \A i \in DOMAIN served :
    /\ served[i].request < nextId
    /\ pc # "idle" => served[i].request < current

OrderInv == CurrentIsLast /\ EachIdEnds /\ AllWait /\ WayRises /\ NoneTooOld /\ ServedBefore

IInv == TypeOK /\ OrderInv /\ EntriesAccounted /\ ResponsesInOrder

-----------------------------------------------------------------------------
(* Queues. *)

LEMMA TailFacts ==
  ASSUME NEW q \in Seq(Nat), q # <<>>
  PROVE  /\ Head(q) \in Nat /\ 1 \in DOMAIN q /\ Head(q) = q[1]
         /\ Tail(q) \in Seq(Nat)
         /\ \A i \in DOMAIN Tail(q) : i + 1 \in DOMAIN q /\ Tail(q)[i] = q[i + 1]
OBVIOUS

LEMMA AppendFacts ==
  ASSUME NEW S, NEW q \in Seq(S), NEW x \in S
  PROVE  /\ Append(q, x) \in Seq(S)
         /\ Len(Append(q, x)) = Len(q) + 1
         /\ DOMAIN q = 1 .. Len(q)
         /\ DOMAIN Append(q, x) = 1 .. Len(q) + 1
         /\ \A i \in DOMAIN q : Append(q, x)[i] = q[i]
         /\ Append(q, x)[Len(q) + 1] = x
OBVIOUS

LEMMA TailRises ==
  ASSUME NEW q \in Seq(Nat), q # <<>>, Rising(q)
  PROVE  Rising(Tail(q)) /\ \A i \in DOMAIN Tail(q) : Head(q) < Tail(q)[i]
<1>1. \A i \in DOMAIN Tail(q) : i \in Nat /\ i >= 1 /\ i + 1 \in DOMAIN q /\ Tail(q)[i] = q[i + 1]
  OBVIOUS
<1>2. 1 \in DOMAIN q /\ Head(q) = q[1]
  OBVIOUS
<1>3. Rising(Tail(q))
  <2> SUFFICES ASSUME NEW i \in DOMAIN Tail(q), NEW j \in DOMAIN Tail(q), i < j
               PROVE  Tail(q)[i] < Tail(q)[j]
    BY DEF Rising
  <2>1. i + 1 \in DOMAIN q /\ j + 1 \in DOMAIN q /\ i + 1 < j + 1
    BY <1>1
  <2>2. q[i + 1] < q[j + 1]
    BY <2>1, Zenon DEF Rising
  <2> QED
    BY <1>1, <2>2, Zenon
<1>4. ASSUME NEW i \in DOMAIN Tail(q) PROVE Head(q) < Tail(q)[i]
  <2>1. i + 1 \in DOMAIN q /\ 1 < i + 1
    BY <1>1
  <2>2. q[1] < q[i + 1]
    BY <1>2, <2>1, Zenon DEF Rising
  <2> QED
    BY <1>1, <1>2, <2>2, Zenon
<1> QED
  BY <1>3, <1>4

LEMMA AppendRises ==
  ASSUME NEW q \in Seq(Nat), NEW x \in Nat, Rising(q), \A i \in DOMAIN q : q[i] < x
  PROVE  Rising(Append(q, x))
<1>1. \A i \in DOMAIN Append(q, x) : i \in DOMAIN q \/ i = Len(q) + 1
  BY AppendFacts
<1>2. \A i \in DOMAIN q : i \in Nat /\ i <= Len(q)
  OBVIOUS
<1> QED
  BY <1>1, <1>2, AppendFacts DEF Rising

-----------------------------------------------------------------------------
(* The invariant. *)

LEMMA InitInvariant == Init => IInv
<1> SUFFICES ASSUME Init PROVE IInv
  OBVIOUS
<1>1. IsFiniteSet({}) /\ Cardinality({}) = 0
  BY FS_EmptySet
<1>2. TypeOK
  BY <1>1 DEF Init, TypeOK, Outcomes, None
<1>3. OrderInv
  BY <1>1 DEF Init, OrderInv, CurrentIsLast, EachIdEnds, AllWait, WayRises, Rising, NoneTooOld,
         ServedBefore, None
<1>4. EntriesAccounted /\ ResponsesInOrder
  BY DEF Init, EntriesAccounted, ResponsesInOrder
<1> QED
  BY <1>2, <1>3, <1>4 DEF IInv

LEMMA SendRequestStep == IInv /\ SendRequest => IInv'
<1> SUFFICES ASSUME IInv, SendRequest PROVE IInv'
  OBVIOUS
<1> USE DEF IInv, SendRequest, task
<1>1. TypeOK'
  BY DEF TypeOK
<1>2. CurrentIsLast'
  BY DEF CurrentIsLast, TypeOK
<1>3. Cardinality(givenUp) \in Nat /\ Len(served) \in Nat
  BY FS_CardinalityType DEF TypeOK
<1>4. EachIdEnds'
  BY <1>3 DEF EachIdEnds, OrderInv, TypeOK
<1>5. AllWait'
  BY DEF AllWait, Waits, OrderInv, TypeOK
<1>6. WayRises' /\ NoneTooOld'
  BY DEF WayRises, NoneTooOld, OrderInv
<1>9. ServedBefore'
  <2>1. \A i \in DOMAIN served : served[i] \in Outcomes
    BY DEF TypeOK
  <2> QED
    BY <2>1 DEF ServedBefore, OrderInv, TypeOK, Outcomes
<1>7. EntriesAccounted'
  BY DEF EntriesAccounted, OrderInv, CurrentIsLast, TypeOK, None
<1>8. ResponsesInOrder'
  BY DEF ResponsesInOrder
<1> QED
  BY <1>1, <1>2, <1>4, <1>5, <1>6, <1>7, <1>8, <1>9 DEF OrderInv

LEMMA EnqueueStep == IInv /\ Enqueue => IInv'
<1> SUFFICES ASSUME IInv, Enqueue PROVE IInv'
  OBVIOUS
<1> USE DEF IInv, Enqueue
<1>1. /\ requests' = Append(requests, current)
      /\ requests \in Seq(Nat) /\ current \in Nat /\ responses \in Seq(Nat) /\ working \in Nat
  BY DEF TypeOK
<1>2. TypeOK'
  BY DEF TypeOK
<1>3. CurrentIsLast' /\ EachIdEnds'
  BY DEF CurrentIsLast, EachIdEnds, OrderInv
<1>4. \A i \in DOMAIN requests' :
        \/ i \in DOMAIN requests /\ requests'[i] = requests[i]
        \/ requests'[i] = current
  BY <1>1, AppendFacts
<1>5. /\ current = nextId - 1 /\ nextId > 1 /\ nextId \in Nat
      /\ \A i \in DOMAIN requests : requests[i] < current
      /\ working # None => working < current
      /\ \A i \in DOMAIN responses : responses[i] < current
  BY DEF OrderInv, CurrentIsLast, AllWait, Waits, TypeOK
<1>6. ASSUME NEW i \in DOMAIN served PROVE served[i].response < current
  <2>1. served[i] \in Outcomes
    BY <1>6 DEF TypeOK
  <2> QED
    BY <1>6, <2>1, <1>5 DEF ResponsesInOrder, OrderInv, ServedBefore, Outcomes
<1>7. AllWait'
  BY <1>4, <1>5, <1>6 DEF AllWait, Waits, OrderInv, TypeOK
<1>8. WayRises'
  <2>1. Rising(requests') /\ Rising(responses')
    BY <1>1, <1>5, AppendRises DEF OrderInv, WayRises
  <2> QED
    BY <1>1, <1>4, <1>5, <2>1 DEF OrderInv, WayRises, None
<1>9. NoneTooOld' /\ ServedBefore' /\ EntriesAccounted' /\ ResponsesInOrder'
  BY DEF NoneTooOld, ServedBefore, OrderInv, EntriesAccounted, ResponsesInOrder
<1> QED
  BY <1>2, <1>3, <1>7, <1>8, <1>9 DEF OrderInv

LEMMA ReceiveStep == IInv /\ Receive => IInv'
<1> SUFFICES ASSUME IInv, Receive PROVE IInv'
  OBVIOUS
<1> USE DEF IInv, Receive
<1> DEFINE outcome == [request |-> current, response |-> Head(responses)]
<1>1. responses \in Seq(Nat) /\ responses # <<>> /\ current \in Nat
  BY DEF TypeOK
<1>2. /\ Head(responses) \in Nat /\ 1 \in DOMAIN responses /\ Head(responses) = responses[1]
      /\ responses' \in Seq(Nat)
      /\ \A i \in DOMAIN responses' : i + 1 \in DOMAIN responses /\ responses'[i] = responses[i + 1]
  BY <1>1, TailFacts
<1>3. /\ outcome \in Outcomes
      /\ served' = Append(served, outcome)
      /\ served \in Seq(Outcomes)
      /\ outcome.request = current /\ outcome.response = Head(responses)
  BY <1>1, <1>2 DEF Outcomes, TypeOK
<1> HIDE DEF outcome
<1>4. /\ served' \in Seq(Outcomes)
      /\ Len(served') = Len(served) + 1
      /\ Len(served) \in Nat
      /\ DOMAIN served = 1 .. Len(served)
      /\ DOMAIN served' = 1 .. Len(served) + 1
      /\ \A i \in DOMAIN served : served'[i] = served[i]
      /\ served'[Len(served) + 1] = outcome
  BY <1>3, AppendFacts
<1>5. /\ current = nextId - 1 /\ nextId > 1 /\ nextId \in Nat
      /\ Cardinality(givenUp) \in Nat
      /\ nextId = 1 + Len(served) + Cardinality(givenUp) + 1
  BY FS_CardinalityType DEF OrderInv, CurrentIsLast, EachIdEnds, TypeOK
<1>6. /\ 0 < Head(responses) /\ Head(responses) < nextId
      /\ \A i \in DOMAIN served : served[i].response < Head(responses)
  BY <1>2 DEF OrderInv, AllWait, Waits
<1>7. Rising(responses') /\ \A i \in DOMAIN responses' : Head(responses) < responses'[i]
  BY <1>1, TailRises DEF OrderInv, WayRises
<1>8. TypeOK'
  <2>1. current' \in Nat /\ pc' = "idle" /\ active' \subseteq active
    BY DEF None
  <2> QED
    BY <1>2, <1>4, <2>1 DEF TypeOK
<1>9. CurrentIsLast' /\ EachIdEnds'
  BY <1>4, <1>5 DEF CurrentIsLast, EachIdEnds
<1>10. \A i \in DOMAIN served : i \in Nat /\ served[i] \in Outcomes
  BY DEF TypeOK
<1>11. \A i \in DOMAIN served' : i \in DOMAIN served \/ i = Len(served) + 1
  BY <1>4
<1>12. AllWait'
  <2>1. working # None => Head(responses) < working
    BY <1>2 DEF OrderInv, WayRises
  <2>2. \A i \in DOMAIN requests : Head(responses) < requests[i]
    BY <1>2 DEF OrderInv, WayRises
  <2> DEFINE WaitsOn(n) ==
        /\ 0 < n /\ n < nextId'
        /\ \A i \in DOMAIN served' : served'[i].response < n
  <2>3. ASSUME NEW n \in Nat, Waits(n), Head(responses) < n PROVE WaitsOn(n)
    BY <1>3, <1>4, <1>11, <2>3 DEF Waits
  <2> HIDE DEF WaitsOn
  <2>4. \A i \in DOMAIN requests : requests[i] \in Nat /\ Waits(requests[i])
    BY DEF TypeOK, OrderInv, AllWait
  <2>5. working \in Nat /\ (working # None => Waits(working))
    BY DEF TypeOK, OrderInv, AllWait
  <2>6. \A i \in DOMAIN responses' : responses'[i] \in Nat /\ Waits(responses'[i])
    <3> SUFFICES ASSUME NEW i \in DOMAIN responses'
                 PROVE  responses'[i] \in Nat /\ Waits(responses'[i])
      OBVIOUS
    <3>1. i + 1 \in DOMAIN responses /\ responses'[i] = responses[i + 1]
      BY <1>2
    <3>2. \A j \in DOMAIN responses : Waits(responses[j])
      BY DEF OrderInv, AllWait
    <3>3. responses'[i] \in Nat
      BY <1>2
    <3> QED
      BY <3>1, <3>2, <3>3, Zenon
  <2>7. /\ \A i \in DOMAIN requests : WaitsOn(requests[i])
        /\ working # None => WaitsOn(working)
        /\ \A i \in DOMAIN responses' : WaitsOn(responses'[i])
    BY <1>7, <2>1, <2>2, <2>3, <2>4, <2>5, <2>6
  <2> QED
    BY <2>7 DEF AllWait, Waits, WaitsOn
<1>13. WayRises'
  BY <1>2, <1>7 DEF OrderInv, WayRises
<1>14. Len(served) + 1 <= Head(responses)
  <2>1. CASE Len(served) = 0
    BY <1>2, <1>6, <2>1
  <2>2. CASE Len(served) # 0
    <3>1. Len(served) \in DOMAIN served
      BY <1>4, <2>2
    <3>2. /\ Len(served) <= served[Len(served)].response
          /\ served[Len(served)].response < Head(responses)
          /\ served[Len(served)].response \in Nat
      BY <1>6, <1>10, <3>1 DEF OrderInv, NoneTooOld, Outcomes
    <3> QED
      BY <1>2, <1>4, <3>2
  <2> QED
    BY <2>1, <2>2
<1>15. ServedBefore'
  BY <1>3, <1>4, <1>5, <1>11 DEF OrderInv, ServedBefore
<1>16. EntriesAccounted'
  BY <1>5 DEF EntriesAccounted
<1>17. NoneTooOld'
  BY <1>3, <1>4, <1>11, <1>14 DEF OrderInv, NoneTooOld
<1>18. ResponsesInOrder'
  <2>1. Head(responses) <= current /\ current - Head(responses) <= Cardinality(givenUp)
    <3>1. PICK h, l, g : h = Head(responses) /\ l = Len(served) /\ g = Cardinality(givenUp)
      OBVIOUS
    <3>2. /\ h \in Nat /\ l \in Nat /\ g \in Nat /\ nextId \in Nat
          /\ current = nextId - 1 /\ nextId = 1 + l + g + 1 /\ h < nextId /\ l + 1 <= h
      BY <1>2, <1>4, <1>5, <1>6, <1>14, <3>1, Zenon
    <3>3. h <= current /\ current - h <= g
      BY <3>2
    <3> QED
      BY <3>1, <3>3, Zenon
  <2>2. \A i \in DOMAIN served' :
          /\ served'[i].response <= served'[i].request
          /\ served'[i].request - served'[i].response <= Cardinality(givenUp)
    BY <1>3, <1>4, <1>11, <2>1 DEF ResponsesInOrder
  <2>3. \A i, j \in DOMAIN served' : i < j => served'[i].response < served'[j].response
    BY <1>3, <1>4, <1>6, <1>11 DEF ResponsesInOrder
  <2> QED
    BY <2>2, <2>3 DEF ResponsesInOrder
<1> QED
  BY <1>8, <1>9, <1>12, <1>13, <1>15, <1>16, <1>17, <1>18 DEF OrderInv

LEMMA GiveUpStep == IInv /\ GiveUp => IInv'
<1> SUFFICES ASSUME IInv, GiveUp PROVE IInv'
  OBVIOUS
<1> USE DEF IInv, GiveUp, task
<1>1. /\ current = nextId - 1 /\ nextId > 1 /\ nextId \in Nat /\ current \notin givenUp
      /\ IsFiniteSet(givenUp)
  BY DEF OrderInv, CurrentIsLast, TypeOK
<1>2. /\ IsFiniteSet(givenUp')
      /\ Cardinality(givenUp') = Cardinality(givenUp) + 1
      /\ Cardinality(givenUp) \in Nat /\ Len(served) \in Nat
  BY <1>1, FS_AddElement, FS_CardinalityType DEF TypeOK
<1>3. TypeOK'
  BY <1>1, <1>2 DEF TypeOK, None
<1>4. CurrentIsLast' /\ EachIdEnds'
  BY <1>1, <1>2 DEF CurrentIsLast, EachIdEnds, OrderInv
<1>5. AllWait' /\ WayRises' /\ NoneTooOld' /\ ServedBefore'
  BY DEF AllWait, Waits, WayRises, NoneTooOld, ServedBefore, OrderInv
<1>6. EntriesAccounted'
  BY DEF EntriesAccounted
<1>7. ResponsesInOrder'
  <2>1. \A i \in DOMAIN served : served[i] \in Outcomes
    BY DEF TypeOK
  <2> QED
    BY <1>2, <2>1 DEF ResponsesInOrder, Outcomes
<1> QED
  BY <1>3, <1>4, <1>5, <1>6, <1>7 DEF OrderInv

LEMMA TaskTakesStep == IInv /\ TaskTakes => IInv'
<1> SUFFICES ASSUME IInv, TaskTakes PROVE IInv'
  OBVIOUS
<1> USE DEF IInv, TaskTakes, client
<1>1. requests \in Seq(Nat) /\ requests # <<>> /\ responses \in Seq(Nat)
  BY DEF TypeOK
<1>2. /\ working' \in Nat /\ 1 \in DOMAIN requests /\ working' = requests[1]
      /\ requests' \in Seq(Nat)
      /\ \A i \in DOMAIN requests' : i + 1 \in DOMAIN requests /\ requests'[i] = requests[i + 1]
  BY <1>1, TailFacts
<1>3. Rising(requests') /\ \A i \in DOMAIN requests' : working' < requests'[i]
  BY <1>1, TailRises DEF OrderInv, WayRises
<1>4. TypeOK'
  BY <1>2 DEF TypeOK
<1>5. AllWait'
  BY <1>2 DEF OrderInv, AllWait, Waits
<1>6. WayRises'
  BY <1>2, <1>3 DEF OrderInv, WayRises
<1>7. CurrentIsLast' /\ EachIdEnds' /\ NoneTooOld' /\ ServedBefore'
  BY DEF OrderInv, CurrentIsLast, EachIdEnds, NoneTooOld, ServedBefore
<1>8. EntriesAccounted' /\ ResponsesInOrder'
  BY DEF EntriesAccounted, ResponsesInOrder
<1> QED
  BY <1>4, <1>5, <1>6, <1>7, <1>8 DEF OrderInv

LEMMA TaskAnswersStep == IInv /\ TaskAnswers => IInv'
<1> SUFFICES ASSUME IInv, TaskAnswers PROVE IInv'
  OBVIOUS
<1> USE DEF IInv, TaskAnswers, client
<1>1. /\ responses \in Seq(Nat) /\ requests \in Seq(Nat) /\ working \in Nat /\ working # None
      /\ working' = None
      /\ responses' = Append(responses, working) \/ responses' = responses
  BY DEF TypeOK
<1>2. \A i \in DOMAIN responses' :
        \/ i \in DOMAIN responses /\ responses'[i] = responses[i]
        \/ responses'[i] = working
  BY <1>1, AppendFacts
<1>3. TypeOK'
  BY <1>1, AppendFacts DEF TypeOK, None
<1>4. AllWait'
  BY <1>1, <1>2 DEF OrderInv, AllWait, Waits
<1>5. WayRises'
  <2>1. Rising(responses')
    BY <1>1, AppendRises DEF OrderInv, WayRises
  <2>2. \A i \in DOMAIN requests : requests[i] \in Nat /\ requests[i] > 0
    BY <1>1 DEF OrderInv, AllWait, Waits
  <2> QED
    BY <1>1, <1>2, <2>1, <2>2 DEF OrderInv, WayRises, None
<1>6. CurrentIsLast' /\ EachIdEnds' /\ NoneTooOld' /\ ServedBefore'
  BY DEF OrderInv, CurrentIsLast, EachIdEnds, NoneTooOld, ServedBefore
<1>7. EntriesAccounted' /\ ResponsesInOrder'
  BY DEF EntriesAccounted, ResponsesInOrder
<1> QED
  BY <1>3, <1>4, <1>5, <1>6, <1>7 DEF OrderInv

LEMMA CloseStep == IInv /\ (Close \/ CloseFails) => IInv'
<1> SUFFICES ASSUME IInv, Close \/ CloseFails PROVE IInv'
  OBVIOUS
<1>1. /\ UNCHANGED <<nextId, pc, current, requests, working, served, givenUp>>
      /\ \/ UNCHANGED <<active, responses>>
         \/ active' = {} /\ responses' = <<>>
      /\ pc = "idle"
  BY DEF Close, CloseChannels, CloseFails, task
<1>2. TypeOK'
  <2>1. CASE UNCHANGED <<active, responses>>
    BY <1>1, <2>1 DEF IInv, TypeOK
  <2>2. CASE active' = {} /\ responses' = <<>>
    <3>1. active' \subseteq 1 .. nextId' - 1
      BY <2>2
    <3>2. <<>> \in Seq(Nat)
      OBVIOUS
    <3> QED
      BY <1>1, <2>2, <3>1, <3>2 DEF IInv, TypeOK
  <2> QED
    BY <1>1, <2>1, <2>2
<1>3. OrderInv'
  BY <1>1 DEF IInv, OrderInv, CurrentIsLast, EachIdEnds, AllWait, Waits, WayRises, Rising,
              NoneTooOld, ServedBefore
<1>4. EntriesAccounted' /\ ResponsesInOrder'
  BY <1>1 DEF IInv, EntriesAccounted, ResponsesInOrder
<1> QED
  BY <1>2, <1>3, <1>4 DEF IInv

LEMMA InvariantStep == IInv /\ [Next]_vars => IInv'
<1>1. IInv /\ UNCHANGED vars => IInv'
  BY DEF vars, client, task, IInv, TypeOK, OrderInv, CurrentIsLast, EachIdEnds, AllWait, Waits,
         WayRises, Rising, NoneTooOld, ServedBefore, EntriesAccounted, ResponsesInOrder
<1> QED
  BY <1>1, SendRequestStep, EnqueueStep, ReceiveStep, GiveUpStep, TaskTakesStep, TaskAnswersStep,
     CloseStep DEF Next

\* Every reachable state satisfies the invariant.
THEOREM InvariantHolds == Spec => []IInv
BY InitInvariant, InvariantStep, PTL DEF Spec

-----------------------------------------------------------------------------
\* Responses come in the order of the requests they were made for, none twice and
\* none before its request, and none belongs to a request more ids back than there
\* were callers who gave up, for channels of any capacity.
THEOREM ResponsesStayInOrder == Spec => []ResponsesInOrder
<1>1. IInv => ResponsesInOrder
  BY DEF IInv
<1> QED
  BY <1>1, InvariantHolds, PTL

\* active_requests holds the running call's entry and, besides, at most those of
\* callers who gave up, for channels of any capacity.
THEOREM EntriesStayAccounted == Spec => []EntriesAccounted
<1>1. IInv => EntriesAccounted
  BY DEF IInv
<1> QED
  BY <1>1, InvariantHolds, PTL
=============================================================================
