----------------------------- MODULE AckTracker -----------------------------
(***************************************************************************)
(* AckTracker and AckFrame of transport/packet.rs as operators on one      *)
(* side's records.  A packet is its number: its payload is never looked    *)
(* at, and its timestamp only through the question whether it is older     *)
(* than the timeout, which the module that has the clock answers.          *)
(***************************************************************************)
EXTENDS Integers, Sequences, FiniteSets

CONSTANT ReceivedCap   \* received_packets keeps this many numbers, 1000

ASSUME CapArgument == ReceivedCap \in Nat \ {0}

\* received_packets in the order of arrival, a number as often as it arrived.
NewReceived == <<>>

Numbers(received) == {received[i] : i \in DOMAIN received}

\* Faulty: a full list takes no more numbers.
TrackReceivedUntilFull(received, n) ==
  IF Len(received) < ReceivedCap THEN Append(received, n) ELSE received

\* The oldest numbers make room.
TrackReceived(received, n) ==
  LET all == Append(received, n)
  IN IF Len(all) > ReceivedCap THEN Tail(all) ELSE all

TrackSent(unacked, n, eliciting) == IF eliciting THEN unacked \cup {n} ELSE unacked

Times(received, n) == Cardinality({i \in DOMAIN received : received[i] = n})

Largest(S) == CHOOSE n \in S : \A k \in S : k <= n

\* The loop over the sorted numbers: a range grows as long as the next number is
\* one larger, so a number that arrived twice ends a range and begins another.
RangesOf(received) ==
  LET R == Numbers(received)
      Begins(n) == n - 1 \notin R \/ Times(received, n) > 1
      Ends(n)   == n + 1 \notin R \/ Times(received, n) > 1
  IN {r \in [first : R, last : R] :
        /\ r.first < r.last
        /\ \A n \in r.first .. r.last : n \in R
        /\ \A n \in r.first + 1 .. r.last - 1 : Times(received, n) = 1
        /\ Begins(r.first) /\ Ends(r.last)}

\* Faulty: one range from the smallest number to the largest.
GenerateAckBridging(received) ==
  LET R == Numbers(received)
      smallest == CHOOSE n \in R : \A k \in R : n <= k
  IN [largest |-> Largest(R), ranges |-> {[first |-> smallest, last |-> Largest(R)]}]

\* Faulty: forgets the range the loop was in when it ended.
GenerateAckUnfinished(received) ==
  LET largest == Largest(Numbers(received))
  IN [largest |-> largest,
      ranges |-> {r \in RangesOf(received) : r.last # largest}
                   \cup {[first |-> largest, last |-> largest]}]

\* A range of one number is left out, unless it is the largest.
GenerateAck(received) ==
  LET largest == Largest(Numbers(received))
  IN [largest |-> largest, ranges |-> RangesOf(received) \cup {[first |-> largest, last |-> largest]}]

IsAcked(ack, n) == \E r \in ack.ranges : r.first <= n /\ n <= r.last

AckedBy(unacked, ack) == {n \in unacked : IsAcked(ack, n)}

\* Faulty: keeps what it returns.
ProcessAckKeeping(unacked, ack) == unacked

\* process_ack keeps the packets that are not acknowledged and returns the rest.
ProcessAck(unacked, ack) == unacked \ AckedBy(unacked, ack)
=============================================================================
