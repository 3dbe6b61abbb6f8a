------------------------------- MODULE AckLink -------------------------------
(***************************************************************************)
(* A sender and a receiver of packets that use AckTracker, LossDetector    *)
(* and RttEstimator of transport/packet.rs over a network that loses,      *)
(* repeats and reorders packets and acknowledgements.                      *)
(*                                                                         *)
(* Nothing in the repository calls these types yet.  The driver is the one *)
(* their interface is made for: the sender tracks each packet once and     *)
(* sends again, under their own numbers, those get_lost_packets returns;   *)
(* the receiver tracks every packet that arrives and sends what            *)
(* generate_ack returns.                                                   *)
(*                                                                         *)
(* The clock is read in two comparisons only.  Packets are sent in the     *)
(* order of their numbers and keep their first timestamp, so those older   *)
(* than the timeout are the ones numbered below a horizon; the receiver    *)
(* either waits for its delay since the last ACK to pass or does not.      *)
(***************************************************************************)
EXTENDS AckTracker, RttEstimator

CONSTANTS MaxPackets,   \* bound on the packets sent
          AckOnly,      \* numbers of the packets sent with ack_eliciting unset
          Samples,      \* the round-trip times that may be measured
          NumberLimit   \* a header carries a number modulo this, 2^32

ASSUME LinkArguments ==
  /\ MaxPackets \in Nat
  /\ AckOnly \subseteq 0 .. MaxPackets - 1
  /\ NumberLimit \in Nat /\ MaxPackets <= NumberLimit
  /\ Samples \subseteq Nat

VARIABLES
  next,       \* the sender's next packet number
  unacked,    \* AckTracker::unacked_packets
  horizon,    \* packets below are older than rto
  handed,     \* how often process_ack has returned each packet
  est,        \* LossDetector::rtt_estimator
  rto,        \* LossDetector::rto
  samples,    \* the measurements so far
  packets,    \* packets in flight
  received,   \* the receiver's AckTracker::received_packets
  waiting,    \* the last ACK was sent less than ack_delay_threshold ago
  ack,        \* the ACK frame in flight
  arrived     \* history: numbers the receiver has tracked

sender   == <<next, unacked, handed>>
clock    == <<horizon, est, rto, samples>>
receiver == <<received, waiting, arrived>>
vars     == <<sender, clock, packets, receiver, ack>>

Sent   == 0 .. next - 1
NoAck  == [largest |-> None, ranges |-> {}]

Init ==
  /\ next = 0 /\ unacked = {}
  /\ handed = [n \in 0 .. MaxPackets - 1 |-> 0]
  /\ horizon = 0 /\ est = NewEstimator /\ rto = InitialRto /\ samples = <<>>
  /\ packets = {} /\ ack = NoAck
  /\ received = NewReceived /\ waiting = FALSE /\ arrived = {}

-----------------------------------------------------------------------------
(* The sender. *)

Send ==
  /\ next < MaxPackets
  /\ next' = next + 1
  /\ unacked' = TrackSent(unacked, next, next \notin AckOnly)
  /\ packets' = packets \cup {next}
  /\ UNCHANGED <<handed, clock, receiver, ack>>

\* Time passes: one more packet is older than the timeout.
Age ==
  /\ horizon < next
  /\ horizon' = horizon + 1
  /\ UNCHANGED <<sender, est, rto, samples, packets, receiver, ack>>

\* get_lost_packets, and detect_loss: they change nothing, so a packet is
\* reported again until it is acknowledged.
Lost == {n \in unacked : n < horizon}

Retransmit(n) ==
  /\ n \in Lost
  /\ packets' = packets \cup {n}
  /\ UNCHANGED <<sender, clock, receiver, ack>>

\* A number is cut to 32 bits on its way.
OnTheWire(n) == n % NumberLimit

\* LossDetector::update_rtt.  With another timeout, more or fewer packets are
\* older than it.
UpdateRtt(sample) ==
  /\ samples' = Append(samples, sample)
  /\ est' = Update(est, sample)
  /\ rto' = Rto(est')
  /\ horizon' \in (CASE rto' > rto -> 0 .. horizon
                     [] rto' = rto -> {horizon}
                     [] OTHER -> horizon .. next)

\* The ACK in flight arrives, for the first time or again.  When it acknowledges
\* something new, the time that took is measured.
AckArrives(again) ==
  /\ ack # NoAck
  /\ unacked' = ProcessAck(unacked, ack)
  /\ handed' = [n \in DOMAIN handed |->
                  IF n \in AckedBy(unacked, ack) THEN handed[n] + 1 ELSE handed[n]]
  /\ IF AckedBy(unacked, ack) = {}
     THEN UNCHANGED clock
     ELSE \E sample \in Samples : UpdateRtt(sample)
  /\ ack' = IF again THEN ack ELSE NoAck
  /\ UNCHANGED <<next, packets, receiver>>

-----------------------------------------------------------------------------
(* The receiver and the network. *)

\* A packet in flight arrives, for the first time or again.
PacketArrives(n, again) ==
  /\ n \in packets
  /\ packets' = IF again THEN packets ELSE packets \ {n}
  /\ received' = TrackReceived(received, OnTheWire(n))
  /\ arrived' = arrived \cup {OnTheWire(n)}
  /\ UNCHANGED <<sender, clock, waiting, ack>>

\* generate_ack returns a frame; the network loses it, or what was in flight.
SendAck ==
  /\ received # <<>> /\ ~waiting
  /\ waiting' = TRUE
  /\ ack' \in {ack, GenerateAck(received)}
  /\ UNCHANGED <<sender, clock, packets, received, arrived>>

\* More than ack_delay_threshold has passed.
DelayPasses ==
  /\ waiting
  /\ waiting' = FALSE
  /\ UNCHANGED <<sender, clock, packets, received, arrived, ack>>

LosePacket(n) ==
  /\ n \in packets
  /\ packets' = packets \ {n}
  /\ UNCHANGED <<sender, clock, receiver, ack>>

Next ==
  \/ Send
  \/ Age
  \/ \E n \in Sent : Retransmit(n) \/ LosePacket(n)
  \/ \E n \in Sent, again \in BOOLEAN : PacketArrives(n, again)
  \/ \E again \in BOOLEAN : AckArrives(again)
  \/ SendAck
  \/ DelayPasses

Spec == Init /\ [][Next]_vars

\* Time passes at both ends, and both drivers keep calling: what is lost is sent
\* again, what is due is acknowledged.  The network is fair to what is sent
\* again and again.
NewAck == SendAck /\ ack' = GenerateAck(received)

Fairness ==
  /\ WF_vars(Age)
  /\ WF_vars(DelayPasses)
  /\ SF_vars(NewAck)
  /\ SF_vars(AckArrives(FALSE))
  /\ \A n \in 0 .. MaxPackets - 1 :
       /\ WF_vars(Retransmit(n))
       /\ SF_vars(PacketArrives(n, FALSE))

FairSpec == Spec /\ Fairness

-----------------------------------------------------------------------------
(* Properties. *)

\* An ACK frame names no number the receiver has not tracked, and no packet is
\* handed out as acknowledged before it arrived, whatever gaps, repetitions and
\* evictions the list went through and however late the frame arrives
\* (generate_ack, process_ack).
AckedHaveArrived ==
  /\ \A n \in 0 .. MaxPackets - 1 : IsAcked(ack, n) => n \in arrived
  /\ \A n \in DOMAIN handed : handed[n] > 0 => n \in arrived

\* Every packet that asks for an acknowledgement is either waiting for one or was
\* handed out as acknowledged once: retransmission, stale and repeated ACK frames
\* neither lose a packet nor hand it out twice.
EachHandedOnce ==
  \A n \in DOMAIN handed :
    handed[n] + (IF n \in unacked THEN 1 ELSE 0) = (IF n \in Sent \ AckOnly THEN 1 ELSE 0)

\* What an ACK frame made now would acknowledge: every number on the list that has
\* a neighbour on it, and the largest.  A number between two gaps is not
\* acknowledged although it arrived.
AcksCoverNeighbours ==
  received # <<>> =>
    LET R == Numbers(received)
        made == GenerateAck(received)
    IN {n \in 0 .. MaxPackets : IsAcked(made, n)}
         = {n \in R : n - 1 \in R \/ n + 1 \in R \/ n = made.largest}

\* The estimate stays between the smallest and the largest measurement, and the
\* timeout never falls below its minimum or below the estimate.
RttBounds ==
  /\ samples # <<>> =>
       /\ \E i \in DOMAIN samples : est.minRtt = samples[i]
       /\ \A i \in DOMAIN samples : est.minRtt <= samples[i]
       /\ est.minRtt <= est.srtt
       /\ \E i \in DOMAIN samples : est.srtt <= samples[i]
  /\ rto >= MinRto /\ rto >= est.srtt

\* Every packet that asks for it is acknowledged in the end: only so many are
\* sent, so a time comes from which on none is waiting.
EventuallyAcked == <>[](unacked = {})
=============================================================================
