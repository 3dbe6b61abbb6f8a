---------------------------- MODULE AckLinkProofs ----------------------------
(***************************************************************************)
(* Proofs about AckLink, for any number of packets, a list of received     *)
(* numbers of any length, and any round-trip times; and about the wire its *)
(* packets and ACK frames pass (AckWire), for bytes of any number of       *)
(* values, ids of any length a byte can hold, any payload and any delay.   *)
(*                                                                         *)
(* An ACK frame in flight may be old, so what it says is compared with the *)
(* history of arrivals, which only grows: every range it holds lies within *)
(* them, because the list it was made from did.  That the largest number   *)
(* of the list exists is the one fact about numbers that needs the natural *)
(* numbers to be well-founded.                                             *)
(*                                                                         *)
(* The second half follows a header through encode and decode.  That a     *)
(* part is "held" at an offset of the data survives concatenation on both  *)
(* sides, so each read finds what was written; U32Facts is the arithmetic  *)
(* of four digits.  An ACK frame is written as a list, so its ranges have  *)
(* to be finitely many.                                                    *)
(***************************************************************************)
EXTENDS AckWire, SequenceTheorems, FiniteSetTheorems, WellFoundedInduction, TLAPS

Ranges == [first : Nat, last : Nat]

\* The number of a packet that was sent fits a header, so no number changes on the
\* wire.
TypeOK ==
  /\ next \in Nat /\ next <= MaxPackets
  /\ unacked \subseteq Sent
  /\ handed \in [0 .. MaxPackets - 1 -> Nat]
  /\ horizon \in 0 .. next
  /\ est \in Estimators /\ rto \in Nat
  /\ samples \in Seq(Samples)
  /\ packets \subseteq Sent
  /\ received \in Seq(arrived) /\ waiting \in BOOLEAN
  /\ arrived \subseteq Sent
  /\ ack \in [largest : {None} \cup Nat, ranges : SUBSET Ranges]

\* The ranges of the frame in flight lie within what arrived.
RangesHaveArrived == \A n \in Nat : IsAcked(ack, n) => n \in arrived

HandedHaveArrived == \A n \in DOMAIN handed : handed[n] > 0 => n \in arrived

\* There is an estimate as soon as there is a measurement.
EstimateFollows ==
  /\ samples = <<>> <=> est.srtt = None
  /\ samples = <<>> <=> est.minRtt = None

EstimateBounded ==
  samples # <<>> =>
    /\ \E i \in DOMAIN samples : est.minRtt = samples[i]
    /\ \A i \in DOMAIN samples : est.minRtt <= samples[i]
    /\ est.minRtt <= est.srtt
    /\ \E i \in DOMAIN samples : est.srtt <= samples[i]

TimeoutBounded == rto >= MinRto /\ rto >= est.srtt

IInv ==
  /\ TypeOK /\ RangesHaveArrived /\ HandedHaveArrived /\ EachHandedOnce
  /\ EstimateFollows /\ EstimateBounded /\ TimeoutBounded

-----------------------------------------------------------------------------
(* The largest number of the list. *)

LEMMA SmallestExists ==
  ASSUME NEW U \in SUBSET Nat, U # {}
  PROVE  \E u \in U : \A v \in U : u <= v
<1> DEFINE Less == OpToRel(<, Nat)
<1>1. IsWellFoundedOn(Less, Nat)
  BY NatLessThanWellFounded
<1>2. \A a, b \in Nat : a < b => <<a, b>> \in Less
  BY Zenon DEF OpToRel
<1> HIDE DEF Less
<1>3. PICK u \in U : \A v \in U : ~(<<v, u>> \in Less)
  <2>1. U \subseteq Nat
    OBVIOUS
  <2> QED  BY <1>1, <2>1, WFMin, Zenon
<1>4. \A v \in U : ~(v < u)
  BY <1>2, <1>3
<1> QED  BY <1>4

\* A bounded set of naturals has a largest member: its smallest upper bound.
LEMMA LargestIsMember ==
  ASSUME NEW S \in SUBSET Nat, S # {}, NEW bound \in Nat, \A n \in S : n <= bound
  PROVE  Largest(S) \in S /\ \A n \in S : n <= Largest(S)
<1> DEFINE U == {u \in Nat : \A n \in S : n <= u}
<1>1. U \in SUBSET Nat /\ U # {}
  OBVIOUS
<1>2. PICK u \in U : \A v \in U : u <= v
  BY <1>1, SmallestExists
<1>3. u \in S
  <2> SUFFICES ASSUME u \notin S  PROVE FALSE
    OBVIOUS
  <2>1. \A n \in S : n <= u - 1
    OBVIOUS
  <2>2. PICK n \in S : n <= u - 1
    BY <2>1
  <2>3. u - 1 \in Nat
    BY <2>2
  <2>4. u - 1 \in U
    BY <2>1, <2>3
  <2> QED  BY <1>2, <2>4
<1>4. \E n \in S : \A k \in S : k <= n
  BY <1>3
<1> QED  BY <1>4 DEF Largest

LEMMA NumbersInside ==
  ASSUME NEW S, NEW list \in Seq(S)
  PROVE  Numbers(list) \subseteq S /\ (list # <<>> => Numbers(list) # {})
<1>1. \A i \in DOMAIN list : list[i] \in S
  BY ElementOfSeq
<1>2. ASSUME list # <<>>  PROVE 1 \in DOMAIN list
  BY <1>2, EmptySeq, LenProperties
<1> QED  BY <1>1, <1>2 DEF Numbers

\* generate_ack: every number its ranges hold is on the list.
LEMMA AckFromList ==
  ASSUME NEW bound \in Nat, NEW S \in SUBSET (0 .. bound), NEW list \in Seq(S), list # <<>>
  PROVE  /\ GenerateAck(list) \in [largest : {None} \cup Nat, ranges : SUBSET Ranges]
         /\ \A n \in Nat : IsAcked(GenerateAck(list), n) => n \in Numbers(list)
<1> DEFINE R == Numbers(list)
           top == Largest(R)
<1>1. R \subseteq S /\ R # {}
  BY NumbersInside
<1>2. R \in SUBSET Nat /\ \A n \in R : n <= bound
  <2>1. \A n \in S : n \in Nat /\ n <= bound
    OBVIOUS
  <2> HIDE DEF R
  <2> QED  BY <1>1, <2>1
<1>3. top \in R
  BY <1>1, <1>2, LargestIsMember
<1>4. RangesOf(list) \subseteq Ranges
  BY <1>2 DEF RangesOf, Ranges
<1>5. \A r \in RangesOf(list) : \A n \in r.first .. r.last : n \in R
  BY DEF RangesOf
<1> HIDE DEF R, top
<1>6. GenerateAck(list)
        = [largest |-> top, ranges |-> RangesOf(list) \cup {[first |-> top, last |-> top]}]
  BY DEF GenerateAck, R, top
<1>7. [first |-> top, last |-> top] \in Ranges
  BY <1>2, <1>3 DEF Ranges
<1>8. ASSUME NEW n \in Nat, IsAcked(GenerateAck(list), n)
      PROVE  n \in R
  <2>1. PICK r \in RangesOf(list) \cup {[first |-> top, last |-> top]} : r.first <= n /\ n <= r.last
    BY <1>6, <1>8 DEF IsAcked
  <2>2. CASE r \in RangesOf(list)
    <3>1. r.first \in Nat /\ r.last \in Nat
      BY <1>4, <2>2 DEF Ranges
    <3> QED  BY <1>5, <2>1, <2>2, <3>1
  <2>3. CASE r = [first |-> top, last |-> top]
    BY <1>2, <1>3, <2>1, <2>3
  <2> QED  BY <2>1, <2>2, <2>3
<1>9. top \in Nat
  BY <1>2, <1>3
<1>10. RangesOf(list) \cup {[first |-> top, last |-> top]} \in SUBSET Ranges
  BY <1>4, <1>7
<1>11. GenerateAck(list) \in [largest : {None} \cup Nat, ranges : SUBSET Ranges]
  BY <1>6, <1>9, <1>10
<1> QED  BY <1>8, <1>11 DEF R

-----------------------------------------------------------------------------
(* The records. *)

\* TrackReceived adds no number but the one it is given.
LEMMA TrackedInside ==
  ASSUME NEW S, NEW list \in Seq(S), NEW n \in S
  PROVE  TrackReceived(list, n) \in Seq(S)
<1> DEFINE all == Append(list, n)
<1>1. all \in Seq(S) /\ Len(all) = Len(list) + 1
  BY AppendProperties
<1>2. all # <<>>
  BY <1>1, LenProperties, EmptySeq
<1>3. Tail(all) \in Seq(S)
  BY <1>1, <1>2, HeadTailProperties
<1> QED  BY <1>1, <1>3 DEF TrackReceived

\* RttEstimator::update and rto keep their types.
LEMMA EstimateStaysTyped ==
  ASSUME NEW e \in Estimators, NEW sample \in Nat
  PROVE  /\ Update(e, sample) \in Estimators
         /\ Update(e, sample).srtt # None /\ Update(e, sample).minRtt # None
         /\ Rto(Update(e, sample)) \in Nat
         /\ Rto(Update(e, sample)) >= MinRto
         /\ Rto(Update(e, sample)) >= Update(e, sample).srtt
<1>1. /\ e.srtt \in {None} \cup Nat /\ e.rttvar \in Nat /\ e.minRtt \in {None} \cup Nat
      /\ None = -1 /\ MinRto \in Nat
  BY RttArguments DEF Estimators, None
<1> DEFINE u == Update(e, sample)
<1>2. MinRtt(e, sample) \in Nat
  BY <1>1 DEF MinRtt, Smaller
<1>3. u.srtt \in Nat /\ u.rttvar \in Nat /\ u.minRtt = MinRtt(e, sample)
  BY <1>1, <1>2 DEF Update, FirstSample, Distance
<1>4. u = [srtt |-> u.srtt, rttvar |-> u.rttvar, minRtt |-> u.minRtt]
  BY DEF Update, FirstSample
<1> HIDE DEF u
<1>5. u \in Estimators
  BY <1>2, <1>3, <1>4 DEF Estimators
<1>6. Rto(u) \in Nat /\ Rto(u) >= MinRto /\ Rto(u) >= u.srtt
  BY <1>1, <1>3 DEF Rto, Larger
<1> QED  BY <1>1, <1>2, <1>3, <1>5, <1>6 DEF u

\* The weighted mean of two numbers lies between them.
LEMMA MeanBetween ==
  ASSUME NEW old \in Nat, NEW sample \in Nat
  PROVE  LET mean == (7 * old + sample) \div 8
         IN /\ mean \in Nat
            /\ mean <= old \/ mean <= sample
            /\ \A low \in Nat : low <= old /\ low <= sample => low <= mean
OBVIOUS

\* A new measurement leaves the estimate between the measurements.
LEMMA UpdateBounds ==
  ASSUME TypeOK, EstimateFollows, EstimateBounded, NEW sample \in Samples,
         NEW later, later = Append(samples, sample)
  PROVE  /\ \E i \in DOMAIN later : Update(est, sample).minRtt = later[i]
         /\ \A i \in DOMAIN later : Update(est, sample).minRtt <= later[i]
         /\ Update(est, sample).minRtt <= Update(est, sample).srtt
         /\ \E i \in DOMAIN later : Update(est, sample).srtt <= later[i]
<1> DEFINE u == Update(est, sample)
<1>1. /\ sample \in Nat /\ samples \in Seq(Samples) /\ Samples \subseteq Nat
      /\ est.srtt \in {None} \cup Nat /\ est.minRtt \in {None} \cup Nat /\ None = -1
  BY LinkArguments DEF TypeOK, Estimators, None
<1>2. /\ Len(later) = Len(samples) + 1 /\ later \in Seq(Samples) /\ Len(samples) \in Nat
      /\ DOMAIN later = 1 .. Len(later) /\ DOMAIN samples = 1 .. Len(samples)
      /\ \A i \in 1 .. Len(samples) : later[i] = samples[i]
      /\ later[Len(later)] = sample
  BY <1>1, AppendProperties, LenProperties
<1>3. CASE samples = <<>>
  <2>1. u.srtt = sample /\ u.minRtt = sample /\ DOMAIN later = {1} /\ later[1] = sample
    BY <1>1, <1>2, <1>3 DEF EstimateFollows, Update, FirstSample, MinRtt
  <2> QED  BY <1>1, <2>1
<1>4. CASE samples # <<>>
  <2>1. est.srtt \in Nat /\ est.minRtt \in Nat
    BY <1>1, <1>4 DEF EstimateFollows
  <2>2. /\ u.srtt = (7 * est.srtt + sample) \div 8
        /\ u.minRtt = Smaller(est.minRtt, sample)
    BY <1>1, <2>1 DEF Update, MinRtt
  <2> HIDE DEF u
  <2>3. /\ u.srtt \in Nat /\ (u.srtt <= est.srtt \/ u.srtt <= sample)
        /\ \A low \in Nat : low <= est.srtt /\ low <= sample => low <= u.srtt
    BY <1>1, <2>1, <2>2, MeanBetween
  <2>4. /\ u.minRtt \in Nat /\ u.minRtt <= est.minRtt /\ u.minRtt <= sample
        /\ u.minRtt = est.minRtt \/ u.minRtt = sample
    BY <1>1, <2>1, <2>2 DEF Smaller
  <2>5. \A i \in DOMAIN samples : samples[i] \in Nat /\ est.minRtt <= samples[i]
    <3>1. \A i \in DOMAIN samples : samples[i] \in Samples
      BY <1>1, ElementOfSeq
    <3> QED  BY <1>1, <1>4, <3>1 DEF EstimateBounded
  <2>6. PICK i \in DOMAIN samples : est.minRtt = samples[i]
    BY <1>4 DEF EstimateBounded
  <2>7. PICK j \in DOMAIN samples : est.srtt <= samples[j]
    BY <1>4 DEF EstimateBounded
  <2>8. i \in DOMAIN later /\ j \in DOMAIN later /\ Len(later) \in DOMAIN later
    BY <1>2
  <2>9. \E k \in DOMAIN later : u.minRtt = later[k]
    BY <1>2, <2>4, <2>6, <2>8
  <2>10. \A k \in DOMAIN later : u.minRtt <= later[k]
    <3> TAKE k \in DOMAIN later
    <3>1. CASE k = Len(later)
      BY <1>2, <2>4, <3>1
    <3>2. CASE k # Len(later)
      BY <1>2, <2>1, <2>4, <2>5, <3>2
    <3> QED  BY <3>1, <3>2
  <2>11. u.minRtt <= u.srtt
    BY <1>1, <1>4, <2>1, <2>3, <2>4 DEF EstimateBounded
  <2>12. \E k \in DOMAIN later : u.srtt <= later[k]
    <3>1. CASE u.srtt <= est.srtt
      BY <1>2, <2>1, <2>3, <2>5, <2>7, <2>8, <3>1
    <3>2. CASE u.srtt <= sample
      BY <1>2, <2>8, <3>2
    <3> QED  BY <2>3, <3>1, <3>2
  <2> QED  BY <2>9, <2>10, <2>11, <2>12 DEF u
<1> QED  BY <1>3, <1>4

-----------------------------------------------------------------------------
(* Every step preserves the invariant. *)

LEMMA InitEstablishes == Init => IInv
<1> SUFFICES ASSUME Init  PROVE IInv
  OBVIOUS
<1>1. Sent = {}
  BY DEF Init, Sent
<1>2. received \in Seq(arrived) /\ samples \in Seq(Samples)
  BY DEF Init, NewReceived
<1>3. est \in Estimators /\ est.srtt = None /\ est.minRtt = None /\ est.rttvar \in Nat
  BY RttArguments DEF Init, NewEstimator, Estimators
<1>4. rto \in Nat /\ rto >= MinRto /\ TimeoutBounded
  BY RttArguments, <1>3 DEF Init, TimeoutBounded, None
<1>5. TypeOK
  <2>1. next \in Nat /\ next <= MaxPackets /\ horizon \in 0 .. next
    BY LinkArguments DEF Init
  <2>2. handed \in [0 .. MaxPackets - 1 -> Nat]
    BY DEF Init
  <2>3. ack \in [largest : {None} \cup Nat, ranges : SUBSET Ranges]
    BY DEF Init, NoAck
  <2>4. unacked \subseteq Sent /\ packets \subseteq Sent /\ arrived \subseteq Sent /\ waiting \in BOOLEAN
    BY DEF Init
  <2> QED  BY <1>2, <1>3, <1>4, <2>1, <2>2, <2>3, <2>4 DEF TypeOK
<1>6. RangesHaveArrived /\ HandedHaveArrived
  BY DEF Init, RangesHaveArrived, HandedHaveArrived, IsAcked, NoAck
<1>7. EachHandedOnce
  BY <1>1 DEF Init, EachHandedOnce
<1>8. EstimateFollows /\ EstimateBounded
  BY <1>3 DEF Init, EstimateFollows, EstimateBounded
<1> QED  BY <1>4, <1>5, <1>6, <1>7, <1>8 DEF IInv

\* What a step that leaves the ACK frame and the arrivals alone keeps.
LEMMA ArrivalsKept ==
  ASSUME IInv, UNCHANGED <<handed, ack, arrived>>
  PROVE  RangesHaveArrived' /\ HandedHaveArrived'
BY DEF IInv, RangesHaveArrived, HandedHaveArrived, IsAcked

LEMMA EstimatesKept ==
  ASSUME IInv, UNCHANGED <<est, rto, samples>>
  PROVE  EstimateFollows' /\ EstimateBounded' /\ TimeoutBounded'
BY DEF IInv, EstimateFollows, EstimateBounded, TimeoutBounded

LEMMA HandedKept ==
  ASSUME IInv, UNCHANGED sender
  PROVE  EachHandedOnce'
BY DEF IInv, EachHandedOnce, sender, Sent

LEMMA SendStep ==
  ASSUME IInv, Send  PROVE IInv'
<1>1. UNCHANGED <<handed, ack, arrived, est, rto, samples>>
  BY DEF Send, clock, receiver
<1>2. TypeOK'
  BY LinkArguments DEF IInv, TypeOK, Send, Sent, clock, receiver, TrackSent
<1>3. EachHandedOnce'
  <2> SUFFICES ASSUME NEW n \in DOMAIN handed
               PROVE  handed[n] + (IF n \in unacked' THEN 1 ELSE 0)
                        = (IF n \in Sent' \ AckOnly THEN 1 ELSE 0)
    BY <1>1 DEF EachHandedOnce
  <2>1. /\ n \in Nat /\ handed[n] \in Nat /\ next \in Nat /\ unacked \subseteq Sent
        /\ handed[n] + (IF n \in unacked THEN 1 ELSE 0) = (IF n \in Sent \ AckOnly THEN 1 ELSE 0)
    BY LinkArguments DEF IInv, TypeOK, EachHandedOnce
  <2>2. CASE n = next
    BY <2>1, <2>2 DEF Send, Sent, TrackSent
  <2>3. CASE n # next
    BY <2>1, <2>3 DEF Send, Sent, TrackSent
  <2> QED  BY <2>2, <2>3
<1> QED  BY <1>1, <1>2, <1>3, ArrivalsKept, EstimatesKept DEF IInv

LEMMA AgeStep ==
  ASSUME IInv, Age  PROVE IInv'
<1>1. UNCHANGED <<sender, handed, ack, arrived, est, rto, samples>>
  BY DEF Age, sender, receiver
<1>2. TypeOK'
  BY DEF IInv, TypeOK, Age, Sent, sender, receiver
<1> QED  BY <1>1, <1>2, ArrivalsKept, EstimatesKept, HandedKept DEF IInv

LEMMA RetransmitStep ==
  ASSUME IInv, NEW n \in Sent, Retransmit(n)  PROVE IInv'
<1>1. UNCHANGED <<sender, handed, ack, arrived, est, rto, samples>>
  BY DEF Retransmit, sender, clock, receiver
<1>2. TypeOK'
  BY DEF IInv, TypeOK, Retransmit, Sent, sender, clock, receiver
<1> QED  BY <1>1, <1>2, ArrivalsKept, EstimatesKept, HandedKept DEF IInv

LEMMA LosePacketStep ==
  ASSUME IInv, NEW n \in Sent, LosePacket(n)  PROVE IInv'
<1>1. UNCHANGED <<sender, handed, ack, arrived, est, rto, samples>>
  BY DEF LosePacket, sender, clock, receiver
<1>2. TypeOK'
  BY DEF IInv, TypeOK, LosePacket, Sent, sender, clock, receiver
<1> QED  BY <1>1, <1>2, ArrivalsKept, EstimatesKept, HandedKept DEF IInv

LEMMA DelayPassesStep ==
  ASSUME IInv, DelayPasses  PROVE IInv'
<1>1. UNCHANGED <<sender, handed, ack, arrived, est, rto, samples>>
  BY DEF DelayPasses, sender, clock
<1>2. TypeOK'
  BY DEF IInv, TypeOK, DelayPasses, Sent, sender, clock
<1> QED  BY <1>1, <1>2, ArrivalsKept, EstimatesKept, HandedKept DEF IInv

LEMMA SmallStays ==
  ASSUME NEW n \in Nat, NEW limit \in Nat, n < limit
  PROVE  n % limit = n
OBVIOUS

LEMMA PacketArrivesStep ==
  ASSUME IInv, NEW n \in Sent, NEW again \in BOOLEAN, PacketArrives(n, again)
  PROVE  IInv'
<1>1. UNCHANGED <<sender, next, unacked, handed, ack, clock, est, rto, samples, horizon, waiting>>
  BY DEF PacketArrives, sender, clock
<1>2. n \in Nat /\ OnTheWire(n) = n
  <2>1. n \in Nat /\ NumberLimit \in Nat /\ n < NumberLimit
    BY LinkArguments DEF IInv, TypeOK, Sent
  <2> QED  BY <2>1, SmallStays DEF OnTheWire
<1>3. arrived' = arrived \cup {n} /\ received' = TrackReceived(received, n)
  BY <1>2 DEF PacketArrives
<1>4. received' \in Seq(arrived')
  <2>1. received \in Seq(arrived)
    BY DEF IInv, TypeOK
  <2>2. received \in Seq(arrived \cup {n})
    BY <2>1
  <2> QED  BY <1>3, <2>2, TrackedInside
<1>5. packets' \subseteq Sent /\ arrived' \subseteq Sent /\ Sent' = Sent
  BY <1>1, <1>3 DEF IInv, TypeOK, PacketArrives, Sent
<1>6. TypeOK'
  BY <1>1, <1>4, <1>5 DEF IInv, TypeOK
<1>7. RangesHaveArrived' /\ HandedHaveArrived'
  BY <1>1, <1>3 DEF IInv, RangesHaveArrived, HandedHaveArrived, IsAcked
<1> QED  BY <1>1, <1>6, <1>7, EstimatesKept, HandedKept DEF IInv

LEMMA SendAckStep ==
  ASSUME IInv, SendAck  PROVE IInv'
<1>1. UNCHANGED <<sender, next, unacked, handed, est, rto, samples, horizon, packets, received, arrived>>
  BY DEF SendAck, sender, clock
<1>2. /\ GenerateAck(received) \in [largest : {None} \cup Nat, ranges : SUBSET Ranges]
      /\ \A n \in Nat : IsAcked(GenerateAck(received), n) => n \in arrived
  <2>1. received \in Seq(arrived) /\ received # <<>> /\ arrived \subseteq 0 .. next /\ next \in Nat
    BY DEF IInv, TypeOK, SendAck, Sent
  <2>2. Numbers(received) \subseteq arrived
    BY <2>1, NumbersInside
  <2> QED  BY <2>1, <2>2, AckFromList
<1>3. ack' = ack \/ ack' = GenerateAck(received)
  BY DEF SendAck
<1>4. waiting' \in BOOLEAN
  BY DEF SendAck
<1>5. TypeOK'
  BY <1>1, <1>2, <1>3, <1>4 DEF IInv, TypeOK, Sent
<1>6. RangesHaveArrived'
  BY <1>1, <1>2, <1>3 DEF IInv, RangesHaveArrived, IsAcked
<1>7. HandedHaveArrived'
  BY <1>1 DEF IInv, HandedHaveArrived
<1> QED  BY <1>1, <1>5, <1>6, <1>7, EstimatesKept, HandedKept DEF IInv

LEMMA AckArrivesStep ==
  ASSUME IInv, NEW again \in BOOLEAN, AckArrives(again)
  PROVE  IInv'
<1> DEFINE acked == AckedBy(unacked, ack)
<1>1. /\ unacked' = unacked \ acked
      /\ handed' = [n \in DOMAIN handed |-> IF n \in acked THEN handed[n] + 1 ELSE handed[n]]
      /\ acked = {} => UNCHANGED clock
      /\ acked # {} => \E sample \in Samples : UpdateRtt(sample)
      /\ ack' = ack \/ ack' = NoAck
      /\ UNCHANGED <<next, packets, received, waiting, arrived>>
  BY DEF AckArrives, ProcessAck, receiver
<1>2. acked \subseteq unacked /\ \A n \in acked : IsAcked(ack, n)
  BY DEF AckedBy
<1> HIDE DEF acked
<1>3. /\ est' \in Estimators /\ rto' \in Nat /\ samples' \in Seq(Samples) /\ horizon' \in 0 .. next
      /\ EstimateFollows' /\ EstimateBounded' /\ TimeoutBounded'
  <2>1. CASE acked = {}
    <3>1. UNCHANGED <<horizon, est, rto, samples>>
      BY <1>1, <2>1 DEF clock
    <3> QED  BY <3>1, EstimatesKept DEF IInv, TypeOK
  <2>2. CASE acked # {}
    <3>1. PICK sample \in Samples : UpdateRtt(sample)
      BY <1>1, <2>2
    <3>2. /\ samples' = Append(samples, sample) /\ est' = Update(est, sample) /\ rto' = Rto(est')
          /\ sample \in Nat /\ samples \in Seq(Samples) /\ est \in Estimators
      BY <3>1, LinkArguments DEF UpdateRtt, IInv, TypeOK
    <3>3. /\ est' \in Estimators /\ est'.srtt # None /\ est'.minRtt # None
          /\ rto' \in Nat /\ rto' >= MinRto /\ rto' >= est'.srtt
      BY <3>2, EstimateStaysTyped
    <3>4. samples' \in Seq(Samples) /\ samples' # <<>>
      <4>1. samples' \in Seq(Samples) /\ Len(samples') = Len(samples) + 1 /\ Len(samples) \in Nat
        BY <3>2, AppendProperties, LenProperties
      <4> QED  BY <4>1, EmptySeq
    <3>5. horizon' \in 0 .. next
      <4>1. horizon \in 0 .. next /\ next \in Nat /\ rto \in Nat
        BY DEF IInv, TypeOK
      <4>2. horizon' \in 0 .. horizon \/ horizon' = horizon \/ horizon' \in horizon .. next
        BY <3>1, <3>3, <4>1 DEF UpdateRtt
      <4> QED  BY <4>1, <4>2
    <3>6. EstimateFollows'
      BY <3>3, <3>4 DEF EstimateFollows
    <3>7. EstimateBounded'
      BY <3>2, UpdateBounds DEF IInv, EstimateBounded
    <3>8. TimeoutBounded'
      BY <3>3 DEF TimeoutBounded
    <3> QED  BY <3>3, <3>4, <3>5, <3>6, <3>7, <3>8
  <2> QED  BY <2>1, <2>2
<1>4. handed' \in [0 .. MaxPackets - 1 -> Nat]
  BY <1>1 DEF IInv, TypeOK
<1>5. ack' \in [largest : {None} \cup Nat, ranges : SUBSET Ranges]
  BY <1>1 DEF IInv, TypeOK, NoAck
<1>6. TypeOK'
  <2>1. unacked' \subseteq Sent' /\ packets' \subseteq Sent' /\ arrived' \subseteq Sent' /\ next' = next
    BY <1>1 DEF IInv, TypeOK, Sent
  <2> QED  BY <1>1, <1>3, <1>4, <1>5, <2>1 DEF IInv, TypeOK
<1>7. RangesHaveArrived'
  BY <1>1 DEF IInv, RangesHaveArrived, IsAcked, NoAck
<1>8. HandedHaveArrived'
  <2> SUFFICES ASSUME NEW n \in DOMAIN handed, handed'[n] > 0  PROVE n \in arrived
    BY <1>1 DEF HandedHaveArrived
  <2>1. CASE n \in acked
    <3>1. n \in Nat
      BY LinkArguments DEF IInv, TypeOK
    <3> QED  BY <1>2, <2>1, <3>1 DEF IInv, RangesHaveArrived
  <2>2. CASE n \notin acked
    BY <1>1, <2>2 DEF IInv, HandedHaveArrived
  <2> QED  BY <2>1, <2>2
<1>9. EachHandedOnce'
  <2> SUFFICES ASSUME NEW n \in DOMAIN handed
               PROVE  handed'[n] + (IF n \in unacked' THEN 1 ELSE 0)
                        = (IF n \in Sent \ AckOnly THEN 1 ELSE 0)
    BY <1>1 DEF EachHandedOnce, Sent
  <2>1. /\ handed[n] \in Nat
        /\ handed[n] + (IF n \in unacked THEN 1 ELSE 0) = (IF n \in Sent \ AckOnly THEN 1 ELSE 0)
    BY DEF IInv, TypeOK, EachHandedOnce
  <2>2. CASE n \in acked
    BY <1>1, <1>2, <2>1, <2>2
  <2>3. CASE n \notin acked
    BY <1>1, <2>1, <2>3
  <2> QED  BY <2>2, <2>3
<1> QED  BY <1>3, <1>6, <1>7, <1>8, <1>9 DEF IInv

LEMMA StutterStep ==
  ASSUME IInv, UNCHANGED vars  PROVE IInv'
<1>1. UNCHANGED <<next, unacked, handed, horizon, est, rto, samples, packets, received, waiting,
                  arrived, ack, sender>>
  BY DEF vars, sender, clock, receiver
<1>2. TypeOK'
  BY <1>1 DEF IInv, TypeOK, Sent
<1> QED  BY <1>1, <1>2, ArrivalsKept, EstimatesKept, HandedKept DEF IInv

\* Every reachable state satisfies the invariant.
THEOREM InvariantHolds == Spec => []IInv
<1>1. Init => IInv
  BY InitEstablishes
<1>2. IInv /\ [Next]_vars => IInv'
  <2> SUFFICES ASSUME IInv, [Next]_vars  PROVE IInv'
    OBVIOUS
  <2>1. CASE Send
    BY <2>1, SendStep
  <2>2. CASE Age
    BY <2>2, AgeStep
  <2>3. CASE \E n \in Sent : Retransmit(n) \/ LosePacket(n)
    BY <2>3, RetransmitStep, LosePacketStep
  <2>4. CASE \E n \in Sent, again \in BOOLEAN : PacketArrives(n, again)
    BY <2>4, PacketArrivesStep
  <2>5. CASE \E again \in BOOLEAN : AckArrives(again)
    BY <2>5, AckArrivesStep
  <2>6. CASE SendAck
    BY <2>6, SendAckStep
  <2>7. CASE DelayPasses
    BY <2>7, DelayPassesStep
  <2>8. CASE UNCHANGED vars
    BY <2>8, StutterStep
  <2> QED  BY <2>1, <2>2, <2>3, <2>4, <2>5, <2>6, <2>7, <2>8 DEF Next
<1> QED  BY <1>1, <1>2, PTL DEF Spec

-----------------------------------------------------------------------------
(* What the ranges cover. *)

\* A number on the list arrived at least once.
LEMMA ListedArrived ==
  ASSUME NEW S, NEW list \in Seq(S), NEW n \in Numbers(list)
  PROVE  Times(list, n) \in Nat /\ Times(list, n) >= 1
<1> DEFINE T == {i \in DOMAIN list : list[i] = n}
<1>1. IsFiniteSet(DOMAIN list)
  <2>1. Len(list) \in Nat /\ DOMAIN list = 1 .. Len(list)
    BY LenProperties
  <2> QED  BY <2>1, FS_Interval
<1>2. IsFiniteSet(T) /\ T # {}
  <2>1. T \subseteq DOMAIN list /\ T # {}
    BY DEF Numbers
  <2> HIDE DEF T
  <2> QED  BY <1>1, <2>1, FS_Subset
<1> HIDE DEF T
<1>3. Cardinality(T) \in Nat /\ Cardinality(T) # 0
  BY <1>2, FS_CardinalityType, FS_EmptySet
<1>4. Times(list, n) = Cardinality(T)
  BY DEF Times, T
<1> QED  BY <1>3, <1>4

\* Two neighbours on the list lie in a range: it begins at the smallest number
\* from which every number up to them is on the list once, and ends likewise.
LEMMA NeighboursCovered ==
  ASSUME NEW bound \in Nat, NEW S \in SUBSET (0 .. bound), NEW list \in Seq(S),
         NEW m \in Numbers(list), m + 1 \in Numbers(list)
  PROVE  \E r \in RangesOf(list) : r.first <= m /\ m + 1 <= r.last
<1> DEFINE R == Numbers(list)
           Below == {a \in Nat : /\ a <= m
                                 /\ \A k \in a .. m : k \in R
                                 /\ \A k \in a + 1 .. m : Times(list, k) = 1}
           Above == {b \in Nat : /\ m + 1 <= b
                                 /\ \A k \in m + 1 .. b : k \in R
                                 /\ \A k \in m + 1 .. b - 1 : Times(list, k) = 1}
<1>1. /\ \A k \in R : k \in Nat /\ k <= bound
      /\ \A k \in R : Times(list, k) \in Nat /\ Times(list, k) >= 1
      /\ m \in R /\ m + 1 \in R
  <2>1. R \subseteq S
    BY NumbersInside
  <2>2. \A k \in S : k \in Nat /\ k <= bound
    OBVIOUS
  <2>3. \A k \in R : Times(list, k) \in Nat /\ Times(list, k) >= 1
    BY ListedArrived
  <2> HIDE DEF R
  <2>4. \A k \in R : k \in Nat /\ k <= bound
    BY <2>1, <2>2
  <2>5. m \in R /\ m + 1 \in R
    BY DEF R
  <2> QED  BY <2>3, <2>4, <2>5
<1>2. RangesOf(list)
        = {r \in [first : R, last : R] :
             /\ r.first < r.last
             /\ \A k \in r.first .. r.last : k \in R
             /\ \A k \in r.first + 1 .. r.last - 1 : Times(list, k) = 1
             /\ r.first - 1 \notin R \/ Times(list, r.first) > 1
             /\ r.last + 1 \notin R \/ Times(list, r.last) > 1}
  BY DEF RangesOf
<1> HIDE DEF R
<1>3. PICK f \in Below : \A a \in Below : f <= a
  <2>1. m \in Below
    BY <1>1
  <2>2. Below \in SUBSET Nat /\ Below # {}
    BY <2>1
  <2> HIDE DEF Below
  <2> QED  BY <2>2, SmallestExists
<1>4. PICK l \in Above : \A b \in Above : b <= l
  <2>1. m + 1 \in Above
    BY <1>1
  <2>2. \A b \in Above : b <= bound
    <3> SUFFICES ASSUME NEW b \in Above PROVE b <= bound
      OBVIOUS
    <3>1. b \in m + 1 .. b
      BY <1>1
    <3> QED  BY <1>1, <3>1
  <2>3. Above \in SUBSET Nat /\ Above # {}
    BY <2>1
  <2> HIDE DEF Above
  <2>4. Largest(Above) \in Above /\ \A b \in Above : b <= Largest(Above)
    BY <2>2, <2>3, LargestIsMember
  <2> QED  BY <2>4
<1>5. /\ f \in Nat /\ f <= m /\ l \in Nat /\ m + 1 <= l /\ m \in Nat
      /\ \A k \in f .. m : k \in R
      /\ \A k \in f + 1 .. m : Times(list, k) = 1
      /\ \A k \in m + 1 .. l : k \in R
      /\ \A k \in m + 1 .. l - 1 : Times(list, k) = 1
  BY <1>1, <1>3, <1>4
<1>6. f - 1 \notin R \/ Times(list, f) > 1
  <2> SUFFICES ASSUME f - 1 \in R, ~(Times(list, f) > 1) PROVE FALSE
    OBVIOUS
  <2>1. f \in f .. m /\ f - 1 \in Nat
    BY <1>1, <1>5
  <2>2. Times(list, f) = 1
    BY <1>1, <1>5, <2>1
  <2>3. \A k \in f - 1 .. m : k = f - 1 \/ k \in f .. m
    BY <1>5
  <2>4. \A k \in (f - 1) + 1 .. m : k = f \/ k \in f + 1 .. m
    BY <1>5
  <2>5. f - 1 \in Below
    <3>1. \A k \in f - 1 .. m : k \in R
      BY <1>5, <2>3
    <3>2. \A k \in (f - 1) + 1 .. m : Times(list, k) = 1
      BY <1>5, <2>2, <2>4
    <3> QED  BY <1>5, <2>1, <3>1, <3>2
  <2> HIDE DEF Below, Above
  <2>6. f <= f - 1
    BY <1>3, <2>5
  <2> QED  BY <1>5, <2>6
<1>7. l + 1 \notin R \/ Times(list, l) > 1
  <2> SUFFICES ASSUME l + 1 \in R, ~(Times(list, l) > 1) PROVE FALSE
    OBVIOUS
  <2>1. l \in m + 1 .. l /\ l + 1 \in Nat
    BY <1>5
  <2>2. Times(list, l) = 1
    BY <1>1, <1>5, <2>1
  <2>3. \A k \in m + 1 .. l + 1 : k = l + 1 \/ k \in m + 1 .. l
    BY <1>5
  <2>4. \A k \in m + 1 .. (l + 1) - 1 : k = l \/ k \in m + 1 .. l - 1
    BY <1>5
  <2>5. l + 1 \in Above
    <3>1. \A k \in m + 1 .. l + 1 : k \in R
      BY <1>5, <2>3
    <3>2. \A k \in m + 1 .. (l + 1) - 1 : Times(list, k) = 1
      BY <1>5, <2>2, <2>4
    <3> QED  BY <1>5, <2>1, <3>1, <3>2
  <2> HIDE DEF Below, Above
  <2>6. l + 1 <= l
    BY <1>4, <2>5
  <2> QED  BY <1>5, <2>6
<1> HIDE DEF Below, Above
<1> DEFINE r == [first |-> f, last |-> l]
<1>8. f \in R /\ l \in R /\ f < l
  <2>1. f \in f .. m /\ l \in m + 1 .. l
    BY <1>5
  <2> QED  BY <1>5, <2>1
<1>9. \A k \in f .. l : k \in R
  <2>1. \A k \in f .. l : k \in f .. m \/ k \in m + 1 .. l
    BY <1>5
  <2> QED  BY <1>5, <2>1
<1>10. \A k \in f + 1 .. l - 1 : Times(list, k) = 1
  <2>1. \A k \in f + 1 .. l - 1 : k \in f + 1 .. m \/ k \in m + 1 .. l - 1
    BY <1>5
  <2> QED  BY <1>5, <2>1
<1>11. r \in RangesOf(list)
  BY <1>2, <1>6, <1>7, <1>8, <1>9, <1>10
<1> QED  BY <1>5, <1>11

\* generate_ack acknowledges the largest number and those with a neighbour.
LEMMA AckCovers ==
  ASSUME NEW bound \in Nat, NEW S \in SUBSET (0 .. bound), NEW list \in Seq(S), list # <<>>
  PROVE  LET R == Numbers(list)
             made == GenerateAck(list)
         IN \A n \in Nat : IsAcked(made, n) <=>
              n \in R /\ (n - 1 \in R \/ n + 1 \in R \/ n = made.largest)
<1> DEFINE R == Numbers(list)
           made == GenerateAck(list)
           top == Largest(R)
<1>1. \A n \in R : n \in Nat /\ n <= bound
  <2>1. R \subseteq S
    BY NumbersInside
  <2>2. \A n \in S : n \in Nat /\ n <= bound
    OBVIOUS
  <2> HIDE DEF R
  <2> QED  BY <2>1, <2>2
<1>2. /\ made.largest = top
      /\ made.ranges = RangesOf(list) \cup {[first |-> top, last |-> top]}
  BY DEF GenerateAck
<1>3. \A r \in RangesOf(list) :
        /\ r.first \in R /\ r.last \in R /\ r.first < r.last
        /\ \A k \in r.first .. r.last : k \in R
  BY DEF RangesOf
<1>4. \A n \in Nat : IsAcked(made, n) => n \in R
  BY AckFromList
<1>5. \A m \in R : m + 1 \in R => \E r \in RangesOf(list) : r.first <= m /\ m + 1 <= r.last
  BY NeighboursCovered
<1>6. top \in R
  <2>1. R \in SUBSET Nat /\ R # {}
    <3>1. R # {}
      BY NumbersInside
    <3> HIDE DEF R
    <3> QED  BY <1>1, <3>1
  <2> HIDE DEF R
  <2> QED  BY <1>1, <2>1, LargestIsMember
<1> HIDE DEF R, made, top
<1>7. ASSUME NEW n \in Nat, IsAcked(made, n)
      PROVE  n - 1 \in R \/ n + 1 \in R \/ n = top
  <2>1. PICK r \in made.ranges : r.first <= n /\ n <= r.last
    BY <1>7 DEF IsAcked
  <2>2. CASE r \in RangesOf(list)
    <3>1. /\ r.first \in Nat /\ r.last \in Nat /\ r.first < r.last
          /\ \A k \in r.first .. r.last : k \in R
      BY <1>1, <1>3, <2>2
    <3>2. CASE n < r.last
      <4>1. n + 1 \in r.first .. r.last
        BY <2>1, <3>1, <3>2
      <4> QED  BY <3>1, <4>1
    <3>3. CASE n = r.last
      <4>1. n - 1 \in r.first .. r.last
        BY <2>1, <3>1, <3>3
      <4> QED  BY <3>1, <4>1
    <3> QED  BY <2>1, <3>1, <3>2, <3>3
  <2>3. CASE r = [first |-> top, last |-> top]
    <3>1. top \in Nat
      BY <1>1, <1>6
    <3> QED  BY <2>1, <2>3, <3>1
  <2> QED  BY <1>2, <2>1, <2>2, <2>3
<1>8. ASSUME NEW n \in Nat, n \in R, n - 1 \in R \/ n + 1 \in R \/ n = top
      PROVE  IsAcked(made, n)
  <2>1. CASE n + 1 \in R
    <3>1. PICK r \in RangesOf(list) : r.first <= n /\ n + 1 <= r.last
      BY <1>5, <1>8, <2>1
    <3>2. r.last \in Nat /\ n <= r.last
      BY <1>1, <1>3, <3>1
    <3> QED  BY <1>2, <3>1, <3>2 DEF IsAcked
  <2>2. CASE n - 1 \in R
    <3>1. n - 1 \in Nat /\ (n - 1) + 1 = n
      BY <1>1, <2>2
    <3>2. PICK r \in RangesOf(list) : r.first <= n - 1 /\ (n - 1) + 1 <= r.last
      BY <1>5, <1>8, <2>2, <3>1
    <3>3. r.first \in Nat /\ r.last \in Nat
      BY <1>1, <1>3
    <3>4. r.first <= n /\ n <= r.last
      BY <3>2, <3>3
    <3> QED  BY <1>2, <3>4 DEF IsAcked
  <2>3. CASE n = top
    <3> DEFINE r == [first |-> top, last |-> top]
    <3>1. r \in made.ranges /\ r.first <= n /\ n <= r.last
      BY <1>2, <2>3
    <3> QED  BY <3>1 DEF IsAcked
  <2> QED  BY <1>8, <2>1, <2>2, <2>3
<1> QED  BY <1>2, <1>4, <1>7, <1>8 DEF R, made, top

-----------------------------------------------------------------------------
(* What the runs check. *)

\* No ACK frame and no call of process_ack acknowledges a packet that has not
\* arrived, whatever the network and the list of received numbers do to it.
THEOREM AcknowledgedHaveArrived == Spec => []AckedHaveArrived
<1>1. IInv => AckedHaveArrived
  BY LinkArguments DEF IInv, RangesHaveArrived, HandedHaveArrived, AckedHaveArrived
<1> QED  BY <1>1, InvariantHolds, PTL

\* Every packet that asks for an acknowledgement is waiting for one or was handed
\* out by process_ack once.
THEOREM HandedOnce == Spec => []EachHandedOnce
<1>1. IInv => EachHandedOnce
  BY DEF IInv
<1> QED  BY <1>1, InvariantHolds, PTL

\* RttEstimator's estimate lies between the smallest and the largest measurement,
\* and its timeout above the estimate and the minimum, for any measurements.
THEOREM EstimateStaysBounded == Spec => []RttBounds
<1>1. IInv => RttBounds
  BY DEF IInv, RttBounds, EstimateBounded, TimeoutBounded
<1> QED  BY <1>1, InvariantHolds, PTL

\* An ACK frame made at any moment acknowledges, of the numbers on the list, the
\* largest and those with a neighbour on it, and no other.
THEOREM NeighboursAreAcked == Spec => []AcksCoverNeighbours
<1>1. IInv => AcksCoverNeighbours
  <2> SUFFICES ASSUME IInv, received # <<>> PROVE AcksCoverNeighbours
    BY DEF AcksCoverNeighbours
  <2> DEFINE R == Numbers(received)
             made == GenerateAck(received)
  <2>1. received \in Seq(arrived) /\ arrived \in SUBSET (0 .. MaxPackets) /\ MaxPackets \in Nat
    BY LinkArguments DEF IInv, TypeOK, Sent
  <2>2. \A n \in Nat : IsAcked(made, n) <=>
          n \in R /\ (n - 1 \in R \/ n + 1 \in R \/ n = made.largest)
    BY <2>1, AckCovers
  <2>3. \A n \in R : n \in Nat /\ n \in 0 .. MaxPackets
    <3>1. R \subseteq arrived
      BY <2>1, NumbersInside
    <3> HIDE DEF R
    <3> QED  BY <2>1, <3>1
  <2> HIDE DEF R, made
  <2>4. {n \in 0 .. MaxPackets : IsAcked(made, n)}
          = {n \in R : n - 1 \in R \/ n + 1 \in R \/ n = made.largest}
    BY <2>1, <2>2, <2>3
  <2> QED  BY <2>4 DEF AcksCoverNeighbours, R, made
<1> QED  BY <1>1, InvariantHolds, PTL

-----------------------------------------------------------------------------
(* Four bytes. *)

LEMMA Division ==
  ASSUME NEW v \in Nat, NEW m \in Nat \ {0}
  PROVE  /\ v \div m \in Nat
         /\ v % m \in 0 .. m - 1
         /\ v = (v \div m) * m + (v % m)
  OBVIOUS

LEMMA Remainder ==
  ASSUME NEW q \in Nat, NEW m \in Nat \ {0}, NEW r \in 0 .. m - 1
  PROVE  (q * m + r) % m = r
  OBVIOUS

LEMMA Distributes ==
  ASSUME NEW a \in Nat, NEW b \in Nat, NEW c \in Nat
  PROVE  /\ a * b \in Nat /\ (a + b) * c = a * c + b * c
         /\ (a * b) * c = a * (b * c) /\ a * b = b * a
  OBVIOUS

\* A byte in front of what is below m gives what is below Base * m.
LEMMA ByteInFront ==
  ASSUME NEW b \in 0 .. Base - 1, NEW m \in Nat \ {0}, NEW r \in 0 .. m - 1
  PROVE  /\ b * m + r \in 0 .. m * Base - 1
         /\ m * Base \in Nat \ {0}
<1>1. Base \in Nat \ {0, 1} /\ b \in Nat /\ b + 1 <= Base
  BY WireArguments
<1>2. \A x, y, z \in Nat : x <= y => x * z <= y * z
  OBVIOUS
<1>3. (b + 1) * m <= Base * m
  BY <1>1, <1>2
<1>4. (b + 1) * m = b * m + m
  BY <1>1
<1>5. b * m \in Nat /\ m * Base \in Nat /\ m * Base = Base * m
  BY <1>1, Distributes
<1>6. b * m + r \in 0 .. m * Base - 1
  BY <1>3, <1>4, <1>5
<1> QED
  BY <1>5, <1>6

\* The number whose base-Base digits are q, and then b.
Spelled(q, b1, b2, b3, b4) == (((q * Base + b1) * Base + b2) * Base + b3) * Base + b4

\* The low four digits of a number are the remainder by Limit32.
LEMMA LowDigits ==
  ASSUME NEW q \in Nat, NEW b1 \in 0 .. Base - 1, NEW b2 \in 0 .. Base - 1,
         NEW b3 \in 0 .. Base - 1, NEW b4 \in 0 .. Base - 1
  PROVE  Spelled(q, b1, b2, b3, b4) % Limit32 = Spelled(0, b1, b2, b3, b4)
<1>1. PICK B1, B2, B3 : B1 = Base /\ B2 = Base * Base /\ B3 = (Base * Base) * Base
  OBVIOUS
<1>2. B1 \in Nat \ {0} /\ Base \in Nat
  BY <1>1, WireArguments
<1>3. b4 \in 0 .. B1 - 1
  BY <1>1
<1>4. PICK r2 : r2 = b3 * B1 + b4
  OBVIOUS
<1>5. r2 \in 0 .. B2 - 1 /\ B2 \in Nat \ {0}
  BY <1>1, <1>2, <1>3, <1>4, ByteInFront
<1>6. PICK r3 : r3 = b2 * B2 + r2
  OBVIOUS
<1>7. r3 \in 0 .. B3 - 1 /\ B3 \in Nat \ {0}
  BY <1>1, <1>5, <1>6, ByteInFront
<1>8. PICK r4 : r4 = b1 * B3 + r3
  OBVIOUS
<1>9. r4 \in 0 .. Limit32 - 1 /\ Limit32 \in Nat \ {0}
  BY <1>1, <1>7, <1>8, ByteInFront DEF Limit32
<1>10. \A p \in Nat : Spelled(p, b1, b2, b3, b4) = p * Limit32 + r4
  <2> TAKE p \in Nat
  <2>1. \A x \in Nat, b \in 0 .. Base - 1 : x * Base + b \in Nat /\ b \in Nat
    BY <1>2, Distributes
  <2>2. PICK p1, p2 : p1 = p * Base + b1 /\ p2 = p1 * Base + b2
    OBVIOUS
  <2>3. p1 \in Nat /\ p2 \in Nat
    BY <2>1, <2>2
  <2>4. (p2 * Base + b3) * Base + b4 = p2 * B2 + r2
    <3>1. (p2 * Base + b3) * Base = p2 * B2 + b3 * B1
      BY <1>1, <1>2, <2>1, <2>3, Distributes
    <3> QED
      BY <1>2, <1>4, <1>5, <2>1, <2>3, <3>1, Distributes
  <2>5. p2 * B2 + r2 = p1 * B3 + r3
    <3>1. p2 * B2 = p1 * B3 + b2 * B2
      <4>1. p2 * B2 = (p1 * Base) * B2 + b2 * B2
        BY <1>2, <1>5, <2>1, <2>2, <2>3, Distributes
      <4>2. (p1 * Base) * B2 = p1 * B3
        BY <1>1, <1>2, <1>5, <2>3, Distributes
      <4> QED
        BY <4>1, <4>2
    <3>2. p1 * B3 \in Nat /\ b2 * B2 \in Nat
      BY <1>5, <1>7, <2>1, <2>3, Distributes
    <3> QED
      BY <1>5, <1>6, <3>1, <3>2
  <2>6. p1 * B3 + r3 = p * Limit32 + r4
    <3>1. p1 * B3 = p * Limit32 + b1 * B3
      <4>1. p1 * B3 = (p * Base) * B3 + b1 * B3
        BY <1>2, <1>7, <2>1, <2>2, <2>3, Distributes
      <4>2. (p * Base) * B3 = p * Limit32
        BY <1>1, <1>2, <1>7, Distributes DEF Limit32
      <4> QED
        BY <4>1, <4>2
    <3>2. p * Limit32 \in Nat /\ b1 * B3 \in Nat
      BY <1>7, <1>9, <2>1, Distributes
    <3> QED
      BY <1>7, <1>8, <3>1, <3>2
  <2> QED
    BY <2>2, <2>4, <2>5, <2>6 DEF Spelled
<1>11. Spelled(0, b1, b2, b3, b4) = r4
  BY <1>9, <1>10
<1>12. (q * Limit32 + r4) % Limit32 = r4
  BY <1>9, Remainder
<1> QED
  BY <1>10, <1>11, <1>12

\* U32 writes four bytes, and FromU32 reads the number modulo 2^32 from them.
LEMMA U32Facts ==
  ASSUME NEW n \in Nat
  PROVE  /\ U32(n) \in Seq(0 .. Base - 1) /\ Len(U32(n)) = 4
         /\ FromU32(U32(n)) = n % Limit32
<1>1. Base \in Nat \ {0}
  BY WireArguments
<1>2. \A v \in Nat : /\ Shr(v) \in Nat /\ v % Base \in 0 .. Base - 1
                     /\ v = Shr(v) * Base + (v % Base)
  BY <1>1, Division DEF Shr
<1>3. PICK v1, v2, v3, v4 : v1 = Shr(n) /\ v2 = Shr(v1) /\ v3 = Shr(v2) /\ v4 = Shr(v3)
  OBVIOUS
<1>4. PICK b1, b2, b3, b4 : b4 = n % Base /\ b3 = v1 % Base /\ b2 = v2 % Base /\ b1 = v3 % Base
  OBVIOUS
<1>5. /\ v1 \in Nat /\ v2 \in Nat /\ v3 \in Nat /\ v4 \in Nat
      /\ b1 \in 0 .. Base - 1 /\ b2 \in 0 .. Base - 1 /\ b3 \in 0 .. Base - 1 /\ b4 \in 0 .. Base - 1
      /\ n = v1 * Base + b4 /\ v1 = v2 * Base + b3
      /\ v2 = v3 * Base + b2 /\ v3 = v4 * Base + b1
  BY <1>2, <1>3, <1>4
<1>6. n = Spelled(v4, b1, b2, b3, b4)
  BY <1>5, Zenon DEF Spelled
<1>7. U32(n) = <<b1, b2, b3, b4>>
  BY <1>3, <1>4 DEF U32
<1>8. FromU32(U32(n)) = Spelled(0, b1, b2, b3, b4)
  <2>1. FromU32(<<b1, b2, b3, b4>>) = ((b1 * Base + b2) * Base + b3) * Base + b4
    BY DEF FromU32
  <2>2. 0 * Base + b1 = b1
    BY <1>1, <1>5
  <2> QED
    BY <1>7, <2>1, <2>2, Zenon DEF Spelled
<1>9. <<b1, b2, b3, b4>> \in Seq(0 .. Base - 1) /\ Len(<<b1, b2, b3, b4>>) = 4
  BY <1>5
<1>10. Spelled(v4, b1, b2, b3, b4) % Limit32 = Spelled(0, b1, b2, b3, b4)
  BY <1>5, LowDigits
<1> QED
  BY <1>6, <1>7, <1>8, <1>9, <1>10, Zenon

-----------------------------------------------------------------------------
(* Where the parts of a header are. *)

\* The bytes of part follow the first i of data.
Holds(data, i, part) ==
  /\ data \in Seq(Nat) /\ part \in Seq(Nat) /\ i \in Nat
  /\ i + Len(part) <= Len(data)
  /\ \A j \in 1 .. Len(part) : data[i + j] = part[j]

\* A sequence holds itself at offset 0.
LEMMA HoldsItself ==
  ASSUME NEW part \in Seq(Nat)
  PROVE  Holds(part, 0, part)
  BY DEF Holds

LEMMA ConcatLength ==
  ASSUME NEW a \in Seq(Nat), NEW b \in Seq(Nat)
  PROVE  a \o b \in Seq(Nat) /\ Len(a \o b) = Len(a) + Len(b)
  OBVIOUS

LEMMA Joined ==
  ASSUME NEW a \in Seq(Nat), NEW b \in Seq(Nat), NEW d, d = a \o b
  PROVE  /\ d \in Seq(Nat) /\ Len(d) = Len(a) + Len(b)
         /\ \A k \in 1 .. Len(a) + Len(b) : d[k] = IF k <= Len(a) THEN a[k] ELSE b[k - Len(a)]
  BY ConcatProperties, Zenon

\* SubSeq with the bounds of Part.
LEMMA CutOut ==
  ASSUME NEW data \in Seq(Nat), NEW i \in Nat, NEW n \in Nat, i + n <= Len(data)
  PROVE  /\ Part(data, i, n) \in Seq(Nat) /\ Len(Part(data, i, n)) = n
         /\ \A j \in 1 .. n : Part(data, i, n)[j] = data[i + j]
<1>1. PICK lo, hi, cut : lo = i + 1 /\ hi = i + n /\ cut = Part(data, i, n)
  OBVIOUS
<1>2. lo \in Int /\ hi \in Int /\ \A k \in lo .. hi : data[k] \in Nat
  BY <1>1
<1>3. /\ SubSeq(data, lo, hi) \in Seq(Nat)
      /\ Len(SubSeq(data, lo, hi)) = IF lo <= hi THEN hi - lo + 1 ELSE 0
      /\ \A j \in 1 .. hi - lo + 1 : SubSeq(data, lo, hi)[j] = data[lo + j - 1]
  BY <1>2, SubSeqProperties
<1>4. cut = SubSeq(data, lo, hi)
  BY <1>1 DEF Part
<1>5. hi - lo + 1 = n /\ (~(lo <= hi) => n = 0)
  BY <1>1
<1>6. cut \in Seq(Nat) /\ Len(cut) = n
  BY <1>3, <1>4, <1>5
<1>7. ASSUME NEW j \in 1 .. n PROVE cut[j] = data[i + j]
  <2>1. cut[j] = data[lo + j - 1]
    BY <1>3, <1>4, <1>5
  <2>2. lo + j - 1 = i + j
    BY <1>1
  <2> QED
    BY <2>1, <2>2
<1> QED
  BY <1>1, <1>6, <1>7

\* What a sequence holds, it holds whatever is appended to it,
LEMMA HoldsBefore ==
  ASSUME NEW a, NEW b \in Seq(Nat), NEW i, NEW part, Holds(a, i, part)
  PROVE  Holds(a \o b, i, part)
<1>1. a \in Seq(Nat) /\ part \in Seq(Nat) /\ i \in Nat /\ i + Len(part) <= Len(a)
      /\ \A j \in 1 .. Len(part) : a[i + j] = part[j]
  BY DEF Holds
<1>2. PICK d : d = a \o b
  OBVIOUS
<1>3. /\ d \in Seq(Nat) /\ Len(d) = Len(a) + Len(b)
      /\ \A k \in 1 .. Len(a) + Len(b) : d[k] = IF k <= Len(a) THEN a[k] ELSE b[k - Len(a)]
  BY <1>1, <1>2, Joined
<1>4. ASSUME NEW j \in 1 .. Len(part) PROVE d[i + j] = part[j]
  <2>1. i + j \in 1 .. Len(a) + Len(b) /\ i + j <= Len(a)
    BY <1>1
  <2> QED
    BY <1>1, <1>3, <2>1
<1>5. i + Len(part) <= Len(d)
  BY <1>1, <1>3
<1> QED
  BY <1>1, <1>2, <1>3, <1>4, <1>5 DEF Holds

\* and, shifted, whatever is put in front of it.
LEMMA HoldsAfter ==
  ASSUME NEW a \in Seq(Nat), NEW b, NEW i, NEW part, Holds(b, i, part)
  PROVE  Holds(a \o b, Len(a) + i, part)
<1>1. b \in Seq(Nat) /\ part \in Seq(Nat) /\ i \in Nat /\ i + Len(part) <= Len(b)
      /\ \A j \in 1 .. Len(part) : b[i + j] = part[j]
  BY DEF Holds
<1>2. PICK d : d = a \o b
  OBVIOUS
<1>3. /\ d \in Seq(Nat) /\ Len(d) = Len(a) + Len(b)
      /\ \A k \in 1 .. Len(a) + Len(b) : d[k] = IF k <= Len(a) THEN a[k] ELSE b[k - Len(a)]
  BY <1>1, <1>2, Joined
<1>4. ASSUME NEW j \in 1 .. Len(part) PROVE d[(Len(a) + i) + j] = part[j]
  <2>0. Len(a) \in Nat /\ Len(b) \in Nat /\ Len(part) \in Nat
    BY <1>1
  <2>2. PICK k : k = (Len(a) + i) + j
    OBVIOUS
  <2>3. k \in 1 .. Len(a) + Len(b) /\ ~(k <= Len(a)) /\ k - Len(a) = i + j
    BY <1>1, <2>0, <2>2
  <2>4. d[k] = b[k - Len(a)]
    BY <1>3, <2>3
  <2> QED
    BY <1>1, <2>2, <2>3, <2>4
<1>5. (Len(a) + i) + Len(part) <= Len(d) /\ Len(a) + i \in Nat
  BY <1>1, <1>3
<1> QED
  BY <1>1, <1>2, <1>3, <1>4, <1>5 DEF Holds

\* What is held is what is read.
LEMMA HeldIsRead ==
  ASSUME NEW data, NEW i, NEW part, Holds(data, i, part)
  PROVE  Has(data, i, Len(part)) /\ Part(data, i, Len(part)) = part
<1>1. data \in Seq(Nat) /\ part \in Seq(Nat) /\ i \in Nat /\ i + Len(part) <= Len(data)
      /\ \A j \in 1 .. Len(part) : data[i + j] = part[j]
  BY DEF Holds
<1>2. PICK cut : cut = Part(data, i, Len(part))
  OBVIOUS
<1>3. Len(part) \in Nat
  BY <1>1
<1>4. /\ cut \in Seq(Nat) /\ Len(cut) = Len(part)
      /\ \A j \in 1 .. Len(part) : cut[j] = data[i + j]
  BY <1>1, <1>2, <1>3, CutOut, Zenon
<1>5. cut = part
  BY <1>1, <1>4, SeqEqual
<1> QED
  BY <1>1, <1>2, <1>5 DEF Has

\* One byte that is held is read.
LEMMA HeldByte ==
  ASSUME NEW data, NEW i, NEW x, Holds(data, i, <<x>>)
  PROVE  i \in Nat /\ Has(data, i, 1) /\ data[i + 1] = x
  BY DEF Holds, Has

-----------------------------------------------------------------------------
(* No header is longer than the bytes it is read from. *)

\* An id is read from bytes that are there, a cut one included.
LEMMA ReadIdWithin ==
  ASSUME NEW data \in Seq(Nat), NEW i \in Nat, NEW missing, ReadId(data, i, missing).ok
  PROVE  ReadId(data, i, missing).at \in Nat /\ ReadId(data, i, missing).at <= Len(data)
<1>1. Has(data, i, 1)
  BY DEF ReadId, Refused
<1>2. PICK n : n = data[i + 1]
  OBVIOUS
<1>3. Len(data) \in Nat /\ i + 1 <= Len(data) /\ n \in Nat
  BY <1>1, <1>2 DEF Has
<1>4. CASE n = 0
  <2>1. ReadId(data, i, missing) = [ok |-> TRUE, id |-> missing, at |-> i + 1]
    BY <1>1, <1>2, <1>4 DEF ReadId
  <2> QED
    BY <1>3, <2>1
<1>5. CASE n > 0 /\ ~Has(data, i + 1, n)
  <2>1. n # 0
    BY <1>3, <1>5
  <2>2. ReadId(data, i, missing) = Refused
    BY <1>1, <1>2, <1>5, <2>1, Zenon DEF ReadId
  <2> QED
    BY <2>2 DEF Refused
<1>6. CASE n > 0 /\ Has(data, i + 1, n) /\ n > IdLen
  <2>1. n # 0
    BY <1>3, <1>6
  <2>2. ReadId(data, i, missing) = [ok |-> TRUE, id |-> missing, at |-> i + 1]
    BY <1>1, <1>2, <1>6, <2>1, Zenon DEF ReadId
  <2> QED
    BY <1>3, <2>2
<1>7. CASE n > 0 /\ Has(data, i + 1, n) /\ ~(n > IdLen)
  <2>1. n # 0
    BY <1>3, <1>7
  <2>2. ReadId(data, i, missing) = [ok |-> TRUE, id |-> IdFrom(Part(data, i + 1, n)), at |-> i + 1 + n]
    BY <1>1, <1>2, <1>7, <2>1, Zenon DEF ReadId
  <2> QED
    BY <1>3, <1>7, <2>2 DEF Has
<1> QED
  BY <1>3, <1>4, <1>5, <1>6, <1>7

\* So is the number.
LEMMA NumberedWithin ==
  ASSUME NEW data \in Seq(Nat), NEW i \in Nat, i <= Len(data),
         NEW type, NEW version, NEW id, NEW source
  PROVE  Numbered(data, i, type, version, id, source).used <= Len(data)
<1>1. Numbered(data, i, type, version, id, source).used = IF Has(data, i, 4) THEN i + 4 ELSE i
  BY DEF Numbered
<1> QED
  BY <1>1 DEF Has

\* No header is read as longer than the bytes it is read from.
LEMMA NeverBeyond ==
  ASSUME NEW data \in Seq(Nat), data # <<>>, DecodeHeader(data).ok
  PROVE  DecodeHeader(data).used <= Len(data)
<1>1. PICK type : type = FromByte(data[1])
  OBVIOUS
<1>2. type # "none"
  BY <1>1 DEF DecodeHeader, Refused
<1>3. CASE type \in LongTypes
  <2>1. DecodeHeader(data) = DecodeLong(data, type)
    BY <1>1, <1>2, <1>3 DEF DecodeHeader, LongTypes
  <2>2. PICK id, source : id = ReadId(data, 5, ZeroId) /\ source = ReadId(data, id.at, NoId)
    OBVIOUS
  <2>3. Has(data, 1, 4) /\ id.ok /\ source.ok
    BY <2>1, <2>2 DEF DecodeLong, Refused
  <2>4. id.at \in Nat
    BY <2>2, <2>3, ReadIdWithin
  <2>5. source.at \in Nat /\ source.at <= Len(data)
    BY <2>2, <2>3, <2>4, ReadIdWithin
  <2>6. DecodeHeader(data) = Numbered(data, source.at, type, FromU32(Part(data, 1, 4)), id.id, source.id)
    BY <2>1, <2>2, <2>3, Zenon DEF DecodeLong
  <2> QED
    BY <2>5, <2>6, NumberedWithin
<1>4. CASE type = "OneRTT"
  <2>1. DecodeHeader(data) = DecodeShort(data, type)
    BY <1>1, <1>2, <1>4 DEF DecodeHeader, LongTypes
  <2>2. Has(data, 1, IdLen)
    BY <2>1 DEF DecodeShort, Refused
  <2>3. DecodeHeader(data) = Numbered(data, 1 + IdLen, type, -1, Part(data, 1, IdLen), NoId)
    BY <2>1, <2>2, Zenon DEF DecodeShort
  <2>4. 1 + IdLen \in Nat /\ 1 + IdLen <= Len(data)
    BY <2>2, WireArguments DEF Has
  <2> QED
    BY <2>3, <2>4, NumberedWithin
<1>5. CASE type = "VersionNegotiation"
  <2>1. DecodeHeader(data) = DecodeNegotiation(data, type)
    BY <1>1, <1>2, <1>5 DEF DecodeHeader, LongTypes
  <2>2. Has(data, 1, 5)
    <3> SUFFICES ASSUME ~Has(data, 1, 5) PROVE FALSE
      OBVIOUS
    <3>1. DecodeHeader(data) = Refused
      BY <2>1, Zenon DEF DecodeNegotiation
    <3> QED
      BY <3>1 DEF Refused
  <2>3. PICK id : id = ReadId(data, 5, ZeroId)
    OBVIOUS
  <2>4. CASE ~id.ok
    <3>1. DecodeHeader(data) = Numbered(data, 6, type, FromU32(Part(data, 1, 4)), ZeroId, NoId)
      BY <2>1, <2>2, <2>3, <2>4, Zenon DEF DecodeNegotiation
    <3>2. 6 \in Nat /\ 6 <= Len(data)
      BY <2>2 DEF Has
    <3> QED
      BY <3>1, <3>2, NumberedWithin
  <2>5. CASE id.ok
    <3>1. DecodeHeader(data) = Numbered(data, id.at, type, FromU32(Part(data, 1, 4)), id.id, NoId)
      BY <2>1, <2>2, <2>3, <2>5, Zenon DEF DecodeNegotiation
    <3>2. id.at \in Nat /\ id.at <= Len(data)
      BY <2>3, <2>5, ReadIdWithin
    <3> QED
      BY <3>1, <3>2, NumberedWithin
  <2> QED
    BY <2>4, <2>5
<1>6. type \in LongTypes \cup {"OneRTT", "VersionNegotiation", "none"}
  BY <1>1 DEF FromByte, LongTypes
<1> QED
  BY <1>2, <1>3, <1>4, <1>5, <1>6

-----------------------------------------------------------------------------
(* Headers are read back. *)

LEMMA BytesAreNumbers ==
  ASSUME NEW s \in Seq(0 .. Base - 1)
  PROVE  s \in Seq(Nat)
<1>1. Len(s) \in Nat /\ s \in [1 .. Len(s) -> 0 .. Base - 1]
  BY LenProperties
<1>2. s \in [1 .. Len(s) -> Nat]
  BY <1>1
<1> QED
  BY <1>1, <1>2

\* A whole id is read without padding.
LEMMA IdFacts ==
  ASSUME NEW id \in ConnectionIds
  PROVE  /\ id \in Seq(Nat) /\ Len(id) = IdLen /\ IdFrom(id) = id
         /\ IdLen \in Nat \ {0} /\ id # NoId
<1>1. IdLen \in Nat \ {0} /\ 0 .. Base - 1 \subseteq Nat
  BY WireArguments
<1>2. id \in [1 .. IdLen -> Nat]
  BY <1>1 DEF ConnectionIds
<1>3. id \in Seq(Nat) /\ Len(id) = IdLen
  BY <1>1, <1>2
<1>4. IdFrom(id) = [i \in 1 .. IdLen |-> id[i]]
  BY <1>1, <1>3 DEF IdFrom
<1>5. IdFrom(id) = id
  BY <1>2, <1>4
<1> QED
  BY <1>1, <1>3, <1>5 DEF NoId

\* An id that was written with its length is read back.
LEMMA ReadsId ==
  ASSUME NEW data, NEW i, NEW id \in ConnectionIds, NEW missing,
         Holds(data, i, <<IdLen>>), Holds(data, i + 1, id)
  PROVE  ReadId(data, i, missing) = [ok |-> TRUE, id |-> id, at |-> i + 1 + IdLen]
<1>1. i \in Nat /\ Has(data, i, 1) /\ data[i + 1] = IdLen
  BY HeldByte
<1>2. Len(id) = IdLen /\ IdLen \in Nat \ {0} /\ IdFrom(id) = id
  BY IdFacts
<1>3. Has(data, i + 1, IdLen) /\ Part(data, i + 1, IdLen) = id
  BY <1>2, HeldIsRead
<1>4. IdLen # 0 /\ IdLen > 0 /\ ~(IdLen > IdLen)
  BY <1>2
<1>5. ReadId(data, i, missing)
        = [ok |-> TRUE, id |-> IdFrom(Part(data, i + 1, IdLen)), at |-> i + 1 + IdLen]
  BY <1>1, <1>3, <1>4, Zenon DEF ReadId
<1> QED
  BY <1>2, <1>3, <1>5

\* An empty one is read as the missing id.
LEMMA ReadsNoId ==
  ASSUME NEW data, NEW i, NEW missing, Holds(data, i, << 0 >>)
  PROVE  ReadId(data, i, missing) = [ok |-> TRUE, id |-> missing, at |-> i + 1]
<1>1. i \in Nat /\ Has(data, i, 1) /\ data[i + 1] = 0
  BY HeldByte
<1>2. ~(0 > 0)
  OBVIOUS
<1> QED
  BY <1>1, <1>2, Zenon DEF ReadId

\* The result of a decoder that ended at the given byte with this header.
Yields(r, at, type, version, id, source, number) ==
  r = [ok |-> TRUE, used |-> at,
       header |-> [type |-> type, version |-> version, id |-> id, source |-> source,
                   number |-> number]]

\* A header that ends in its number yields what was read before it.
LEMMA ReadsNumber ==
  ASSUME NEW data, NEW i, NEW n \in Nat, Holds(data, i, U32(n)),
         NEW type, NEW version, NEW id, NEW source
  PROVE  Yields(Numbered(data, i, type, version, id, source),
                i + 4, type, version, id, source, n % Limit32)
<1>1. Len(U32(n)) = 4 /\ FromU32(U32(n)) = n % Limit32
  BY U32Facts
<1>2. Has(data, i, 4) /\ Part(data, i, 4) = U32(n)
  BY <1>1, HeldIsRead
<1> QED
  BY <1>1, <1>2, Zenon DEF Numbered, Yields

\* A packet: the byte of its type, what the type calls for, a number, a payload.
Packet(t, mid, n, payload) == ((<<t>> \o mid) \o U32(n)) \o payload

\* What is left after the first bytes.
Rest(data, at) == Part(data, at, Len(data) - at)

\* Where the parts of a packet are held, and what the rest of it is.
LEMMA PacketParts ==
  ASSUME NEW t \in Nat, NEW mid \in Seq(Nat), NEW n \in Nat, NEW payload \in Seq(Nat),
         NEW data, data = Packet(t, mid, n, payload), NEW at, at = 1 + Len(mid) + 4
  PROVE  /\ data \in Seq(Nat) /\ data # <<>> /\ data[1] = t
         /\ \A i, part : Holds(mid, i, part) => Holds(data, 1 + i, part)
         /\ Holds(data, 1 + Len(mid), U32(n))
         /\ Rest(data, at) = payload
<1>1. PICK u : u = U32(n)
  OBVIOUS
<1>2. u \in Seq(Nat) /\ Len(u) = 4
  BY <1>1, U32Facts, BytesAreNumbers
<1>3. <<t>> \in Seq(Nat) /\ Len(<<t>>) = 1
  OBVIOUS
<1>4. PICK a : a = <<t>> \o mid
  OBVIOUS
<1>5. a \in Seq(Nat) /\ Len(a) = 1 + Len(mid)
  BY <1>3, <1>4, ConcatLength
<1>6. PICK b : b = a \o u
  OBVIOUS
<1>7. b \in Seq(Nat) /\ Len(b) = 1 + Len(mid) + 4
  BY <1>2, <1>5, <1>6, ConcatLength
<1>8. data = b \o payload
  BY <1>1, <1>4, <1>6 DEF Packet
<1>10. data \in Seq(Nat) /\ Len(data) = (1 + Len(mid) + 4) + Len(payload)
  BY <1>7, <1>8, ConcatLength
<1>11. \A i, part : Holds(a, i, part) => Holds(data, i, part)
  BY <1>2, <1>6, <1>8, HoldsBefore
<1>12. Holds(a, 0, <<t>>)
  BY <1>3, <1>4, HoldsItself, HoldsBefore
<1>13. data # <<>> /\ data[1] = t
  <2>1. Holds(data, 0, <<t>>)
    BY <1>11, <1>12
  <2>2. Has(data, 0, 1) /\ data[0 + 1] = t
    BY <2>1, HeldByte
  <2> QED
    BY <2>2 DEF Has
<1>14. ASSUME NEW i, NEW part, Holds(mid, i, part) PROVE Holds(data, 1 + i, part)
  <2>1. Holds(a, Len(<<t>>) + i, part)
    BY <1>3, <1>4, <1>14, HoldsAfter
  <2> QED
    BY <1>3, <1>11, <2>1
<1>15. Holds(data, 1 + Len(mid), u)
  <2>1. Holds(b, Len(a) + 0, u)
    BY <1>2, <1>5, <1>6, HoldsItself, HoldsAfter
  <2>2. Len(a) + 0 = 1 + Len(mid)
    BY <1>5
  <2> QED
    BY <1>8, <2>1, <2>2, HoldsBefore
<1>16. Part(data, 1 + Len(mid) + 4, Len(data) - (1 + Len(mid) + 4)) = payload
  <2>1. Holds(data, Len(b) + 0, payload)
    BY <1>7, <1>8, HoldsItself, HoldsAfter
  <2>2. Len(b) + 0 = 1 + Len(mid) + 4 /\ Len(data) - (1 + Len(mid) + 4) = Len(payload)
    BY <1>7, <1>10
  <2> QED
    BY <2>1, <2>2, HeldIsRead
<1> QED
  BY <1>1, <1>10, <1>13, <1>14, <1>15, <1>16 DEF Rest

\* What the readers need of this.
HoldsParts(data, t, mid, n) ==
  /\ data # <<>> /\ data[1] = t
  /\ \A i, part : Holds(mid, i, part) => Holds(data, 1 + i, part)
  /\ Holds(data, 1 + Len(mid), U32(n))

LEMMA PacketHolds ==
  ASSUME NEW t \in Nat, NEW mid \in Seq(Nat), NEW n \in Nat, NEW payload \in Seq(Nat),
         NEW data, data = Packet(t, mid, n, payload)
  PROVE  HoldsParts(data, t, mid, n)
<1>1. PICK at : at = 1 + Len(mid) + 4
  OBVIOUS
<1> QED
  BY <1>1, PacketParts DEF HoldsParts

\* What stands between the type and the number.
VersionWritten(h) == IF h.version = -1 THEN 1 ELSE h.version
SourcePart(source) == IF source = NoId THEN <<0>> ELSE <<IdLen>> \o source

Middle(h) ==
  CASE h.type \in LongTypes -> U32(VersionWritten(h)) \o <<IdLen>> \o h.id \o SourcePart(h.source)
    [] h.type = "OneRTT" -> h.id
    [] h.type = "VersionNegotiation" -> U32(0) \o <<IdLen>> \o h.id

\* The type a header is read with: the one it has, if it is one of TypesKept.
TypeRead(type) == IF type \in LongTypes THEN "Initial" ELSE type

\* The first byte tells the types apart as far as TypeRead says.
LEMMA Types ==
  ASSUME NEW type \in PacketTypes
  PROVE  TypeByte(type) \in Nat /\ FromByte(TypeByte(type)) = TypeRead(type)
<1>1. CASE type \in LongTypes
  <2>1. TypeByte(type) \in {128, 129, 130, 131}
    BY <1>1 DEF LongTypes, TypeByte
  <2>2. TypeByte(type) \div 16 = 8
    BY <2>1
  <2>3. FromByte(TypeByte(type)) = "Initial"
    BY <2>2 DEF FromByte
  <2> QED
    BY <1>1, <2>1, <2>3 DEF TypeRead
<1>2. CASE type = "OneRTT"
  <2>1. TypeByte(type) = 64 /\ 64 \div 16 = 4 /\ type \notin LongTypes
    BY <1>2 DEF LongTypes, TypeByte
  <2>2. FromByte(TypeByte(type)) = "OneRTT"
    BY <2>1 DEF FromByte
  <2> QED
    BY <1>2, <2>1, <2>2 DEF TypeRead
<1>3. CASE type = "VersionNegotiation"
  <2>1. TypeByte(type) = 0 /\ 0 \div 16 = 0 /\ type \notin LongTypes
    BY <1>3 DEF LongTypes, TypeByte
  <2>2. FromByte(TypeByte(type)) = "VersionNegotiation"
    BY <2>1 DEF FromByte
  <2> QED
    BY <1>3, <2>1, <2>2 DEF TypeRead
<1> QED
  BY <1>1, <1>2, <1>3 DEF PacketTypes, LongTypes

LEMMA SmallNumbers ==
  /\ Limit32 \in Nat /\ 1 < Limit32
  /\ \A v \in 0 .. Limit32 - 1 : v % Limit32 = v
<1>1. \A x, y \in Nat : x > 1 /\ y > 1 => x * y > 1 /\ x * y \in Nat
  OBVIOUS
<1>2. Base \in Nat /\ Base > 1
  BY WireArguments
<1>3. Limit32 \in Nat /\ 1 < Limit32
  BY <1>1, <1>2 DEF Limit32
<1>4. \A m \in Nat, v \in Nat : v < m => v % m = v
  OBVIOUS
<1> QED
  BY <1>3, <1>4

\* A version and the destination id, as long headers and version negotiation begin.
LEMMA VersionAndId ==
  ASSUME NEW v \in Nat, NEW id \in ConnectionIds, NEW s, s = (U32(v) \o <<IdLen>>) \o id
  PROVE  /\ s \in Seq(Nat) /\ Len(s) = 5 + IdLen
         /\ Holds(s, 0, U32(v)) /\ Holds(s, 4, <<IdLen>>) /\ Holds(s, 5, id)
<1>1. PICK u : u = U32(v)
  OBVIOUS
<1>2. u \in Seq(Nat) /\ Len(u) = 4
  BY <1>1, U32Facts, BytesAreNumbers
<1>3. id \in Seq(Nat) /\ Len(id) = IdLen /\ IdLen \in Nat
  BY IdFacts
<1>4. <<IdLen>> \in Seq(Nat) /\ Len(<<IdLen>>) = 1
  BY <1>3
<1>5. PICK a : a = u \o <<IdLen>>
  OBVIOUS
<1>6. a \in Seq(Nat) /\ Len(a) = 5
  <2>1. PICK b : b = <<IdLen>>
    OBVIOUS
  <2>2. b \in Seq(Nat) /\ Len(b) = 1 /\ a = u \o b
    BY <1>4, <1>5, <2>1
  <2>3. a \in Seq(Nat) /\ Len(a) = Len(u) + Len(b)
    BY <1>2, <2>2, ConcatLength, Zenon
  <2> QED
    BY <1>2, <2>2, <2>3
<1>7. s = a \o id
  BY <1>1, <1>5
<1>8. s \in Seq(Nat) /\ Len(s) = 5 + IdLen
  BY <1>3, <1>6, <1>7, ConcatLength
<1>9. Holds(s, 0, u)
  BY <1>2, <1>3, <1>4, <1>5, <1>7, HoldsItself, HoldsBefore
<1>10. Holds(s, 4, <<IdLen>>)
  <2>1. Holds(a, Len(u) + 0, <<IdLen>>)
    BY <1>2, <1>4, <1>5, HoldsItself, HoldsAfter
  <2>2. Len(u) + 0 = 4
    BY <1>2
  <2> QED
    BY <1>3, <1>7, <2>1, <2>2, HoldsBefore
<1>11. Holds(s, 5, id)
  <2>1. Holds(s, Len(a) + 0, id)
    BY <1>3, <1>6, <1>7, HoldsItself, HoldsAfter
  <2>2. Len(a) + 0 = 5
    BY <1>6
  <2> QED
    BY <2>1, <2>2
<1> QED
  BY <1>1, <1>8, <1>9, <1>10, <1>11

\* What is read of a packet with this middle.
ReadAs(data, h, at) ==
  Yields(DecodeHeader(data), at + 4, TypeRead(h.type), VersionRead(h), h.id,
         IF h.type \in LongTypes THEN h.source ELSE NoId, h.number % Limit32)

\* A version that was written is read.
LEMMA VersionIsRead ==
  ASSUME NEW data, NEW v \in 0 .. Limit32 - 1, Holds(data, 1, U32(v))
  PROVE  Has(data, 1, 4) /\ FromU32(Part(data, 1, 4)) = v
<1>1. PICK u : u = U32(v)
  OBVIOUS
<1>2. v \in Nat /\ v % Limit32 = v
  BY SmallNumbers
<1>3. Len(u) = 4 /\ FromU32(u) = v
  BY <1>1, <1>2, U32Facts
<1>4. Has(data, 1, Len(u)) /\ Part(data, 1, Len(u)) = u
  BY <1>1, HeldIsRead
<1> QED
  BY <1>3, <1>4

\* PacketHeader::decode of a short header.
LEMMA ShortRead ==
  ASSUME NEW h \in HeaderSet, h.type = "OneRTT", NEW payload \in Seq(Nat)
  PROVE  /\ Middle(h) \in Seq(Nat)
         /\ ReadAs(Packet(TypeByte(h.type), Middle(h), h.number, payload), h, 1 + Len(Middle(h)))
<1>1. h.id \in ConnectionIds /\ h.number \in Nat /\ h.type \in PacketTypes
  BY DEF HeaderSet
<1>2. h.type \notin LongTypes /\ TypeRead(h.type) = "OneRTT"
  BY DEF LongTypes, TypeRead
<1>3. Middle(h) = h.id
  BY <1>2, Zenon DEF Middle
<1>4. h.id \in Seq(Nat) /\ Len(h.id) = IdLen /\ IdLen \in Nat \ {0}
  BY <1>1, IdFacts
<1>5. PICK data : data = Packet(TypeByte(h.type), h.id, h.number, payload)
  OBVIOUS
<1>6. TypeByte(h.type) \in Nat /\ FromByte(TypeByte(h.type)) = "OneRTT"
  BY <1>1, <1>2, Types
<1>7. /\ data # <<>> /\ data[1] = TypeByte(h.type)
      /\ \A i, part : Holds(h.id, i, part) => Holds(data, 1 + i, part)
      /\ Holds(data, 1 + Len(h.id), U32(h.number))
  <2>1. PICK t, n : t = TypeByte(h.type) /\ n = h.number
    OBVIOUS
  <2>2. t \in Nat /\ n \in Nat /\ h.id \in Seq(Nat) /\ data = Packet(t, h.id, n, payload)
    BY <1>1, <1>4, <1>5, <1>6, <2>1, Zenon
  <2>3. HoldsParts(data, t, h.id, n)
    BY <2>2, PacketHolds
  <2> QED
    BY <2>1, <2>3, Zenon DEF HoldsParts
<1>8. Has(data, 1, IdLen) /\ Part(data, 1, IdLen) = h.id
  <2>1. Holds(data, 1 + 0, h.id)
    BY <1>4, <1>7, HoldsItself
  <2> QED
    BY <1>4, <2>1, HeldIsRead
<1>9. DecodeHeader(data) = DecodeShort(data, "OneRTT")
  BY <1>6, <1>7 DEF DecodeHeader, LongTypes
<1>10. DecodeHeader(data) = Numbered(data, 1 + IdLen, "OneRTT", -1, h.id, NoId)
  BY <1>8, <1>9, Zenon DEF DecodeShort
<1>11. Yields(Numbered(data, 1 + IdLen, "OneRTT", -1, h.id, NoId),
              (1 + IdLen) + 4, "OneRTT", -1, h.id, NoId, h.number % Limit32)
  <2>1. Holds(data, 1 + IdLen, U32(h.number))
    BY <1>4, <1>7
  <2> QED
    BY <1>1, <2>1, ReadsNumber, Zenon
<1>12. VersionRead(h) = -1
  BY <1>2, Zenon DEF VersionRead
<1> QED
  BY <1>2, <1>3, <1>4, <1>5, <1>10, <1>11, <1>12, Zenon DEF ReadAs

\* PacketHeader::decode of a version negotiation header.
LEMMA NegotiationRead ==
  ASSUME NEW h \in HeaderSet, h.type = "VersionNegotiation", NEW payload \in Seq(Nat)
  PROVE  /\ Middle(h) \in Seq(Nat)
         /\ ReadAs(Packet(TypeByte(h.type), Middle(h), h.number, payload), h, 1 + Len(Middle(h)))
<1>1. h.id \in ConnectionIds /\ h.number \in Nat /\ h.type \in PacketTypes
  BY DEF HeaderSet
<1>2. h.type \notin LongTypes /\ h.type # "OneRTT" /\ TypeRead(h.type) = "VersionNegotiation"
  BY DEF LongTypes, TypeRead
<1>3. PICK mid : mid = (U32(0) \o <<IdLen>>) \o h.id
  OBVIOUS
<1>4. Middle(h) = mid
  BY <1>2, <1>3, Zenon DEF Middle
<1>5. /\ mid \in Seq(Nat) /\ Len(mid) = 5 + IdLen /\ IdLen \in Nat \ {0}
      /\ Holds(mid, 0, U32(0)) /\ Holds(mid, 4, <<IdLen>>) /\ Holds(mid, 5, h.id)
  BY <1>1, <1>3, VersionAndId, IdFacts
<1>6. PICK data : data = Packet(TypeByte(h.type), mid, h.number, payload)
  OBVIOUS
<1>7. TypeByte(h.type) \in Nat /\ FromByte(TypeByte(h.type)) = "VersionNegotiation"
  BY <1>1, <1>2, Types
<1>8. /\ data # <<>> /\ data[1] = TypeByte(h.type)
      /\ \A i, part : Holds(mid, i, part) => Holds(data, 1 + i, part)
      /\ Holds(data, 1 + Len(mid), U32(h.number))
  <2>1. PICK t, n : t = TypeByte(h.type) /\ n = h.number
    OBVIOUS
  <2>2. t \in Nat /\ n \in Nat /\ mid \in Seq(Nat) /\ data = Packet(t, mid, n, payload)
    BY <1>1, <1>5, <1>6, <1>7, <2>1, Zenon
  <2>3. HoldsParts(data, t, mid, n)
    BY <2>2, PacketHolds
  <2> QED
    BY <2>1, <2>3, Zenon DEF HoldsParts
<1>9. Holds(data, 1, U32(0)) /\ Holds(data, 5, <<IdLen>>) /\ Holds(data, 6, h.id)
  <2>1. Holds(data, 1 + 0, U32(0)) /\ Holds(data, 1 + 4, <<IdLen>>) /\ Holds(data, 1 + 5, h.id)
    BY <1>5, <1>8, Zenon
  <2> QED
    BY <2>1
<1>10. FromU32(Part(data, 1, 4)) = 0
  BY <1>9, SmallNumbers, VersionIsRead
<1>11. ReadId(data, 5, ZeroId) = [ok |-> TRUE, id |-> h.id, at |-> 6 + IdLen]
  <2>1. Holds(data, 5 + 1, h.id) /\ 5 + 1 = 6
    BY <1>9
  <2>2. ReadId(data, 5, ZeroId) = [ok |-> TRUE, id |-> h.id, at |-> 5 + 1 + IdLen]
    BY <1>1, <1>9, <2>1, ReadsId, Zenon
  <2> QED
    BY <2>1, <2>2
<1>12. Has(data, 1, 5)
  BY <1>9, HeldByte DEF Has
<1>13. DecodeHeader(data) = DecodeNegotiation(data, "VersionNegotiation")
  BY <1>7, <1>8 DEF DecodeHeader, LongTypes
<1>14. DecodeHeader(data) = Numbered(data, 6 + IdLen, "VersionNegotiation", 0, h.id, NoId)
  <2>1. PICK r : r = ReadId(data, 5, ZeroId)
    OBVIOUS
  <2>2. r.ok /\ r.id = h.id /\ r.at = 6 + IdLen
    BY <1>11, <2>1
  <2>3. DecodeHeader(data) = Numbered(data, r.at, "VersionNegotiation", FromU32(Part(data, 1, 4)), r.id, NoId)
    BY <1>12, <1>13, <2>1, <2>2, Zenon DEF DecodeNegotiation
  <2> QED
    BY <1>10, <2>2, <2>3
<1>15. Holds(data, 6 + IdLen, U32(h.number)) /\ 6 + IdLen = 1 + Len(mid)
  BY <1>5, <1>8
<1>16. Yields(Numbered(data, 6 + IdLen, "VersionNegotiation", 0, h.id, NoId),
              (6 + IdLen) + 4, "VersionNegotiation", 0, h.id, NoId, h.number % Limit32)
  BY <1>1, <1>15, ReadsNumber, Zenon
<1>17. VersionRead(h) = 0
  BY <1>2, Zenon DEF VersionRead
<1> QED
  BY <1>2, <1>4, <1>5, <1>6, <1>14, <1>15, <1>16, <1>17, Zenon DEF ReadAs

\* The source id of a long header, or a zero where there is none.
LEMMA SourceParts ==
  ASSUME NEW source \in ConnectionIds \cup {NoId}, NEW s, s = SourcePart(source)
  PROVE  /\ s \in Seq(Nat)
         /\ source = NoId => Len(s) = 1 /\ Holds(s, 0, <<0>>)
         /\ source # NoId => /\ source \in ConnectionIds /\ Len(s) = 1 + IdLen
                             /\ Holds(s, 0, <<IdLen>>) /\ Holds(s, 1, source)
<1>1. CASE source = NoId
  <2>1. s = <<0>> /\ <<0>> \in Seq(Nat) /\ Len(<<0>>) = 1
    BY <1>1 DEF SourcePart
  <2> QED
    BY <1>1, <2>1, HoldsItself
<1>2. CASE source # NoId
  <2>1. PICK b : b = <<IdLen>>
    OBVIOUS
  <2>2. source \in ConnectionIds /\ source \in Seq(Nat) /\ Len(source) = IdLen /\ IdLen \in Nat
    BY <1>2, IdFacts
  <2>3. b \in Seq(Nat) /\ Len(b) = 1 /\ s = b \o source
    BY <1>2, <2>1, <2>2 DEF SourcePart
  <2>4. s \in Seq(Nat) /\ Len(s) = 1 + IdLen
    BY <2>2, <2>3, ConcatLength
  <2>5. Holds(s, 0, b)
    BY <2>2, <2>3, HoldsItself, HoldsBefore
  <2>6. Holds(s, 1, source)
    <3>1. Holds(s, Len(b) + 0, source)
      BY <2>2, <2>3, HoldsItself, HoldsAfter
    <3>2. Len(b) + 0 = 1
      BY <2>3
    <3> QED
      BY <3>1, <3>2
  <2> QED
    BY <1>2, <2>1, <2>2, <2>4, <2>5, <2>6
<1> QED
  BY <1>1, <1>2

\* PacketHeader::decode of a long header.
LEMMA LongRead ==
  ASSUME NEW h \in HeaderSet, h.type \in LongTypes, NEW payload \in Seq(Nat)
  PROVE  /\ Middle(h) \in Seq(Nat)
         /\ ReadAs(Packet(TypeByte(h.type), Middle(h), h.number, payload), h, 1 + Len(Middle(h)))
<1>1. /\ h.id \in ConnectionIds /\ h.number \in Nat /\ h.type \in PacketTypes
      /\ h.source \in ConnectionIds \cup {NoId} /\ h.version \in {-1} \cup 0 .. Limit32 - 1
  BY DEF HeaderSet
<1>2. h.type # "OneRTT" /\ h.type # "VersionNegotiation" /\ TypeRead(h.type) = "Initial"
  BY DEF LongTypes, TypeRead
<1>3. PICK v : v = VersionWritten(h)
  OBVIOUS
<1>4. v \in 0 .. Limit32 - 1 /\ v \in Nat
  BY <1>1, <1>3, SmallNumbers DEF VersionWritten
<1>5. PICK front, back : front = (U32(v) \o <<IdLen>>) \o h.id /\ back = SourcePart(h.source)
  OBVIOUS
<1>6. PICK mid : mid = front \o back
  OBVIOUS
<1>7. Middle(h) = mid
  BY <1>2, <1>3, <1>5, <1>6, Zenon DEF Middle
<1>8. /\ front \in Seq(Nat) /\ Len(front) = 5 + IdLen
      /\ Holds(front, 0, U32(v)) /\ Holds(front, 4, <<IdLen>>) /\ Holds(front, 5, h.id)
  BY <1>1, <1>4, <1>5, VersionAndId
<1>9. IdLen \in Nat \ {0}
  BY WireArguments
<1>10. /\ back \in Seq(Nat)
       /\ h.source = NoId => Len(back) = 1 /\ Holds(back, 0, <<0>>)
       /\ h.source # NoId => /\ h.source \in ConnectionIds /\ Len(back) = 1 + IdLen
                             /\ Holds(back, 0, <<IdLen>>) /\ Holds(back, 1, h.source)
  BY <1>1, <1>5, SourceParts
<1>11. mid \in Seq(Nat) /\ Len(mid) = (5 + IdLen) + Len(back)
  <2>1. mid \in Seq(Nat) /\ Len(mid) = Len(front) + Len(back)
    BY <1>6, <1>8, <1>10, ConcatLength, Zenon
  <2> QED
    BY <1>8, <2>1
<1>12. Holds(mid, 0, U32(v)) /\ Holds(mid, 4, <<IdLen>>) /\ Holds(mid, 5, h.id)
  BY <1>6, <1>8, <1>10, HoldsBefore, Zenon
<1>13. \A i, part : Holds(back, i, part) => Holds(mid, (5 + IdLen) + i, part)
  <2>1. \A i, part : Holds(back, i, part) => Holds(mid, Len(front) + i, part)
    BY <1>6, <1>8, HoldsAfter, Zenon
  <2> QED
    BY <1>8, <2>1
<1>14. PICK data : data = Packet(TypeByte(h.type), mid, h.number, payload)
  OBVIOUS
<1>15. TypeByte(h.type) \in Nat /\ FromByte(TypeByte(h.type)) = "Initial"
  BY <1>1, <1>2, Types
<1>16. /\ data # <<>> /\ data[1] = TypeByte(h.type)
       /\ \A i, part : Holds(mid, i, part) => Holds(data, 1 + i, part)
       /\ Holds(data, 1 + Len(mid), U32(h.number))
  <2>1. PICK t, n : t = TypeByte(h.type) /\ n = h.number
    OBVIOUS
  <2>2. t \in Nat /\ n \in Nat /\ mid \in Seq(Nat) /\ data = Packet(t, mid, n, payload)
    BY <1>1, <1>11, <1>14, <1>15, <2>1, Zenon
  <2>3. HoldsParts(data, t, mid, n)
    BY <2>2, PacketHolds
  <2> QED
    BY <2>1, <2>3, Zenon DEF HoldsParts
<1>17. Holds(data, 1, U32(v)) /\ Holds(data, 5, <<IdLen>>) /\ Holds(data, 6, h.id)
  <2>1. Holds(data, 1 + 0, U32(v)) /\ Holds(data, 1 + 4, <<IdLen>>) /\ Holds(data, 1 + 5, h.id)
    BY <1>12, <1>16, Zenon
  <2> QED
    BY <2>1
<1>18. Has(data, 1, 4) /\ FromU32(Part(data, 1, 4)) = v
  BY <1>4, <1>17, VersionIsRead
<1>19. ReadId(data, 5, ZeroId) = [ok |-> TRUE, id |-> h.id, at |-> 6 + IdLen]
  <2>1. Holds(data, 5 + 1, h.id) /\ 5 + 1 = 6
    BY <1>17
  <2>2. ReadId(data, 5, ZeroId) = [ok |-> TRUE, id |-> h.id, at |-> 5 + 1 + IdLen]
    BY <1>1, <1>17, <2>1, ReadsId, Zenon
  <2> QED
    BY <2>1, <2>2
<1>20. PICK at : at = 1 + Len(mid)
  OBVIOUS
<1>21. ReadId(data, 6 + IdLen, NoId) = [ok |-> TRUE, id |-> h.source, at |-> at]
  <2>1. PICK i : i = 6 + IdLen
    OBVIOUS
  <2>2. i = 1 + ((5 + IdLen) + 0) /\ i + 1 = 1 + ((5 + IdLen) + 1)
    BY <1>9, <2>1
  <2>3. CASE h.source = NoId
    <3>1. Holds(data, 1 + ((5 + IdLen) + 0), <<0>>)
      BY <1>10, <1>13, <1>16, <2>3, Zenon
    <3>2. Holds(data, i, << 0 >>)
      BY <2>2, <3>1
    <3>3. ReadId(data, i, NoId) = [ok |-> TRUE, id |-> NoId, at |-> i + 1]
      BY <3>2, ReadsNoId
    <3>4. i + 1 = at
      <4>1. Len(mid) = (5 + IdLen) + 1
        BY <1>10, <1>11, <2>3
      <4> QED
        BY <1>9, <1>20, <2>1, <4>1
    <3> QED
      BY <2>1, <2>3, <3>3, <3>4
  <2>4. CASE h.source # NoId
    <3>1. /\ Holds(data, 1 + ((5 + IdLen) + 0), <<IdLen>>)
          /\ Holds(data, 1 + ((5 + IdLen) + 1), h.source)
      BY <1>10, <1>13, <1>16, <2>4, Zenon
    <3>2. Holds(data, i, <<IdLen>>) /\ Holds(data, i + 1, h.source)
      BY <2>2, <3>1
    <3>3. ReadId(data, i, NoId) = [ok |-> TRUE, id |-> h.source, at |-> i + 1 + IdLen]
      BY <1>10, <2>4, <3>2, ReadsId, Zenon
    <3>4. i + 1 + IdLen = at
      <4>1. Len(mid) = (5 + IdLen) + (1 + IdLen)
        BY <1>10, <1>11, <2>4
      <4> QED
        BY <1>9, <1>20, <2>1, <4>1
    <3> QED
      BY <2>1, <3>3, <3>4
  <2> QED
    BY <2>3, <2>4
<1>22. DecodeHeader(data) = DecodeLong(data, "Initial")
  BY <1>15, <1>16 DEF DecodeHeader, LongTypes
<1>23. DecodeHeader(data) = Numbered(data, at, "Initial", v, h.id, h.source)
  <2>1. PICK r, q : r = ReadId(data, 5, ZeroId) /\ q = ReadId(data, r.at, NoId)
    OBVIOUS
  <2>2. r.ok /\ r.id = h.id /\ r.at = 6 + IdLen
    BY <1>19, <2>1
  <2>3. q.ok /\ q.id = h.source /\ q.at = at
    BY <1>21, <2>1, <2>2
  <2>4. DecodeHeader(data) = Numbered(data, q.at, "Initial", FromU32(Part(data, 1, 4)), r.id, q.id)
    BY <1>18, <1>22, <2>1, <2>2, <2>3, Zenon DEF DecodeLong
  <2> QED
    BY <1>18, <2>2, <2>3, <2>4
<1>24. Yields(Numbered(data, at, "Initial", v, h.id, h.source),
              at + 4, "Initial", v, h.id, h.source, h.number % Limit32)
  BY <1>1, <1>16, <1>20, ReadsNumber, Zenon
<1>25. VersionRead(h) = v
  BY <1>2, <1>3, Zenon DEF VersionRead, VersionWritten
<1> QED
  BY <1>2, <1>7, <1>11, <1>14, <1>20, <1>23, <1>24, <1>25, Zenon DEF ReadAs

\* PacketHeader::decode of any header, whatever follows it.
LEMMA PacketRead ==
  ASSUME NEW h \in HeaderSet, NEW payload \in Seq(Nat)
  PROVE  /\ Middle(h) \in Seq(Nat)
         /\ ReadAs(Packet(TypeByte(h.type), Middle(h), h.number, payload), h, 1 + Len(Middle(h)))
<1>1. h.type \in LongTypes \cup {"OneRTT", "VersionNegotiation"}
  BY DEF HeaderSet, PacketTypes, LongTypes
<1> QED
  BY <1>1, LongRead, ShortRead, NegotiationRead

\* A header survives the wire: what encode wrote is read back up to the losses
\* HeaderReadsBack names, and no cut of it reads as more than is there.
LEMMA HeaderSurvives ==
  ASSUME NEW h \in HeaderSet, NEW payload \in Seq(Nat)
  PROVE  HeaderReadsBack(h, payload)
<1>2. h.number \in Nat /\ h.type \in PacketTypes /\ TypeByte(h.type) \in Nat
  BY Types DEF HeaderSet
<1>3. PICK t, mid, n : t = TypeByte(h.type) /\ mid = Middle(h) /\ n = h.number
  OBVIOUS
<1>4. PICK data : data = EncodeHeader(h) \o payload
  OBVIOUS
<1>5. data = Packet(t, mid, n, payload)
  BY <1>3, <1>4, Zenon DEF EncodeHeader, Packet, Middle, VersionWritten, SourcePart
<1>6. mid \in Seq(Nat) /\ ReadAs(data, h, 1 + Len(mid))
  BY <1>3, <1>5, PacketRead
<1>7. PICK at : at = 1 + Len(mid) + 4
  OBVIOUS
<1>8. data \in Seq(Nat) /\ data # <<>> /\ Rest(data, at) = payload
  <2>1. t \in Nat /\ n \in Nat /\ mid \in Seq(Nat)
    BY <1>2, <1>3, <1>6
  <2> QED
    BY <1>5, <1>7, <2>1, PacketParts
<1>9. PICK read : read = DecodeHeader(data)
  OBVIOUS
<1>10. read = [ok |-> TRUE, used |-> at,
               header |-> [type |-> TypeRead(h.type), version |-> VersionRead(h), id |-> h.id,
                           source |-> IF h.type \in LongTypes THEN h.source ELSE NoId,
                           number |-> h.number % Limit32]]
  BY <1>6, <1>7, <1>9, Zenon DEF ReadAs, Yields
<1>11. /\ read.ok /\ read.used = at
       /\ h.type \in TypesKept => read.header.type = h.type
       /\ read.header.version = VersionRead(h)
       /\ read.header.id = h.id /\ read.header.number = h.number % Limit32
       /\ h.type \in LongTypes => read.header.source = h.source
  <2>1. h.type \in TypesKept => TypeRead(h.type) = h.type
    BY DEF TypesKept, TypeRead, LongTypes
  <2> QED
    BY <1>10, <2>1
<1>12. ASSUME NEW k \in 1 .. Len(data), DecodeHeader(SubSeq(data, 1, k)).ok
       PROVE  DecodeHeader(SubSeq(data, 1, k)).used <= k
  <2>1. PICK cut : cut = SubSeq(data, 1, k)
    OBVIOUS
  <2>2. cut \in Seq(Nat) /\ Len(cut) = k
    <3>1. cut = Part(data, 0, k)
      BY <2>1 DEF Part
    <3>2. k \in Nat /\ 0 + k <= Len(data)
      BY <1>8
    <3> QED
      BY <1>8, <3>1, <3>2, CutOut
  <2>3. cut # <<>>
    BY <2>2
  <2> QED
    BY <1>12, <2>1, <2>2, <2>3, NeverBeyond
<1> QED
  BY <1>4, <1>8, <1>9, <1>11, <1>12, Zenon DEF HeaderReadsBack, Rest

-----------------------------------------------------------------------------
(* ACK frames are read back. *)

\* The words of an ACK frame before its ranges, and theirs.
Top(a) == <<a.largest, a.delay \div 1000, Len(a.ranges)>>
Words(a) == [i \in 1 .. 2 * Len(a.ranges) |->
               LET r == a.ranges[(i + 1) \div 2] IN IF i % 2 = 1 THEN r.first ELSE r.last]

\* What AckFrame::encode writes is those words.
LEMMA AckWords ==
  ASSUME NEW a
  PROVE  EncodeAck(a).type = AckFrameType
         /\ EncodeAck(a).words = Top(a) \o Words(a)
  BY DEF EncodeAck, Top, Words

\* An ACK frame with any list of ranges survives the wire, and is refused when cut.
LEMMA AckSurvives ==
  ASSUME NEW a, a.delay \in Nat, a.ranges \in Seq([first : Nat, last : Nat])
  PROVE  AckReadsBack(a)
<1>0. PICK largest, delay, list : a.largest = largest /\ a.delay = delay /\ a.ranges = list
  OBVIOUS
<1>1. /\ a.largest = largest /\ a.delay = delay /\ a.ranges = list
      /\ delay \in Nat /\ list \in Seq([first : Nat, last : Nat])
  BY <1>0
<1>2. PICK n : n = Len(list)
  OBVIOUS
<1>3. n \in Nat /\ list = [i \in 1 .. n |-> list[i]]
  BY <1>1, <1>2
<1>4. \A i \in 1 .. n : list[i] = [first |-> list[i].first, last |-> list[i].last]
  BY <1>1, <1>2, <1>3
<1>5. PICK tail : tail = Words(a)
  OBVIOUS
<1>6. PICK top : top = Top(a)
  OBVIOUS
<1>7. PICK words : words = top \o tail
  OBVIOUS
<1>8. PICK frame : frame = EncodeAck(a)
  OBVIOUS
<1>9. frame.type = AckFrameType /\ frame.words = words
  BY <1>5, <1>6, <1>7, <1>8, AckWords, Zenon
<1>10. PICK m : m = 2 * n
  OBVIOUS
<1>11. m \in Nat /\ DOMAIN tail = 1 .. m /\ Len(tail) = m
  <2>1. m \in Nat
    BY <1>3, <1>10
  <2>2. DOMAIN tail = 1 .. m
    BY <1>1, <1>2, <1>5, <1>10, Zenon DEF Words
  <2>3. Len(tail) = m
    BY <1>1, <1>2, <1>5, <1>10, <2>1 DEF Words
  <2> QED
    BY <2>1, <2>2, <2>3
<1>12. Len(top) = 3 /\ top[1] = largest /\ top[2] = delay \div 1000 /\ top[3] = n
  BY <1>1, <1>2, <1>6 DEF Top
<1>13. /\ Len(words) = 3 + m
       /\ words = [i \in 1 .. 3 + m |-> IF i <= 3 THEN top[i] ELSE tail[i - 3]]
  <2>1. PICK S : S = {top[i] : i \in 1 .. 3} \cup {tail[i] : i \in 1 .. m}
    OBVIOUS
  <2>2. top \in Seq(S)
    <3>1. top = [i \in 1 .. 3 |-> top[i]]
      BY <1>6 DEF Top
    <3> QED
      BY <2>1, <3>1
  <2>3. tail \in Seq(S)
    <3>1. tail = [i \in 1 .. m |-> tail[i]]
      BY <1>5, <1>11 DEF Words
    <3>2. tail \in [1 .. m -> S]
      BY <2>1, <3>1
    <3> QED
      BY <1>11, <3>2, SeqDef
  <2>4. /\ Len(words) = Len(top) + Len(tail) /\ words \in Seq(S)
        /\ \A i \in 1 .. Len(top) + Len(tail) :
             words[i] = IF i <= Len(top) THEN top[i] ELSE tail[i - Len(top)]
    BY <1>7, <2>2, <2>3, ConcatProperties
  <2>5. DOMAIN words = 1 .. 3 + m
    BY <1>11, <1>12, <2>4
  <2>6. words = [i \in 1 .. 3 + m |-> words[i]]
    <3>1. words = [i \in 1 .. Len(words) |-> words[i]]
      BY <2>4
    <3> QED
      BY <1>11, <1>12, <2>4, <3>1, Zenon
  <2> QED
    BY <1>11, <1>12, <2>4, <2>6
<1>14. words[1] = largest /\ words[2] = delay \div 1000 /\ words[3] = n
  BY <1>11, <1>12, <1>13
<1>15. ASSUME NEW j \in 1 .. m
       PROVE  words[3 + j] = tail[j]
  <2>1. j \in Nat /\ 1 <= j /\ j <= m
    BY <1>11
  <2>2. PICK k : k = 3 + j
    OBVIOUS
  <2>3. k \in 1 .. 3 + m /\ ~(k <= 3) /\ k - 3 = j
    BY <1>11, <2>1, <2>2
  <2> QED
    BY <1>13, <2>2, <2>3, Zenon
<1>16. ASSUME NEW i \in 1 .. n
       PROVE  words[2 + 2 * i] = list[i].first /\ words[3 + 2 * i] = list[i].last
  <2>1. i \in Nat /\ 1 <= i /\ i <= n
    BY <1>3
  <2>2. PICK j : j = 2 * i
    OBVIOUS
  <2>3. j \in Nat /\ 2 <= j /\ j <= m
    BY <1>3, <1>10, <2>1, <2>2
  <2>4. j \in 1 .. m /\ j - 1 \in 1 .. m /\ 3 + (j - 1) = 2 + j
    BY <1>11, <2>3
  <2>5. words[2 + j] = tail[j - 1] /\ words[3 + j] = tail[j]
    <3>1. words[3 + (j - 1)] = tail[j - 1] /\ words[3 + j] = tail[j]
      BY <1>15, <2>4
    <3> QED
      BY <2>4, <3>1, Zenon
  <2>6. (j + 1) \div 2 = i /\ j % 2 = 0 /\ ((j - 1) + 1) \div 2 = i /\ (j - 1) % 2 = 1
    BY <2>1, <2>2
  <2>7. \A k \in 1 .. m : tail[k] = IF k % 2 = 1 THEN list[(k + 1) \div 2].first
                                                ELSE list[(k + 1) \div 2].last
    BY <1>1, <1>2, <1>5, <1>10, Zenon DEF Words
  <2>8. tail[j] = list[i].last
    <3>1. tail[j] = IF j % 2 = 1 THEN list[(j + 1) \div 2].first ELSE list[(j + 1) \div 2].last
      BY <2>4, <2>7, Zenon
    <3>2. ~(j % 2 = 1)
      BY <2>6
    <3> QED
      BY <2>6, <3>1, <3>2, Zenon
  <2>9. tail[j - 1] = list[i].first
    <3>1. tail[j - 1] = IF (j - 1) % 2 = 1 THEN list[((j - 1) + 1) \div 2].first
                                          ELSE list[((j - 1) + 1) \div 2].last
      BY <2>4, <2>7, Zenon
    <3> QED
      BY <2>6, <3>1, Zenon
  <2> QED
    BY <2>2, <2>5, <2>8, <2>9, Zenon
<1>17. PICK read : read = DecodeAck(frame)
  OBVIOUS
<1>18. read.ok /\ read.largest = largest /\ read.delay = words[2] * 1000 /\ read.ranges = list
  <2>1. PICK ranges : ranges = [i \in 1 .. frame.words[3] |->
                                  [first |-> frame.words[2 + 2 * i], last |-> frame.words[3 + 2 * i]]]
    OBVIOUS
  <2>2. ranges = list
    <3>1. \A i \in 1 .. n : [first |-> words[2 + 2 * i], last |-> words[3 + 2 * i]] = list[i]
      BY <1>4, <1>16, Zenon
    <3>2. DOMAIN ranges = 1 .. n /\ \A i \in 1 .. n : ranges[i] = list[i]
      BY <1>9, <1>14, <2>1, <3>1
    <3> QED
      BY <1>3, <2>1, <3>2
  <2>3. ~(Len(words) < 3) /\ ~(Len(words) < 3 + 2 * n)
    BY <1>10, <1>11, <1>13
  <2>4. ~(frame.type # AckFrameType \/ Len(frame.words) < 3
          \/ Len(frame.words) < 3 + 2 * frame.words[3])
    BY <1>9, <1>14, <2>3, Zenon
  <2>5. read = [ok |-> TRUE, largest |-> frame.words[1], delay |-> frame.words[2] * 1000,
                ranges |-> ranges]
    BY <1>17, <2>1, <2>4, Zenon DEF DecodeAck
  <2>6. read.ok /\ read.largest = frame.words[1] /\ read.delay = frame.words[2] * 1000
        /\ read.ranges = ranges
    BY <2>5
  <2>7. frame.words[2] * 1000 = words[2] * 1000
    BY <1>9
  <2>8. read.largest = largest
    BY <1>9, <1>14, <2>6
  <2> QED
    BY <2>2, <2>6, <2>7, <2>8
<1>19. ASSUME NEW k \in 0 .. Len(frame.words) - 1
       PROVE  ~DecodeAck([frame EXCEPT !.words = SubSeq(@, 1, k)]).ok
  <2>1. PICK cut : cut = SubSeq(words, 1, k)
    OBVIOUS
  <2>2. k \in Nat /\ k < 3 + m
    BY <1>9, <1>11, <1>13
  <2>3. Len(cut) = k /\ (k >= 3 => cut[3] = n)
    BY <1>13, <1>14, <2>1, <2>2
  <2>4. k < 3 \/ k < 3 + 2 * cut[3]
    BY <1>10, <2>2, <2>3
  <2>5. PICK part : part = [frame EXCEPT !.words = SubSeq(@, 1, k)]
    OBVIOUS
  <2>6. part.words = cut
    <3>1. frame = [type |-> frame.type, words |-> frame.words]
      BY <1>8 DEF EncodeAck
    <3> QED
      BY <1>9, <2>1, <2>5, <3>1
  <2>7. DecodeAck(part) = Refused
    BY <2>3, <2>4, <2>6, Zenon DEF DecodeAck
  <2>8. ~Refused.ok
    BY DEF Refused
  <2> QED
    BY <2>5, <2>7, <2>8, Zenon
<1>20. read.largest = a.largest /\ read.ranges = a.ranges /\ read.delay = (a.delay \div 1000) * 1000
  <2>1. words[2] = a.delay \div 1000
    BY <1>1, <1>14
  <2> QED
    BY <1>1, <1>18, <2>1
<1>21. \A k \in 0 .. Len(EncodeAck(a).words) - 1 :
          ~DecodeAck([EncodeAck(a) EXCEPT !.words = SubSeq(@, 1, k)]).ok
  BY <1>8, <1>19, Zenon
<1>22. /\ DecodeAck(EncodeAck(a)).ok
       /\ DecodeAck(EncodeAck(a)).largest = a.largest /\ DecodeAck(EncodeAck(a)).ranges = a.ranges
       /\ DecodeAck(EncodeAck(a)).delay = (a.delay \div 1000) * 1000
  BY <1>8, <1>17, <1>18, <1>20
<1> QED
  BY <1>21, <1>22, Zenon DEF AckReadsBack

-----------------------------------------------------------------------------
(* The frame in flight. *)

\* There are finitely many ranges over finitely many numbers,
LEMMA RangesFinite ==
  ASSUME NEW R, IsFiniteSet(R)
  PROVE  IsFiniteSet([first : R, last : R])
<1> DEFINE range == [p \in R \X R |-> [first |-> p[1], last |-> p[2]]]
<1>1. IsFiniteSet(R \X R)
  BY FS_Product
<1>2. range \in [R \X R -> [first : R, last : R]]
  OBVIOUS
<1>3. ASSUME NEW r \in [first : R, last : R]
      PROVE  \E p \in R \X R : range[p] = r
  <2>1. <<r.first, r.last>> \in R \X R /\ r = [first |-> r.first, last |-> r.last]
    OBVIOUS
  <2>2. range[<<r.first, r.last>>] = r
    BY <2>1
  <2> QED  BY <2>1, <2>2
<1>4. range \in Surjection(R \X R, [first : R, last : R])
  BY <1>2, <1>3 DEF Surjection
<1> HIDE DEF range
<1> QED  BY <1>1, <1>4, FS_Surjection

\* so generate_ack lists finitely many,
LEMMA FrameFinite ==
  ASSUME NEW list, IsFiniteSet(Numbers(list))
  PROVE  IsFiniteSet(GenerateAck(list).ranges)
<1>1. IsFiniteSet([first : Numbers(list), last : Numbers(list)])
  BY RangesFinite
<1>2. RangesOf(list) \in SUBSET [first : Numbers(list), last : Numbers(list)]
  BY Zenon DEF RangesOf
<1>3. IsFiniteSet(RangesOf(list))
  BY <1>1, <1>2, FS_Subset
<1>4. PICK one : GenerateAck(list).ranges = RangesOf(list) \cup {one}
  BY DEF GenerateAck
<1> QED  BY <1>3, <1>4, FS_AddElement

\* An ACK frame in flight has finitely many ranges.
FiniteRanges == IsFiniteSet(ack.ranges)

\* and the frame in flight never holds more.
LEMMA RangesStayFinite ==
  ASSUME IInv, FiniteRanges, [Next]_vars
  PROVE  FiniteRanges'
<1>1. ack' \in {ack, NoAck, GenerateAck(received)}
  BY DEF Next, vars, Send, Age, Retransmit, LosePacket, PacketArrives, AckArrives, SendAck,
         DelayPasses
<1>2. IsFiniteSet(NoAck.ranges)
  BY FS_EmptySet DEF NoAck
<1>3. CASE ack' = GenerateAck(received)
  <2>1. received \in Seq(arrived) /\ arrived \subseteq 0 .. next - 1 /\ next \in Nat
    BY DEF IInv, TypeOK, Sent
  <2>2. IsFiniteSet(0 .. next - 1)
    BY <2>1, FS_Interval
  <2>3. Numbers(received) \in SUBSET (0 .. next - 1)
    BY <2>1, NumbersInside
  <2> QED  BY <1>3, <2>2, <2>3, FS_Subset, FrameFinite DEF FiniteRanges
<1> QED  BY <1>1, <1>2, <1>3 DEF FiniteRanges

\* Any order the finitely many ranges are listed in is a sequence.
LEMMA Listed ==
  ASSUME NEW ranges \in SUBSET Ranges, IsFiniteSet(ranges), NEW list \in Listings(ranges)
  PROVE  list \in Seq(Ranges)
<1>1. Cardinality(ranges) \in Nat
  BY FS_CardinalityType
<1>2. list \in [1 .. Cardinality(ranges) -> Ranges]
  BY DEF Listings
<1> QED  BY <1>1, <1>2, SeqDef

\* The ACK frame in flight always has finitely many ranges: generate_ack pushes
\* them one by one into a vector.
THEOREM AlwaysFinite == Spec => []FiniteRanges
<1>1. Init => FiniteRanges
  BY FS_EmptySet DEF Init, NoAck, FiniteRanges
<1> QED  BY <1>1, RangesStayFinite, InvariantHolds, PTL DEF Spec

\* The headers, payloads and delays of the constants are ones the lemmas speak of.
LEMMA InputsCovered ==
  Headers \subseteq HeaderSet /\ Payloads \subseteq Seq(Nat) /\ Delays \subseteq Nat
BY WireInputs, BytesAreNumbers

\* Every header and every ACK frame in flight survive the wire.
THEOREM WireSurvives == Spec => []WireReadsBack
<1>1. IInv /\ FiniteRanges => WireReadsBack
  <2> SUFFICES ASSUME IInv, FiniteRanges PROVE WireReadsBack
    OBVIOUS
  <2>1. HeadersReadBack
    BY InputsCovered, HeaderSurvives DEF HeadersReadBack
  <2>2. ASSUME NEW d \in Delays, NEW list \in Listings(ack.ranges)
        PROVE  AckReadsBack([largest |-> ack.largest, delay |-> d, ranges |-> list])
    <3>1. list \in Seq(Ranges)
      BY Listed DEF IInv, TypeOK, FiniteRanges
    <3>2. d \in Nat
      BY InputsCovered
    <3>3. PICK a : a = [largest |-> ack.largest, delay |-> d, ranges |-> list]
      OBVIOUS
    <3>4. a.delay \in Nat /\ a.ranges \in Seq([first : Nat, last : Nat])
      BY <3>1, <3>2, <3>3 DEF Ranges
    <3> QED  BY <3>3, <3>4, AckSurvives
  <2> QED  BY <2>1, <2>2 DEF WireReadsBack
<1> QED  BY <1>1, AlwaysFinite, InvariantHolds, PTL
=============================================================================
