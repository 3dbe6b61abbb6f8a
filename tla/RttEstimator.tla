---------------------------- MODULE RttEstimator ----------------------------
(***************************************************************************)
(* The round-trip time estimator and the retransmission timeout of         *)
(* transport/packet.rs.  A Duration is a natural number of its smallest    *)
(* unit, and dividing one rounds down.                                     *)
(***************************************************************************)
EXTENDS Integers

CONSTANTS InitialRto,      \* 500 ms
          InitialRttVar,   \* 250 ms
          MinRto           \* 200 ms

ASSUME RttArguments ==
  /\ InitialRto \in Nat /\ InitialRttVar \in Nat /\ MinRto \in Nat
  /\ InitialRto >= MinRto

None == -1

Estimators ==
  [srtt : {None} \cup Nat, rttvar : Nat, minRtt : {None} \cup Nat]

NewEstimator == [srtt |-> None, rttvar |-> InitialRttVar, minRtt |-> None]

Smaller(a, b)  == IF a <= b THEN a ELSE b
Larger(a, b)   == IF a <= b THEN b ELSE a
Distance(a, b) == IF a > b THEN a - b ELSE b - a

MinRtt(est, sample) == IF est.minRtt = None THEN sample ELSE Smaller(est.minRtt, sample)

FirstSample(est, sample) ==
  [srtt |-> sample, rttvar |-> sample \div 2, minRtt |-> MinRtt(est, sample)]

\* Faulty: the weights add up to nine.
UpdateHeavy(est, sample) ==
  IF est.srtt = None
  THEN FirstSample(est, sample)
  ELSE [srtt   |-> (7 * est.srtt + 2 * sample) \div 8,
        rttvar |-> (3 * est.rttvar + Distance(sample, est.srtt)) \div 4,
        minRtt |-> MinRtt(est, sample)]

\* RttEstimator::update
Update(est, sample) ==
  IF est.srtt = None
  THEN FirstSample(est, sample)
  ELSE [srtt   |-> (7 * est.srtt + sample) \div 8,
        rttvar |-> (3 * est.rttvar + Distance(sample, est.srtt)) \div 4,
        minRtt |-> MinRtt(est, sample)]

\* RttEstimator::rto
Rto(est) ==
  Larger((IF est.srtt = None THEN InitialRto ELSE est.srtt) + 4 * est.rttvar, MinRto)
=============================================================================
