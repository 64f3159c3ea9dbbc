--------------------------- MODULE LimiterProofs ---------------------------
(***************************************************************************)
(* Proofs about Limiter, for every set of workers and keys and every       *)
(* configuration: rates stay between the floor and the configured rate in  *)
(* every interleaving of reads and writes.                                 *)
(***************************************************************************)
EXTENDS Limiter, TLAPS

(***************************************************************************)
(* FloorHolds is not inductive: SetLimit writes a rate computed earlier,   *)
(* so what is pending has to respect the floor as well.                    *)
(***************************************************************************)
PendingAboveFloor ==
    \A w \in Workers : call[w] # NoCall => call[w].next >= MinRPS

LimiterInv == LimiterTypeOK /\ FloorHolds /\ PendingAboveFloor

\* The floor NewAdaptive settles on lies between zero and the rate
\* (limiter.go:50-54), whatever minRPS the configuration asks for.
LEMMA MinRPSRange == MinRPS \in 0..RPS
  BY RPSAssumption, ConfigMinAssumption DEF MinRPS

\* Halving stays between the floor and the rate (limiter.go:72-75).
LEMMA HalvedRange ==
    ASSUME NEW r \in 0..RPS
    PROVE  Halved(r) \in 0..RPS /\ Halved(r) >= MinRPS
  <1>1. r \div 2 \in 0..RPS
    BY RPSAssumption
  <1> QED
    BY <1>1, MinRPSRange, RPSAssumption DEF Halved

\* Raising stays between the floor and the rate (limiter.go:94-97).
LEMMA RaisedRange ==
    ASSUME NEW r \in 0..RPS, r >= MinRPS
    PROVE  Raised(r) \in 0..RPS /\ Raised(r) >= MinRPS
  BY MinRPSRange, RPSAssumption, StepAssumption DEF Raised

\* A pending call is not NoCall, and a value other than NoCall is pending.
LEMMA PendingIsRecord ==
    ASSUME LimiterTypeOK, NEW w \in Workers, call[w] # NoCall
    PROVE  call[w] \in PendingCalls
  BY DEF LimiterTypeOK

\* One step of the limiter keeps the inductive invariant (limiter.go:66-99).
LEMMA LimiterStep == LimiterInv /\ [LimiterNext]_limiterVars => LimiterInv'
  <1> SUFFICES ASSUME LimiterInv, [LimiterNext]_limiterVars
               PROVE  LimiterInv'
    OBVIOUS
  <1> USE DEF LimiterInv
  <1>1. ASSUME NEW w \in Workers, NEW k \in Keys, PenalizeRead(w, k)
        PROVE  LimiterInv'
    <2>1. limit[k] \in 0..RPS
      BY DEF LimiterTypeOK
    <2>2. /\ Halved(limit[k]) \in 0..RPS
          /\ Halved(limit[k]) >= MinRPS
      BY <2>1, HalvedRange
    <2>3. LimiterTypeOK'
      BY <1>1, <2>2 DEF LimiterTypeOK, PenalizeRead, PendingCalls
    <2>4. FloorHolds'
      BY <1>1 DEF FloorHolds, PenalizeRead
    <2>5. PendingAboveFloor'
      BY <1>1, <2>2 DEF PendingAboveFloor, PenalizeRead, LimiterTypeOK
    <2> QED BY <2>3, <2>4, <2>5
  <1>2. ASSUME NEW w \in Workers, NEW k \in Keys, RewardRead(w, k)
        PROVE  LimiterInv'
    <2>1. limit[k] \in 0..RPS /\ limit[k] >= MinRPS
      BY DEF LimiterTypeOK, FloorHolds
    <2>2. /\ Raised(limit[k]) \in 0..RPS
          /\ Raised(limit[k]) >= MinRPS
      BY <2>1, RaisedRange
    <2>3. LimiterTypeOK'
      BY <1>2, <2>2 DEF LimiterTypeOK, RewardRead, PendingCalls
    <2>4. FloorHolds'
      BY <1>2 DEF FloorHolds, RewardRead
    <2>5. PendingAboveFloor'
      BY <1>2, <2>2 DEF PendingAboveFloor, RewardRead, LimiterTypeOK
    <2> QED BY <2>3, <2>4, <2>5
  <1>3. ASSUME NEW w \in Workers, SetLimit(w)
        PROVE  LimiterInv'
    <2>1. call[w] \in PendingCalls
      BY <1>3, PendingIsRecord DEF SetLimit
    <2>2. call[w].key \in Keys /\ call[w].next \in 0..RPS
      BY <2>1 DEF PendingCalls
    <2>3. call[w].next >= MinRPS
      BY <1>3 DEF PendingAboveFloor, SetLimit
    <2>4. LimiterTypeOK'
      BY <1>3, <2>2 DEF LimiterTypeOK, SetLimit
    <2>5. FloorHolds'
      BY <1>3, <2>2, <2>3 DEF FloorHolds, SetLimit, LimiterTypeOK
    <2>6. PendingAboveFloor'
      BY <1>3 DEF PendingAboveFloor, SetLimit, LimiterTypeOK
    <2> QED BY <2>4, <2>5, <2>6
  <1>4. CASE UNCHANGED limiterVars
    BY <1>4 DEF limiterVars, LimiterTypeOK, FloorHolds, PendingAboveFloor
  <1> QED
    BY <1>1, <1>2, <1>3, <1>4 DEF LimiterNext

\* Initially every bucket is at full rate and nobody is inside a call.
LEMMA LimiterInitInv == LimiterInit => LimiterInv
  BY MinRPSRange, RPSAssumption
  DEF LimiterInit, LimiterInv, LimiterTypeOK, FloorHolds, PendingAboveFloor

(***************************************************************************)
(* For every configuration the limiter's rates are typed and never above   *)
(* RPS (limiter.go:95-97).                                                 *)
(***************************************************************************)
THEOREM LimiterTypeCorrect == LimiterSpec => []LimiterTypeOK
  <1>1. LimiterInv => LimiterTypeOK
    BY DEF LimiterInv
  <1> QED
    BY <1>1, LimiterInitInv, LimiterStep, PTL DEF LimiterSpec

(***************************************************************************)
(* For every configuration no interleaving of Penalize and Reward takes a  *)
(* key below the floor (limiter.go:73-75).                                 *)
(***************************************************************************)
THEOREM LimiterFloor == LimiterSpec => []FloorHolds
  <1>1. LimiterInv => FloorHolds
    BY DEF LimiterInv
  <1> QED
    BY <1>1, LimiterInitInv, LimiterStep, PTL DEF LimiterSpec
=============================================================================
