------------------------------ MODULE Limiter ------------------------------
(***************************************************************************)
(* The adaptive rate limiter of internal/ratelimit/limiter.go: one token   *)
(* bucket per key, whose rate Penalize halves and Reward raises again      *)
(* (AIMD).                                                                 *)
(*                                                                         *)
(* Neither Penalize nor Reward is atomic: each reads the bucket's rate     *)
(* with b.Limit(), computes the next one, and writes it with b.SetLimit(), *)
(* each taking the bucket's own lock for itself.  A call is therefore two  *)
(* steps, the read and the write, and other workers' steps may come        *)
(* between them.                                                           *)
(*                                                                         *)
(* Rates are integers in a unit small enough to make RPS, MinRPS and Step  *)
(* integers; a half that falls between two units is rounded down.  A key   *)
(* without a bucket is not told apart from a key at full rate: bucketFor   *)
(* creates the bucket at RPS before anyone reads it.                       *)
(***************************************************************************)
EXTENDS Integers

CONSTANTS
    Workers,     \* goroutines that report fetch outcomes
    Keys,        \* rate-limiter keys: proxies, or hosts for the crawler
    RPS,         \* the configured rate
    ConfigMin,   \* the minRPS argument of NewAdaptive
    Step,        \* additive increase per Reward, 5% of RPS in the code
    Adaptive     \* FALSE for a limiter built with New

ASSUME RPSAssumption == RPS \in Nat \ {0}
ASSUME ConfigMinAssumption == ConfigMin \in Int
ASSUME StepAssumption == Step \in Nat \ {0}
ASSUME AdaptiveAssumption == Adaptive \in BOOLEAN

VARIABLES
    limit,       \* limit[k]: the rate of key k's bucket
    call         \* call[w]: the Penalize or Reward that worker w is inside of

limiterVars == <<limit, call>>

\* The floor that NewAdaptive settles on.
MinRPS == IF ConfigMin <= 0 \/ ConfigMin > RPS THEN RPS \div 10 ELSE ConfigMin

NoCall == [op |-> "none"]

\* A call that has read the rate of key and is about to write next.
PendingCalls == [op : {"penalize", "reward"}, key : Keys, next : 0..RPS]

(***************************************************************************)
(* Type invariant.  Together with the cap of Reward it says that no key    *)
(* ever runs, or is about to run, above the configured rate.               *)
(***************************************************************************)
LimiterTypeOK ==
    /\ limit \in [Keys -> 0..RPS]
    /\ call \in [Workers -> {NoCall} \cup PendingCalls]

LimiterInit ==
    /\ limit = [k \in Keys |-> RPS]
    /\ call = [w \in Workers |-> NoCall]
-----------------------------------------------------------------------------
HalvedNoFloor(cur) == cur \div 2
Halved(cur) == IF cur \div 2 < MinRPS THEN MinRPS ELSE cur \div 2

RaisedNoCap(cur) == cur + Step
RaisedByShare(cur) == cur + (cur * Step) \div RPS
Raised(cur) == IF cur + Step > RPS THEN RPS ELSE cur + Step

\* Penalize up to b.Limit(): without a lower rate to write it returns false.
PenalizeRead(w, k) ==
    /\ call[w] = NoCall
    /\ call' = IF Adaptive /\ Halved(limit[k]) < limit[k]
               THEN [call EXCEPT ![w] = [op |-> "penalize", key |-> k,
                                         next |-> Halved(limit[k])]]
               ELSE call
    /\ UNCHANGED limit

\* Reward up to b.Limit(): a key at full rate is left alone.
RewardRead(w, k) ==
    /\ call[w] = NoCall
    /\ call' = IF Adaptive /\ limit[k] < RPS
               THEN [call EXCEPT ![w] = [op |-> "reward", key |-> k,
                                         next |-> Raised(limit[k])]]
               ELSE call
    /\ UNCHANGED limit

\* b.SetLimit(next), the write that ends either call.
SetLimit(w) ==
    /\ call[w] # NoCall
    /\ limit' = [limit EXCEPT ![call[w].key] = call[w].next]
    /\ call' = [call EXCEPT ![w] = NoCall]

LimiterNext ==
    \E w \in Workers :
        \/ \E k \in Keys : PenalizeRead(w, k) \/ RewardRead(w, k)
        \/ SetLimit(w)

LimiterSpec == LimiterInit /\ [][LimiterNext]_limiterVars

\* A goroutine inside a call runs on: nothing blocks between read and write.
LimiterFairSpec ==
    LimiterSpec /\ \A w \in Workers : WF_limiterVars(SetLimit(w))
-----------------------------------------------------------------------------
(***************************************************************************)
(* The floor holds in every interleaving: however the read and write of    *)
(* concurrent Penalize and Reward calls overlap, no key is throttled below *)
(* MinRPS (limiter.go:73), which would stall every worker that waits for   *)
(* that key.                                                               *)
(***************************************************************************)
FloorHolds == \A k \in Keys : limit[k] >= MinRPS

(***************************************************************************)
(* A pushed-back key recovers: if the target stops pushing back and        *)
(* requests through the key go on succeeding, its rate reaches RPS and     *)
(* stays there, although a Reward that read an old rate may lower it on    *)
(* the way (limiter.go:85-99).                                             *)
(***************************************************************************)
PushbackStops ==
    <>[][\A w \in Workers, k \in Keys : ~PenalizeRead(w, k)]_limiterVars

SuccessGoesOn(k) == WF_limiterVars(\E w \in Workers : RewardRead(w, k))

RecoversFullRate ==
    \A k \in Keys :
        PushbackStops /\ SuccessGoesOn(k) => <>[](limit[k] = RPS)
=============================================================================
