-------------------------- MODULE HarvesterProofs --------------------------
(***************************************************************************)
(* Proofs about Harvester, for every number of workers, jobs and retries,  *)
(* every pool and every limiter configuration.                             *)
(*                                                                         *)
(* The proofs compose: what ProxyPoolProofs proves of a step of the pool   *)
(* is used here for the steps a worker takes with it.                      *)
(***************************************************************************)
EXTENDS Harvester, FiniteSetTheorems, TLAPS

PoolP == INSTANCE ProxyPoolProofs
LimP == INSTANCE LimiterProofs WITH Keys <- URLs

\* Where a worker has no job, and where it holds a proxy.
Idle == {"select", "exit"}
Holds == {"limit", "fetch", "report"}

\* The parts of TypeOK.
JobShapes ==
    /\ pc \in [Workers -> Locations]
    /\ attempt \in [Workers -> 0..MaxRetries]
    /\ wait \in [Workers -> 0..MaxProxyWait]
    /\ sleep \in [Workers -> 0..MaxProxyWait]
    /\ key \in [Workers -> URLs]
    /\ outcome \in [Workers -> FetchOutcomes \cup {"canceled", "none"}]

Holding ==
    \A w \in Workers :
        /\ (got[w] # None) <=> pc[w] \in Holds
        /\ (mu = w) <=> pc[w] = "scan"

Counters ==
    /\ buffered \in 0..Buffer
    /\ unsent \in Nat /\ taken \in Nat /\ success \in Nat /\ dropped \in Nat
    /\ unsent + buffered + taken = Queries

\* Without cancellation the channel is closed after the last job was sent,
\* and no worker leaves before the channel is closed and empty.
SourceDrained ==
    ~ctxDone => /\ closed => unsent = 0
                /\ \A w \in Workers : pc[w] = "exit" => closed /\ buffered = 0

\* A worker that is to report a fetch that returned after ctx ended.
LateOutcomes ==
    \A w \in Workers :
        ctxDone /\ pc[w] = "report" /\ w \notin inTime
            => outcome[w] \in {"success", "canceled"}

HarvesterInv ==
    PoolP!PoolInv /\ JobShapes /\ Holding /\ Counters /\ EveryJobCounted
    /\ SourceDrained /\ LateOutcomes
-----------------------------------------------------------------------------
\* The assumptions of ProxyPool hold of the constants it is given here.
LEMMA PoolConstants ==
    /\ PoolP!ListsAssumption /\ PoolP!StrategyAssumption /\ PoolP!BanAssumption
    /\ PoolP!MaxStreakAssumption /\ PoolP!NoneAssumption
  BY PoolAssumption
  DEF Pool!ListsAssumption, Pool!StrategyAssumption, Pool!BanAssumption,
      Pool!MaxStreakAssumption, Pool!NoneAssumption, PoolP!ListsAssumption,
      PoolP!StrategyAssumption, PoolP!BanAssumption, PoolP!MaxStreakAssumption,
      PoolP!NoneAssumption

\* So do those of Limiter.
LEMMA LimiterConstants ==
    /\ LimP!RPSAssumption /\ LimP!ConfigMinAssumption /\ LimP!StepAssumption
    /\ LimP!AdaptiveAssumption
  BY LimAssumption
  DEF Lim!RPSAssumption, Lim!ConfigMinAssumption, Lim!StepAssumption,
      Lim!AdaptiveAssumption, LimP!RPSAssumption, LimP!ConfigMinAssumption,
      LimP!StepAssumption, LimP!AdaptiveAssumption

\* No worker and no object is None, and Direct is a URL.
LEMMA NoneIsNobody == None \notin Workers /\ None \notin Objects /\ Direct \in URLs
  BY PoolConstants DEF PoolP!NoneAssumption, PoolP!ListsAssumption

\* The pool of the composition starts as ProxyPool does.
LEMMA PoolStarts == Pool!PoolInit => PoolP!PoolInit
  BY DEF Pool!PoolInit, PoolP!PoolInit, Pool!OrDirect, PoolP!OrDirect, Pool!InPool,
         PoolP!InPool, Pool!IndexByURL, PoolP!IndexByURL, Pool!Injection,
         PoolP!Injection, Pool!IsInjective, PoolP!IsInjective, Pool!NoScan, PoolP!NoScan

\* A worker's calls of Next are steps of ProxyPool (proxy/pool.go:246-330).
LEMMA NextCalls ==
    ASSUME NEW w \in Workers
    PROVE  /\ Pool!NextCall(w) => PoolP!NextCall(w)
           /\ Pool!NextInspect(w) => PoolP!NextInspect(w)
<1>1. Pool!NextCall(w) => PoolP!NextCall(w)
  BY DEF Pool!NextCall, PoolP!NextCall, Pool!NoScan, PoolP!NoScan
<1>2. Pool!NextInspect(w) => PoolP!NextInspect(w)
  BY DEF Pool!NextInspect, PoolP!NextInspect, Pool!InspectRoundRobin,
         PoolP!InspectRoundRobin, Pool!InspectHealthy, PoolP!InspectHealthy,
         Pool!InspectMore, PoolP!InspectMore, Pool!HandOut, PoolP!HandOut,
         Pool!ErrAllBanned, PoolP!ErrAllBanned, Pool!LastInspection,
         PoolP!LastInspection, Pool!IdxAfter, PoolP!IdxAfter, Pool!IsBanned,
         PoolP!IsBanned, Pool!NoScan, PoolP!NoScan
<1> QED BY <1>1, <1>2

\* An escalated cooldown is the same seen from here.
LEMMA SameCooling ==
    ASSUME NEW o
    PROVE  Pool!CoolEscalated(o) <=> PoolP!CoolEscalated(o)
  BY DEF Pool!CoolEscalated, PoolP!CoolEscalated, Pool!CoolFor, PoolP!CoolFor,
         Pool!Escalated, PoolP!Escalated, Pool!MaxCooldown, PoolP!MaxCooldown,
         Pool!Extended, PoolP!Extended

\* A worker's reports are steps of ProxyPool (proxy/pool.go:357-389), and one
\* that holds no proxy against the pool leaves its bookkeeping alone.
LEMMA Reporting ==
    ASSUME NEW w \in Workers
    PROVE  /\ Pool!ReportSuccess(w) <=> PoolP!ReportSuccess(w)
           /\ Pool!ReportNeutral(w) <=> PoolP!ReportNeutral(w)
           /\ Pool!ReportBlocked(w) <=> PoolP!ReportBlocked(w)
           /\ Pool!ReportFailure(w) <=> PoolP!ReportFailure(w)
           /\ \A ra : Pool!ReportRateLimited(w, ra) <=> PoolP!ReportRateLimited(w, ra)
<1>1. Pool!Reports(w) <=> PoolP!Reports(w)
  BY DEF Pool!Reports, PoolP!Reports
<1>2. \A o, d : Pool!CoolFor(o, d) <=> PoolP!CoolFor(o, d)
  BY DEF Pool!CoolFor, PoolP!CoolFor, Pool!Extended, PoolP!Extended
<1>3. \A n : Pool!ThresholdReached(n) <=> PoolP!ThresholdReached(n)
  BY DEF Pool!ThresholdReached, PoolP!ThresholdReached
<1>4. Pool!ReportSuccess(w) <=> PoolP!ReportSuccess(w)
  BY <1>1 DEF Pool!ReportSuccess, PoolP!ReportSuccess
<1>5. Pool!ReportNeutral(w) <=> PoolP!ReportNeutral(w)
  BY <1>1 DEF Pool!ReportNeutral, PoolP!ReportNeutral
<1>6. Pool!ReportBlocked(w) <=> PoolP!ReportBlocked(w)
  BY <1>1, SameCooling DEF Pool!ReportBlocked, PoolP!ReportBlocked
<1>7. Pool!ReportFailure(w) <=> PoolP!ReportFailure(w)
  BY <1>1, <1>3, SameCooling DEF Pool!ReportFailure, PoolP!ReportFailure
<1>8. ASSUME NEW ra PROVE Pool!ReportRateLimited(w, ra) <=> PoolP!ReportRateLimited(w, ra)
  BY <1>1, <1>2, SameCooling DEF Pool!ReportRateLimited, PoolP!ReportRateLimited
<1> QED BY <1>4, <1>5, <1>6, <1>7, <1>8

-----------------------------------------------------------------------------
\* What the workers' part of the pool looks like in every state.
LEMMA PoolShapes ==
    ASSUME PoolP!PoolInv
    PROVE  /\ url \in [Objects -> URLs] /\ got \in [Workers -> Objects \cup {None}]
           /\ fails \in [Objects -> Nat] /\ cool \in [Objects -> Nat]
           /\ streak \in [Objects -> Nat]
<1>1. streak \in [Objects -> 0..MaxStreak]
  BY DEF PoolP!PoolInv, PoolP!PoolTypeOK
<1>2. 0..MaxStreak \subseteq Nat
  BY PoolConstants DEF PoolP!MaxStreakAssumption
<1> QED BY <1>1, <1>2 DEF PoolP!PoolInv, PoolP!PoolTypeOK

\* A step that leaves the pool alone keeps what is known of it.
LEMMA PoolAlone ==
    ASSUME PoolP!PoolInv, UNCHANGED poolVars PROVE PoolP!PoolInv'
<1>1. UNCHANGED PoolP!poolVars
  BY DEF poolVars, PoolP!poolVars
<1> QED BY <1>1, PoolP!PoolStep, PoolConstants

\* A call of Next takes pl.mu.
LEMMA CallNextPool ==
    ASSUME PoolP!PoolInv, NEW w \in Workers, Pool!NextCall(w)
    PROVE  /\ PoolP!PoolInv' /\ mu = None /\ mu' = w /\ got[w] = None /\ got' = got
<1>1. PoolP!PoolInv'
  BY NextCalls, PoolP!NextCallInv, PoolConstants
<1> QED BY <1>1 DEF Pool!NextCall

\* An inspection goes on, hands a proxy out or finds them all banned; it
\* changes no other worker's proxy and no proxy.
LEMMA InspectPool ==
    ASSUME PoolP!PoolInv, NEW w \in Workers, Pool!NextInspect(w)
    PROVE  /\ PoolP!PoolInv' /\ mu = w
           /\ \/ mu' = w /\ got' = got
              \/ mu' = None /\ got' = [got EXCEPT ![w] = got'[w]]
           /\ UNCHANGED <<url, fails, cool, streak>>
<1>1. PoolP!PoolInv'
  BY NextCalls, PoolP!NextInspectInv, PoolConstants
<1>2. got \in [Workers -> Objects \cup {None}]
  BY PoolShapes
<1>3. mu = w /\ UNCHANGED <<url, fails, cool, streak>>
  BY DEF Pool!NextInspect, Pool!InspectRoundRobin, Pool!InspectHealthy
<1>4. \/ \E o : Pool!HandOut(w, o)
      \/ Pool!ErrAllBanned(w)
      \/ \E o : Pool!InspectMore(o)
  BY DEF Pool!NextInspect, Pool!InspectRoundRobin, Pool!InspectHealthy
<1>5. \/ mu' = w /\ got' = got
      \/ mu' = None /\ got' = [got EXCEPT ![w] = got'[w]]
  <2>1. ASSUME NEW o, Pool!HandOut(w, o)
        PROVE  mu' = None /\ got' = [got EXCEPT ![w] = got'[w]]
    BY <1>2, <2>1 DEF Pool!HandOut
  <2>2. CASE Pool!ErrAllBanned(w)
    BY <1>2, <2>2 DEF Pool!ErrAllBanned
  <2>3. CASE \E o : Pool!InspectMore(o)
    BY <1>3, <2>3 DEF Pool!InspectMore
  <2> QED BY <1>4, <2>1, <2>2, <2>3
<1> QED BY <1>1, <1>3, <1>5

\* A report ends the holding of a proxy, whatever it says.
LEMMA ReportPool ==
    ASSUME PoolP!PoolInv, NEW w \in Workers,
           (\E o : ReportFor(w, o)) \/ Pool!ReportNeutral(w)
    PROVE  /\ PoolP!PoolInv' /\ got[w] # None /\ got' = [got EXCEPT ![w] = None]
           /\ mu' = mu
<1>1. PoolP!ReportOutcome(w)
  BY Reporting DEF ReportFor, PoolP!ReportOutcome
<1>2. PoolP!PoolInv'
  BY <1>1, PoolP!ReportOutcomeInv, PoolConstants
<1>3. PoolP!Reports(w)
  BY <1>1 DEF PoolP!ReportOutcome, PoolP!ReportSuccess, PoolP!ReportNeutral,
              PoolP!ReportFailure, PoolP!ReportBlocked, PoolP!ReportRateLimited
<1> QED BY <1>2, <1>3 DEF PoolP!Reports

\* Time passes for the pool as in ProxyPool.
LEMMA TickPool ==
    ASSUME PoolP!PoolInv, Pool!Tick
    PROVE  PoolP!PoolInv' /\ UNCHANGED <<got, mu>> /\ PoolP!Tick
<1>1. PoolP!Tick
  BY DEF Pool!Tick, PoolP!Tick
<1> QED BY <1>1, PoolP!TickInv, PoolConstants DEF PoolP!Tick
-----------------------------------------------------------------------------
\* Workers are finite in number, so the busy ones can be counted.
LEMMA BusyFinite == IsFiniteSet(Busy) /\ Cardinality(Busy) \in Nat
<1>1. IsFiniteSet(Busy)
  BY HarvesterAssumption, FS_Subset DEF Busy
<1> QED BY <1>1, FS_CardinalityType

\* A worker that goes on with its job, or takes one, or ends one.
LEMMA BusyMoves ==
    ASSUME JobShapes, NEW w \in Workers, NEW l, pc' = [pc EXCEPT ![w] = l]
    PROVE  /\ (pc[w] \in Idle) /\ (l \in Idle) => Cardinality(Busy') = Cardinality(Busy)
           /\ (pc[w] \notin Idle) /\ (l \notin Idle) => Cardinality(Busy') = Cardinality(Busy)
           /\ (pc[w] \in Idle) /\ (l \notin Idle) => Cardinality(Busy') = Cardinality(Busy) + 1
           /\ (pc[w] \notin Idle) /\ (l \in Idle) => Cardinality(Busy') = Cardinality(Busy) - 1
<1>1. \A v \in Workers : pc'[v] = IF v = w THEN l ELSE pc[v]
  BY DEF JobShapes
<1>2. CASE (pc[w] \in Idle) <=> (l \in Idle)
  <2>1. Busy' = Busy
    BY <1>1, <1>2 DEF Busy, Idle
  <2> QED BY <1>2, <2>1
<1>3. CASE pc[w] \in Idle /\ l \notin Idle
  <2>1. Busy' = Busy \cup {w} /\ w \notin Busy
    BY <1>1, <1>3 DEF Busy, Idle
  <2>2. Cardinality(Busy') = Cardinality(Busy) + 1
    BY <2>1, BusyFinite, FS_AddElement
  <2> QED BY <1>3, <2>2
<1>4. CASE pc[w] \notin Idle /\ l \in Idle
  <2>1. Busy' = Busy \ {w} /\ w \in Busy
    BY <1>1, <1>4 DEF Busy, Idle
  <2>2. Cardinality(Busy') = Cardinality(Busy) - 1
    BY <2>1, BusyFinite, FS_RemoveElement
  <2> QED BY <1>4, <2>2
<1> QED BY <1>2, <1>3, <1>4

\* A worker that neither takes nor gives back a proxy or the lock.
LEMMA SameHolding ==
    ASSUME JobShapes, Holding, NEW w \in Workers, NEW l, pc' = [pc EXCEPT ![w] = l],
           (l \in Holds) <=> (pc[w] \in Holds), (l = "scan") <=> (pc[w] = "scan"),
           UNCHANGED <<got, mu>>
    PROVE  Holding'
  BY DEF JobShapes, Holding

\* A worker that gives its proxy back.
LEMMA GivesBack ==
    ASSUME PoolP!PoolInv, JobShapes, Holding, NEW w \in Workers, NEW l,
           pc' = [pc EXCEPT ![w] = l], l \notin Holds, l # "scan", pc[w] # "scan",
           got' = [got EXCEPT ![w] = None], mu' = mu
    PROVE  Holding'
  BY PoolShapes DEF JobShapes, Holding

\* A step of a worker that goes on with its job keeps the counts.
LEMMA GoesOn ==
    ASSUME HarvesterInv, NEW w \in Workers, NEW l, pc' = [pc EXCEPT ![w] = l],
           pc[w] \notin Idle, l \notin Idle,
           UNCHANGED <<ctxDone, sourceVars, metrics>>,
           inTime' = inTime \/ (l # "report" /\ inTime' = inTime \ {w}),
           \A v \in Workers : v # w => outcome'[v] = outcome[v],
           l = "report" /\ ctxDone => outcome'[w] \in {"success", "canceled"},
           JobShapes', Holding', PoolP!PoolInv'
    PROVE  HarvesterInv'
<1>1. \A v \in Workers : pc'[v] = IF v = w THEN l ELSE pc[v]
  BY DEF HarvesterInv, JobShapes
<1>2. Cardinality(Busy') = Cardinality(Busy)
  BY BusyMoves DEF HarvesterInv
<1>3. EveryJobCounted'
  BY <1>2 DEF HarvesterInv, EveryJobCounted, sourceVars, metrics
<1>4. Counters'
  BY DEF HarvesterInv, Counters, sourceVars, metrics
<1>5. SourceDrained'
  BY <1>1 DEF HarvesterInv, SourceDrained, sourceVars, Idle
<1>6. LateOutcomes'
  BY <1>1 DEF HarvesterInv, LateOutcomes
<1> QED BY <1>3, <1>4, <1>5, <1>6 DEF HarvesterInv

\* A job that ends is counted once: as a success or as dropped
\* (worker/pool.go:110-131, 215-222).
LEMMA JobOver ==
    ASSUME HarvesterInv, NEW w \in Workers, pc[w] \notin Idle, pc[w] # "scan", JobEnds(w),
           \/ success' = success + 1 /\ dropped' = dropped
           \/ success' = success /\ dropped' = dropped + 1,
           UNCHANGED <<ctxDone, inTime, sourceVars>>,
           \/ pc[w] \notin Holds /\ UNCHANGED poolVars
           \/ PoolP!PoolInv' /\ got' = [got EXCEPT ![w] = None] /\ mu' = mu
    PROVE  HarvesterInv'
<1>1. pc' = [pc EXCEPT ![w] = "select"]
  BY DEF JobEnds, Goto
<1>2. \A v \in Workers : pc'[v] = IF v = w THEN "select" ELSE pc[v]
  BY <1>1 DEF HarvesterInv, JobShapes
<1>3. JobShapes'
  <2>1. 0 \in 0..MaxRetries /\ 0 \in 0..MaxProxyWait
    BY HarvesterAssumption
  <2>2. "select" \in Locations /\ "none" \in FetchOutcomes \cup {"canceled", "none"}
    BY DEF Locations
  <2> QED BY <1>1, <2>1, <2>2, NoneIsNobody DEF HarvesterInv, JobShapes, JobEnds
<1>4. PoolP!PoolInv' /\ Holding'
  <2>1. CASE pc[w] \notin Holds /\ UNCHANGED poolVars
    <3>1. UNCHANGED <<got, mu>>
      BY <2>1 DEF poolVars
    <3> QED BY <1>1, <2>1, <3>1, PoolAlone, SameHolding DEF HarvesterInv, Holds
  <2>2. CASE PoolP!PoolInv' /\ got' = [got EXCEPT ![w] = None] /\ mu' = mu
    BY <1>1, <2>2, GivesBack DEF HarvesterInv, Holds
  <2> QED BY <2>1, <2>2
<1>5. Cardinality(Busy') = Cardinality(Busy) - 1
  BY <1>1, BusyMoves DEF HarvesterInv, Idle
<1>6. EveryJobCounted' /\ Counters'
  BY <1>5, BusyFinite DEF HarvesterInv, EveryJobCounted, Counters, sourceVars
<1>7. SourceDrained' /\ LateOutcomes'
  BY <1>2 DEF HarvesterInv, JobShapes, SourceDrained, LateOutcomes, sourceVars, JobEnds
<1> QED BY <1>3, <1>4, <1>6, <1>7 DEF HarvesterInv

\* The next attempt keeps the job, the last one drops it
\* (worker/pool.go:182-256).
LEMMA NextAttemptInv ==
    ASSUME HarvesterInv, NEW w \in Workers, NEW b, pc[w] \notin Idle, pc[w] # "scan",
           pc[w] \notin Holds, NextAttempt(w, b),
           UNCHANGED <<poolVars, limiterVars, ctxDone, inTime, sourceVars>>
    PROVE  HarvesterInv'
<1>1. UNCHANGED poolVars /\ UNCHANGED <<ctxDone, inTime, sourceVars>> /\ UNCHANGED <<got, mu>>
  BY DEF poolVars
<1>2. CASE ~MoreAttempts(w)
  BY <1>1, <1>2, JobOver DEF NextAttempt, Dropped
<1>3. CASE MoreAttempts(w)
  <2>1. PICK l \in {"next", "backoff"} : pc' = [pc EXCEPT ![w] = l]
    BY <1>3 DEF NextAttempt, Goto
  <2>2. attempt[w] + 1 \in 0..MaxRetries /\ MaxProxyWait \in 0..MaxProxyWait
        /\ 0 \in 0..MaxProxyWait
    BY <1>3, HarvesterAssumption DEF MoreAttempts, HarvesterInv, JobShapes
  <2>3. JobShapes'
    <3>1. l \in Locations /\ "none" \in FetchOutcomes \cup {"canceled", "none"}
      BY DEF Locations
    <3>2. attempt' = [attempt EXCEPT ![w] = attempt[w] + 1]
      BY <1>3 DEF NextAttempt, HarvesterInv, JobShapes
    <3>3. wait' \in [Workers -> 0..MaxProxyWait]
      BY <1>3, <2>2 DEF NextAttempt, HarvesterInv, JobShapes
    <3> QED BY <1>3, <2>1, <2>2, <3>1, <3>2, <3>3, NoneIsNobody
            DEF NextAttempt, HarvesterInv, JobShapes
  <2>4. Holding' /\ PoolP!PoolInv'
    BY <1>1, <2>1, SameHolding, PoolAlone DEF HarvesterInv, Holds
  <2>5. UNCHANGED metrics /\ \A v \in Workers : v # w => outcome'[v] = outcome[v]
    BY <1>3 DEF NextAttempt, HarvesterInv, JobShapes
  <2> QED BY <1>1, <2>1, <2>3, <2>4, <2>5, GoesOn DEF Idle
<1> QED BY <1>2, <1>3
-----------------------------------------------------------------------------
\* The source sends, closes and is canceled (queue/queue.go:50-63).
LEMMA SourceInv ==
    ASSUME HarvesterInv, SourceSend \/ SourceClose \/ Cancel PROVE HarvesterInv'
<1>1. UNCHANGED poolVars /\ UNCHANGED <<got, mu>> /\ UNCHANGED pc /\ UNCHANGED jobVars
      /\ UNCHANGED metrics /\ taken' = taken
  BY DEF SourceSend, SourceClose, Cancel, poolVars, sourceVars
<1>2. JobShapes' /\ Holding' /\ PoolP!PoolInv'
  BY <1>1, PoolAlone DEF HarvesterInv, JobShapes, Holding, jobVars
<1>3. EveryJobCounted'
  BY <1>1 DEF HarvesterInv, EveryJobCounted, Busy, metrics
<1>4. Counters'
  BY <1>1, HarvesterAssumption
  DEF HarvesterInv, Counters, metrics, SourceSend, SourceClose, Cancel, sourceVars
<1>5. SourceDrained'
  BY <1>1 DEF HarvesterInv, SourceDrained, SourceSend, SourceClose, SourceFinished,
              Cancel, sourceVars
<1>6. LateOutcomes'
  BY <1>1 DEF HarvesterInv, LateOutcomes, SourceSend, SourceClose, Cancel, jobVars
<1> QED BY <1>2, <1>3, <1>4, <1>5, <1>6 DEF HarvesterInv

\* A worker takes a job (worker/pool.go:89-100).
LEMMA ReceiveJobInv ==
    ASSUME HarvesterInv, NEW w \in Workers, ReceiveJob(w) PROVE HarvesterInv'
<1>1. UNCHANGED poolVars /\ UNCHANGED <<got, mu>>
  BY DEF ReceiveJob, poolVars
<1>2. pc' = [pc EXCEPT ![w] = "next"] /\ pc[w] = "select"
  BY DEF ReceiveJob, Goto
<1>3. \A v \in Workers : pc'[v] = IF v = w THEN "next" ELSE pc[v]
  BY <1>2 DEF HarvesterInv, JobShapes
<1>4. Holding' /\ PoolP!PoolInv'
  BY <1>1, <1>2, SameHolding, PoolAlone DEF HarvesterInv, Holds
<1>5. JobShapes'
  <2>1. 0 \in 0..MaxRetries /\ MaxProxyWait \in 0..MaxProxyWait /\ "next" \in Locations
    BY HarvesterAssumption DEF Locations
  <2> QED BY <1>2, <2>1 DEF ReceiveJob, HarvesterInv, JobShapes
<1>6. Cardinality(Busy') = Cardinality(Busy) + 1
  <2>1. pc[w] \in Idle /\ "next" \notin Idle /\ JobShapes
    BY <1>2 DEF HarvesterInv, Idle
  <2> QED BY <1>2, <2>1, BusyMoves
<1>7. EveryJobCounted' /\ Counters'
  BY <1>6, BusyFinite, HarvesterAssumption
  DEF ReceiveJob, HarvesterInv, EveryJobCounted, Counters, metrics
<1>8. SourceDrained' /\ LateOutcomes'
  BY <1>3, HarvesterAssumption
  DEF ReceiveJob, HarvesterInv, SourceDrained, LateOutcomes, Counters
<1> QED BY <1>4, <1>5, <1>7, <1>8 DEF HarvesterInv

\* A worker returns (worker/pool.go:91-98).
LEMMA WorkerReturnsInv ==
    ASSUME HarvesterInv, NEW w \in Workers, WorkerReturns(w) PROVE HarvesterInv'
<1>1. UNCHANGED poolVars /\ UNCHANGED <<got, mu>>
  BY DEF WorkerReturns, poolVars
<1>2. pc' = [pc EXCEPT ![w] = "exit"] /\ pc[w] = "select"
  BY DEF WorkerReturns, Goto
<1>3. \A v \in Workers : pc'[v] = IF v = w THEN "exit" ELSE pc[v]
  BY <1>2 DEF HarvesterInv, JobShapes
<1>4. Holding' /\ PoolP!PoolInv'
  BY <1>1, <1>2, SameHolding, PoolAlone DEF HarvesterInv, Holds
<1>5. JobShapes'
  BY <1>2 DEF WorkerReturns, HarvesterInv, JobShapes, jobVars, Locations
<1>6. Cardinality(Busy') = Cardinality(Busy)
  BY <1>2, BusyMoves DEF HarvesterInv, Idle
<1>7. EveryJobCounted' /\ Counters'
  BY <1>6 DEF WorkerReturns, HarvesterInv, EveryJobCounted, Counters, metrics, sourceVars
<1>8. SourceDrained' /\ LateOutcomes'
  BY <1>3 DEF WorkerReturns, HarvesterInv, SourceDrained, LateOutcomes, NoMoreJobs,
              jobVars, sourceVars
<1> QED BY <1>4, <1>5, <1>7, <1>8 DEF HarvesterInv

\* The backoff before a retry (worker/pool.go:190-196).
LEMMA BackoffInv ==
    ASSUME HarvesterInv, NEW w \in Workers, Backoff(w) PROVE HarvesterInv'
<1>1. UNCHANGED poolVars /\ UNCHANGED <<got, mu>> /\ UNCHANGED <<ctxDone, inTime, sourceVars>>
  BY DEF Backoff, poolVars
<1>2. pc[w] = "backoff"
  BY DEF Backoff
<1>3. CASE Canceled(w)
  BY <1>1, <1>2, <1>3, JobOver DEF Canceled, Idle, Holds
<1>4. CASE /\ Goto(w, "next") /\ wait' = [wait EXCEPT ![w] = MaxProxyWait]
           /\ UNCHANGED <<attempt, sleep, key, outcome, metrics>>
  <2>1. pc' = [pc EXCEPT ![w] = "next"]
    BY <1>4 DEF Goto
  <2>2. Holding' /\ PoolP!PoolInv'
    BY <1>1, <1>2, <2>1, SameHolding, PoolAlone DEF HarvesterInv, Holds
  <2>3. JobShapes'
    BY <1>4, <2>1, HarvesterAssumption DEF HarvesterInv, JobShapes, Locations
  <2> QED BY <1>1, <1>2, <1>4, <2>1, <2>2, <2>3, GoesOn DEF Idle
<1> QED BY <1>3, <1>4 DEF Backoff

\* nextProxy calls Next (worker/pool.go:268-275).
LEMMA CallNextInv ==
    ASSUME HarvesterInv, NEW w \in Workers, CallNext(w) PROVE HarvesterInv'
<1>1. UNCHANGED jobVars /\ UNCHANGED <<ctxDone, inTime, sourceVars, metrics>>
  BY DEF CallNext
<1>2. pc' = [pc EXCEPT ![w] = "scan"] /\ pc[w] = "next"
  BY DEF CallNext, Goto
<1>3. PoolP!PoolInv' /\ mu = None /\ mu' = w /\ got' = got
  BY CallNextPool DEF CallNext, HarvesterInv
<1>4. Holding'
  BY <1>2, <1>3, NoneIsNobody DEF HarvesterInv, JobShapes, Holding, Holds
<1>5. JobShapes'
  BY <1>1, <1>2 DEF HarvesterInv, JobShapes, jobVars, Locations
<1> QED BY <1>1, <1>2, <1>3, <1>4, <1>5, GoesOn DEF Idle, jobVars

\* Next looks at one proxy (proxy/pool.go:261-330).
LEMMA ScanProxiesInv ==
    ASSUME HarvesterInv, NEW w \in Workers, ScanProxies(w) PROVE HarvesterInv'
<1>1. UNCHANGED <<attempt, wait, sleep, outcome, ctxDone, inTime, sourceVars, metrics>>
  BY DEF ScanProxies
<1>2. /\ PoolP!PoolInv' /\ mu = w
      /\ \/ mu' = w /\ got' = got
         \/ mu' = None /\ got' = [got EXCEPT ![w] = got'[w]]
      /\ url' = url
  BY InspectPool DEF ScanProxies, HarvesterInv
<1>3. url \in [Objects -> URLs] /\ got' \in [Workers -> Objects \cup {None}]
  <2>1. url \in [Objects -> URLs]
    BY PoolShapes DEF HarvesterInv
  <2>2. got' \in [Workers -> Objects \cup {None}]
    BY <1>2 DEF PoolP!PoolInv, PoolP!PoolTypeOK
  <2> QED BY <2>1, <2>2
<1>4. PICK l : /\ pc' = [pc EXCEPT ![w] = l]
               /\ l = IF mu' = w THEN "scan" ELSE IF got'[w] # None THEN "limit" ELSE "allBanned"
  BY DEF ScanProxies, Goto
<1>5. l \in {"scan", "limit", "allBanned"}
  BY <1>4
<1>6. pc[w] = "scan"
  BY DEF ScanProxies
<1>7. Holding'
  <2>1. mu' # w => mu' = None
    BY <1>2
  <2>2. \A v \in Workers : v # w => got'[v] = got[v] /\ mu' # v /\ mu # v
    BY <1>2, PoolShapes, NoneIsNobody DEF HarvesterInv
  <2>3. \A v \in Workers : pc'[v] = IF v = w THEN l ELSE pc[v]
    BY <1>4 DEF HarvesterInv, JobShapes
  <2>4. mu' = w => got'[w] = None
    BY <1>2, <1>6, NoneIsNobody DEF HarvesterInv, Holding, Holds
  <2> QED BY <1>4, <2>2, <2>3, <2>4 DEF HarvesterInv, Holding, Holds
<1>8. JobShapes'
  <2>1. key' \in [Workers -> URLs]
    <3>1. (IF got'[w] # None THEN url[got'[w]] ELSE Direct) \in URLs
      BY <1>3, NoneIsNobody
    <3> QED BY <3>1 DEF ScanProxies, HarvesterInv, JobShapes
  <2> QED BY <1>1, <1>4, <1>5, <2>1 DEF HarvesterInv, JobShapes, Locations
<1> QED BY <1>1, <1>2, <1>4, <1>5, <1>6, <1>7, <1>8, GoesOn DEF Idle

\* nextProxy when every proxy is cooling (worker/pool.go:276-290).
LEMMA AllBannedInv ==
    ASSUME HarvesterInv, NEW w \in Workers, AllBanned(w) PROVE HarvesterInv'
<1>1. UNCHANGED <<poolVars, limiterVars, ctxDone, inTime, sourceVars>> /\ UNCHANGED poolVars
      /\ UNCHANGED <<got, mu>> /\ UNCHANGED <<ctxDone, inTime, sourceVars>>
  BY DEF AllBanned, poolVars
<1>2. pc[w] = "allBanned" /\ pc[w] \notin Idle /\ pc[w] \notin Holds /\ pc[w] # "scan"
  BY DEF AllBanned, Idle, Holds
<1>3. ASSUME NEW l \in {"next", "cooldown"}, pc' = [pc EXCEPT ![w] = l], JobShapes',
             outcome' = outcome, UNCHANGED metrics
      PROVE  HarvesterInv'
  <2>1. Holding' /\ PoolP!PoolInv'
    BY <1>1, <1>2, <1>3, SameHolding, PoolAlone DEF HarvesterInv, Holds
  <2> QED BY <1>1, <1>2, <1>3, <2>1, GoesOn DEF Idle
<1>4. CASE Goto(w, "next") /\ UNCHANGED <<jobVars, metrics>>
  <2>1. JobShapes'
    BY <1>4 DEF HarvesterInv, JobShapes, jobVars, Goto, Locations
  <2> QED BY <1>3, <1>4, <2>1 DEF Goto, jobVars
<1>5. CASE ctxDone /\ Canceled(w)
  BY <1>1, <1>2, <1>5, JobOver DEF Canceled
<1>6. CASE NextAttempt(w, FALSE)
  BY <1>1, <1>2, <1>6, NextAttemptInv
<1>7. ASSUME NEW at, at \in 1..wait[w], sleep' = [sleep EXCEPT ![w] = at],
             Goto(w, "cooldown"), UNCHANGED <<attempt, wait, key, outcome, metrics>>
      PROVE  HarvesterInv'
  <2>1. at \in 0..MaxProxyWait
    BY <1>7, HarvesterAssumption DEF HarvesterInv, JobShapes
  <2>2. JobShapes'
    BY <1>7, <2>1 DEF HarvesterInv, JobShapes, Goto, Locations
  <2> QED BY <1>3, <1>7, <2>2 DEF Goto
<1> QED BY <1>4, <1>5, <1>6, <1>7 DEF AllBanned

\* The sleep until a cooldown ends (worker/pool.go:284-289).
LEMMA WaitCooldownInv ==
    ASSUME HarvesterInv, NEW w \in Workers, WaitCooldown(w) PROVE HarvesterInv'
<1>1. UNCHANGED poolVars /\ UNCHANGED <<got, mu>> /\ UNCHANGED <<ctxDone, inTime, sourceVars>>
  BY DEF WaitCooldown, poolVars
<1>2. pc[w] = "cooldown" /\ pc[w] \notin Idle /\ pc[w] \notin Holds /\ pc[w] # "scan"
  BY DEF WaitCooldown, Idle, Holds
<1>3. CASE Canceled(w)
  BY <1>1, <1>2, <1>3, JobOver DEF Canceled
<1>4. CASE Goto(w, "next") /\ UNCHANGED <<jobVars, metrics>>
  <2>1. pc' = [pc EXCEPT ![w] = "next"] /\ outcome' = outcome /\ UNCHANGED metrics
    BY <1>4 DEF Goto, jobVars
  <2>2. JobShapes'
    BY <1>4 DEF HarvesterInv, JobShapes, jobVars, Goto, Locations
  <2>3. Holding' /\ PoolP!PoolInv'
    BY <1>1, <1>2, <2>1, SameHolding, PoolAlone DEF HarvesterInv, Holds
  <2> QED BY <1>1, <1>2, <2>1, <2>2, <2>3, GoesOn DEF Idle
<1> QED BY <1>3, <1>4 DEF WaitCooldown

\* The wait for the rate limiter (worker/pool.go:207-213).
LEMMA LimiterWaitInv ==
    ASSUME HarvesterInv, NEW w \in Workers, LimiterWait(w) PROVE HarvesterInv'
<1>1. UNCHANGED <<ctxDone, inTime, sourceVars>>
  BY DEF LimiterWait
<1>2. pc[w] = "limit" /\ pc[w] \notin Idle /\ pc[w] \in Holds /\ pc[w] # "scan"
  BY DEF LimiterWait, Idle, Holds
<1>3. CASE Canceled(w) /\ Pool!ReportNeutral(w)
  <2>1. PoolP!PoolInv' /\ got' = [got EXCEPT ![w] = None] /\ mu' = mu
    BY <1>3, ReportPool DEF HarvesterInv
  <2> QED BY <1>1, <1>2, <1>3, <2>1, JobOver DEF Canceled
<1>4. CASE Goto(w, "fetch") /\ UNCHANGED <<poolVars, jobVars, metrics>>
  <2>1. /\ pc' = [pc EXCEPT ![w] = "fetch"] /\ outcome' = outcome /\ UNCHANGED metrics
        /\ UNCHANGED poolVars /\ UNCHANGED <<got, mu>>
    BY <1>4 DEF Goto, jobVars, poolVars
  <2>2. JobShapes'
    BY <1>4 DEF HarvesterInv, JobShapes, jobVars, Goto, Locations
  <2>3. Holding' /\ PoolP!PoolInv'
    BY <1>2, <2>1, SameHolding, PoolAlone DEF HarvesterInv, Holds
  <2> QED BY <1>1, <1>2, <2>1, <2>2, <2>3, GoesOn DEF Idle
<1> QED BY <1>3, <1>4 DEF LimiterWait

\* The fetch returns (worker/pool.go:215-231).
LEMMA FetchReturnsInv ==
    ASSUME HarvesterInv, NEW w \in Workers, FetchReturns(w) PROVE HarvesterInv'
<1>1. UNCHANGED <<ctxDone, inTime, sourceVars, metrics>> /\ UNCHANGED poolVars
      /\ UNCHANGED <<got, mu>>
  BY DEF FetchReturns, poolVars
<1>2. pc[w] = "fetch" /\ pc' = [pc EXCEPT ![w] = "report"]
  BY DEF FetchReturns, Goto
<1>3. PICK o \in Classified : outcome' = [outcome EXCEPT ![w] = o]
  BY DEF FetchReturns
<1>4. o \in FetchOutcomes \cup {"canceled", "none"}
  BY <1>3 DEF Classified, FetchOutcomes
<1>5. JobShapes'
  BY <1>2, <1>3, <1>4 DEF FetchReturns, HarvesterInv, JobShapes, Locations
<1>6. Holding' /\ PoolP!PoolInv'
  BY <1>1, <1>2, SameHolding, PoolAlone DEF HarvesterInv, Holds
<1>7. /\ \A v \in Workers : v # w => outcome'[v] = outcome[v]
      /\ ctxDone => outcome'[w] \in {"success", "canceled"}
  BY <1>3 DEF HarvesterInv, JobShapes, Classified
<1> QED BY <1>1, <1>2, <1>5, <1>6, <1>7, GoesOn DEF Idle

\* The report to the pool (worker/pool.go:317-337).
LEMMA ReportResultInv ==
    ASSUME HarvesterInv, NEW w \in Workers, ReportResult(w) PROVE HarvesterInv'
<1>1. UNCHANGED <<ctxDone, sourceVars, metrics>> /\ UNCHANGED jobVars
      /\ inTime' = inTime \ {w}
  BY DEF ReportResult
<1>2. pc[w] = "report"
  BY DEF ReportResult
<1>3. PICK l \in {"adapt", "result"} : pc' = [pc EXCEPT ![w] = l]
  BY DEF ReportResult, Goto
<1>4. PoolP!PoolInv' /\ got' = [got EXCEPT ![w] = None] /\ mu' = mu
  BY ReportPool DEF HarvesterInv, ReportResult
<1>5. JobShapes'
  BY <1>1, <1>3 DEF HarvesterInv, JobShapes, jobVars, Locations
<1>6. Holding'
  BY <1>2, <1>3, <1>4, GivesBack DEF HarvesterInv, Holds
<1> QED BY <1>1, <1>2, <1>3, <1>4, <1>5, <1>6, GoesOn DEF Idle, jobVars

\* Reward or Penalize (worker/pool.go:338-352).
LEMMA AdaptInv ==
    ASSUME HarvesterInv, NEW w \in Workers, AdaptRead(w) \/ AdaptWrite(w)
    PROVE  HarvesterInv'
<1>1. UNCHANGED <<ctxDone, sourceVars, metrics>> /\ UNCHANGED jobVars /\ inTime' = inTime
      /\ UNCHANGED poolVars /\ UNCHANGED <<got, mu>>
  BY DEF AdaptRead, AdaptWrite, poolVars
<1>2. pc[w] \in {"adapt", "setLimit"}
  BY DEF AdaptRead, AdaptWrite
<1>3. PICK l \in {"setLimit", "result"} : pc' = [pc EXCEPT ![w] = l]
  BY DEF AdaptRead, AdaptWrite, Goto
<1>4. JobShapes'
  BY <1>1, <1>3 DEF HarvesterInv, JobShapes, jobVars, Locations
<1>5. Holding' /\ PoolP!PoolInv'
  BY <1>1, <1>2, <1>3, SameHolding, PoolAlone DEF HarvesterInv, Holds
<1> QED BY <1>1, <1>2, <1>3, <1>4, <1>5, GoesOn DEF Idle, jobVars

\* The end of an attempt (worker/pool.go:232-256, 110-131).
LEMMA ResultInv ==
    ASSUME HarvesterInv, NEW w \in Workers,
           FetchFailed(w) \/ UseFailed(w) \/ WriteResult(w)
    PROVE  HarvesterInv'
<1>1. UNCHANGED <<poolVars, limiterVars, ctxDone, inTime, sourceVars>> /\ UNCHANGED poolVars
      /\ UNCHANGED <<ctxDone, inTime, sourceVars>>
  BY DEF FetchFailed, UseFailed, WriteResult
<1>2. pc[w] = "result" /\ pc[w] \notin Idle /\ pc[w] \notin Holds /\ pc[w] # "scan"
  BY DEF FetchFailed, UseFailed, WriteResult, Idle, Holds
<1>3. CASE Dropped(w) \/ Canceled(w)
  BY <1>1, <1>2, <1>3, JobOver DEF Dropped, Canceled
<1>4. ASSUME NEW b, NextAttempt(w, b) PROVE HarvesterInv'
  BY <1>1, <1>2, <1>4, NextAttemptInv
<1>5. CASE WriteResult(w)
  BY <1>1, <1>2, <1>5, JobOver DEF WriteResult
<1>6. CASE FetchFailed(w)
  <2>1. Canceled(w) \/ NextAttempt(w, Pushback(outcome[w])) \/ Dropped(w)
    BY <1>6 DEF FetchFailed
  <2> QED BY <1>3, <1>4, <2>1
<1>7. CASE UseFailed(w)
  BY <1>4, <1>7 DEF UseFailed
<1> QED BY <1>5, <1>6, <1>7

\* Time passes for the sleeping workers too.
LEMMA ClockInv == ASSUME HarvesterInv, Tick PROVE HarvesterInv'
<1>1. PoolP!PoolInv' /\ UNCHANGED <<got, mu>>
  BY TickPool DEF Tick, HarvesterInv
<1>2. UNCHANGED <<pc, attempt, key, outcome, ctxDone, inTime, sourceVars, metrics>>
  BY DEF Tick
<1>3. ASSUME NEW f \in [Workers -> 0..MaxProxyWait] PROVE Less1(f) \in [Workers -> 0..MaxProxyWait]
  BY HarvesterAssumption DEF Less1
<1>4. JobShapes'
  BY <1>2, <1>3 DEF Tick, HarvesterInv, JobShapes
<1>5. Holding' /\ LateOutcomes' /\ SourceDrained'
  BY <1>1, <1>2 DEF HarvesterInv, Holding, LateOutcomes, SourceDrained, sourceVars
<1>6. EveryJobCounted' /\ Counters'
  BY <1>2 DEF HarvesterInv, EveryJobCounted, Busy, Counters, sourceVars, metrics
<1> QED BY <1>1, <1>4, <1>5, <1>6 DEF HarvesterInv
-----------------------------------------------------------------------------
\* Initially no job has been sent and no worker holds anything.
LEMMA HarvesterInitInv == Init => HarvesterInv
<1> SUFFICES ASSUME Init PROVE HarvesterInv
  OBVIOUS
<1> USE DEF Init
<1>1. PoolP!PoolInv
  BY PoolStarts, PoolP!PoolInitInv, PoolConstants
<1>2. JobShapes
  <2>1. 0 \in 0..MaxRetries /\ 0 \in 0..MaxProxyWait /\ "select" \in Locations
    BY HarvesterAssumption DEF Locations
  <2> QED BY <2>1, NoneIsNobody DEF JobShapes
<1>3. Holding
  BY NoneIsNobody DEF Holding, Holds, Pool!PoolInit
<1>4. Counters /\ SourceDrained /\ LateOutcomes
  BY HarvesterAssumption DEF Counters, SourceDrained, LateOutcomes
<1>5. EveryJobCounted
  <2>1. Busy = {}
    BY DEF Busy
  <2> QED BY <2>1, FS_EmptySet DEF EveryJobCounted
<1> QED BY <1>1, <1>2, <1>3, <1>4, <1>5 DEF HarvesterInv

\* Every step keeps the inductive invariant.
LEMMA HarvesterStep == HarvesterInv /\ [Next]_vars => HarvesterInv'
<1> SUFFICES ASSUME HarvesterInv, [Next]_vars PROVE HarvesterInv'
  OBVIOUS
<1>1. CASE UNCHANGED vars
  <2>1. UNCHANGED poolVars /\ UNCHANGED <<got, mu>> /\ UNCHANGED pc /\ UNCHANGED jobVars
        /\ UNCHANGED <<ctxDone, inTime, sourceVars, metrics>>
    BY <1>1 DEF vars, poolVars
  <2>2. PoolP!PoolInv'
    BY <2>1, PoolAlone DEF HarvesterInv
  <2> QED BY <2>1, <2>2
      DEF HarvesterInv, JobShapes, Holding, Counters, EveryJobCounted, Busy, SourceDrained,
          LateOutcomes, jobVars, sourceVars, metrics
<1>2. CASE SourceSend \/ SourceClose \/ Cancel
  BY <1>2, SourceInv
<1>3. CASE Tick
  BY <1>3, ClockInv
<1>4. ASSUME NEW w \in Workers, WorkerStep(w) PROVE HarvesterInv'
  BY <1>4, ReceiveJobInv, WorkerReturnsInv, BackoffInv, CallNextInv, ScanProxiesInv,
     AllBannedInv, WaitCooldownInv, LimiterWaitInv, FetchReturnsInv, ReportResultInv,
     AdaptInv, ResultInv
  DEF WorkerStep
<1> QED BY <1>1, <1>2, <1>3, <1>4 DEF Next, Finished

\* The inductive invariant holds throughout.
LEMMA HarvesterInvariant == Spec => []HarvesterInv
  BY HarvesterInitInv, HarvesterStep, PTL DEF Spec

(***************************************************************************)
(* For every number of workers, retries and proxies a worker holds a proxy *)
(* exactly from the hand-out to its report and pl.mu exactly while it      *)
(* scans, and no job is lost between source, channel and workers           *)
(* (worker/pool.go:182-256).                                               *)
(***************************************************************************)
THEOREM HarvesterTypeCorrect == Spec => []TypeOK
<1>1. HarvesterInv => TypeOK
  BY DEF HarvesterInv, JobShapes, Holding, Holds, Counters, TypeOK
<1> QED BY <1>1, HarvesterInvariant, PTL

(***************************************************************************)
(* Every job taken is counted exactly once, whatever interrupts it         *)
(* (metrics.go:63-66, worker/pool.go:215-222).                             *)
(***************************************************************************)
THEOREM JobsAreCounted == Spec => []EveryJobCounted
<1>1. HarvesterInv => EveryJobCounted
  BY DEF HarvesterInv
<1> QED BY <1>1, HarvesterInvariant, PTL

(***************************************************************************)
(* With at least one worker a run that is not canceled leaves no query     *)
(* untaken or uncounted (worker/pool.go:73-86).  Without one Run returns   *)
(* at once: the configuration is not checked for a positive concurrency.   *)
(***************************************************************************)
THEOREM RunLeavesNothing ==
    ASSUME Workers # {} PROVE Spec => []NothingLeftBehind
<1>1. HarvesterInv => NothingLeftBehind
  <2> SUFFICES ASSUME HarvesterInv, Returned, ~ctxDone PROVE success + dropped = Queries
    BY DEF NothingLeftBehind
  <2>1. unsent = 0 /\ buffered = 0
    BY DEF HarvesterInv, SourceDrained, Returned
  <2>2. Busy = {}
    BY DEF Busy, Returned
  <2>3. Cardinality(Busy) = 0
    BY <2>2, FS_EmptySet
  <2> QED BY <2>1, <2>3, HarvesterAssumption DEF HarvesterInv, Counters, EveryJobCounted
<1> QED BY <1>1, HarvesterInvariant, PTL

-----------------------------------------------------------------------------
\* A success or a cancellation reported brings no proxy closer to a cooldown
\* (worker/pool.go:227-231, proxy/pool.go:362-367).
LEMMA LateReportSpares ==
    ASSUME PoolP!PoolInv, NEW w \in Workers, NEW o \in {"success", "canceled"},
           ReportFor(w, o) \/ Pool!ReportNeutral(w), NEW x \in Objects
    PROVE  fails'[x] <= fails[x] /\ streak'[x] <= streak[x] /\ cool'[x] <= cool[x]
<1>1. /\ fails \in [Objects -> Nat] /\ cool \in [Objects -> Nat]
      /\ streak \in [Objects -> Nat]
  BY PoolShapes
<1>2. CASE Pool!ReportSuccess(w)
  BY <1>1, <1>2 DEF Pool!ReportSuccess
<1>3. CASE Pool!ReportNeutral(w)
  BY <1>1, <1>3 DEF Pool!ReportNeutral
<1> QED BY <1>2, <1>3 DEF ReportFor

(***************************************************************************)
(* Shutdown is never held against a proxy: after ctx ended only the report *)
(* of a fetch that had returned before may count against one               *)
(* (worker/pool.go:227-231).                                               *)
(***************************************************************************)
THEOREM ProxiesAreSpared == Spec => ShutdownSparesProxies
<1> DEFINE Spares == ctxDone /\ inTime' = inTime => \A o \in Objects :
                        fails'[o] <= fails[o] /\ streak'[o] <= streak[o] /\ cool'[o] <= cool[o]
<1>1. HarvesterInv /\ [Next]_vars => [Spares]_vars
  <2> SUFFICES ASSUME HarvesterInv, Next, ctxDone, inTime' = inTime, NEW o \in Objects
               PROVE  fails'[o] <= fails[o] /\ streak'[o] <= streak[o] /\ cool'[o] <= cool[o]
    OBVIOUS
  <2>1. fails[o] \in Nat /\ streak[o] \in Nat /\ cool[o] \in Nat
    BY PoolShapes DEF HarvesterInv
  <2>2. CASE UNCHANGED <<fails, cool, streak>>
    BY <2>1, <2>2
  <2>3. CASE Tick
    BY <2>1, <2>3 DEF Tick, Pool!Tick
  <2>4. ASSUME NEW w \in Workers, ReportResult(w)
        PROVE  fails'[o] <= fails[o] /\ streak'[o] <= streak[o] /\ cool'[o] <= cool[o]
    <3>1. w \notin inTime /\ pc[w] = "report" /\ ReportFor(w, outcome[w])
      BY <2>4 DEF ReportResult
    <3>2. outcome[w] \in {"success", "canceled"}
      BY <3>1 DEF HarvesterInv, LateOutcomes
    <3> QED BY <3>1, <3>2, LateReportSpares DEF HarvesterInv
  <2>5. ASSUME NEW w \in Workers, LimiterWait(w)
        PROVE  fails'[o] <= fails[o] /\ streak'[o] <= streak[o] /\ cool'[o] <= cool[o]
    <3>1. CASE Pool!ReportNeutral(w)
      BY <3>1, LateReportSpares DEF HarvesterInv
    <3>2. CASE UNCHANGED poolVars
      BY <2>2, <3>2 DEF poolVars
    <3> QED BY <2>5, <3>1, <3>2 DEF LimiterWait
  <2>6. ASSUME NEW w \in Workers, CallNext(w) \/ ScanProxies(w)
        PROVE  UNCHANGED <<fails, cool, streak>>
    BY <2>6, InspectPool DEF CallNext, Pool!NextCall, ScanProxies, HarvesterInv
  <2>7. ASSUME NEW w \in Workers,
               \/ ReceiveJob(w) \/ WorkerReturns(w) \/ Backoff(w) \/ AllBanned(w)
               \/ WaitCooldown(w) \/ FetchReturns(w) \/ AdaptRead(w) \/ AdaptWrite(w)
               \/ FetchFailed(w) \/ UseFailed(w) \/ WriteResult(w)
        PROVE  UNCHANGED <<fails, cool, streak>>
    <3>1. UNCHANGED poolVars
      BY <2>7 DEF ReceiveJob, WorkerReturns, Backoff, AllBanned, WaitCooldown, FetchReturns,
                  AdaptRead, AdaptWrite, FetchFailed, UseFailed, WriteResult
    <3> QED BY <3>1 DEF poolVars
  <2>8. CASE SourceSend \/ SourceClose \/ Cancel \/ Finished
    <3>1. UNCHANGED poolVars
      BY <2>8 DEF SourceSend, SourceClose, Cancel, Finished, vars
    <3> QED BY <2>2, <3>1 DEF poolVars
  <2> QED BY <2>2, <2>3, <2>4, <2>5, <2>6, <2>7, <2>8 DEF Next, WorkerStep
<1> QED BY <1>1, HarvesterInvariant, PTL DEF Spec, ShutdownSparesProxies

-----------------------------------------------------------------------------
\* A step of the harvester is a step of the pool, by one worker, or leaves
\* the pool alone.
LEMMA PoolStepOrStutter == HarvesterInv /\ [Next]_vars => [Pool!PoolNext]_(Pool!poolVars)
<1> SUFFICES ASSUME HarvesterInv, [Next]_vars, ~UNCHANGED Pool!poolVars PROVE Pool!PoolNext
  OBVIOUS
<1>1. ~UNCHANGED poolVars
  BY DEF poolVars, Pool!poolVars
<1>2. ~UNCHANGED vars
  BY <1>1 DEF vars
<1>3. CASE Tick
  BY <1>3 DEF Tick, Pool!PoolNext
<1>4. CASE SourceSend \/ SourceClose \/ Cancel \/ Finished
  BY <1>1, <1>2, <1>4 DEF SourceSend, SourceClose, Cancel, Finished
<1>5. ASSUME NEW w \in Workers, WorkerStep(w) PROVE Pool!PoolNext
  <2>1. \/ CallNext(w) \/ ScanProxies(w) \/ ReportResult(w)
        \/ LimiterWait(w) /\ Pool!ReportNeutral(w)
    BY <1>1, <1>5 DEF WorkerStep, ReceiveJob, WorkerReturns, Backoff, AllBanned, WaitCooldown,
       LimiterWait, FetchReturns, AdaptRead, AdaptWrite, FetchFailed, UseFailed, WriteResult
  <2>2. CASE ReportResult(w)
    BY <2>2 DEF ReportResult, ReportFor, Pool!ReportOutcome, Pool!PoolNext
  <2> QED BY <2>1, <2>2 DEF CallNext, ScanProxies, Pool!ReportOutcome, Pool!PoolNext
<1> QED BY <1>2, <1>3, <1>4, <1>5 DEF Next

\* A step of the harvester is a step of the limiter or leaves it alone.
LEMMA LimiterStepOrStutter == HarvesterInv /\ [Next]_vars => [Lim!LimiterNext]_(Lim!limiterVars)
<1> SUFFICES ASSUME HarvesterInv, [Next]_vars, ~UNCHANGED Lim!limiterVars PROVE Lim!LimiterNext
  OBVIOUS
<1>1. ~UNCHANGED limiterVars
  BY DEF limiterVars, Lim!limiterVars
<1>2. ~UNCHANGED vars
  BY <1>1 DEF vars
<1>3. CASE Tick \/ SourceSend \/ SourceClose \/ Cancel \/ Finished
  BY <1>1, <1>2, <1>3 DEF Tick, SourceSend, SourceClose, Cancel, Finished
<1>4. ASSUME NEW w \in Workers, WorkerStep(w) PROVE Lim!LimiterNext
  <2>1. AdaptRead(w) \/ AdaptWrite(w)
    BY <1>1, <1>4 DEF WorkerStep, ReceiveJob, WorkerReturns, Backoff, CallNext, ScanProxies,
       AllBanned, WaitCooldown, LimiterWait, FetchReturns, ReportResult, FetchFailed,
       UseFailed, WriteResult
  <2>2. key[w] \in URLs
    BY DEF HarvesterInv, JobShapes
  <2> QED BY <2>1, <2>2 DEF AdaptRead, AdaptWrite, Lim!LimiterNext
<1> QED BY <1>2, <1>3, <1>4 DEF Next

(***************************************************************************)
(* The harvester implements both components: workers use the proxy pool    *)
(* only as ProxyPool allows (one Next at a time, at most one report per    *)
(* hand-out) and the limiter only as Limiter allows, so whatever holds of  *)
(* each alone holds of it here (worker/pool.go:182-256, 317-352).          *)
(***************************************************************************)
THEOREM ImplementsComponents == Spec => Pool!PoolSpec /\ Lim!LimiterSpec
<1>1. Init => Pool!PoolInit /\ Lim!LimiterInit
  BY DEF Init
<1> QED BY <1>1, PoolStepOrStutter, LimiterStepOrStutter, HarvesterInvariant, PTL
        DEF Spec, Pool!PoolSpec, Lim!LimiterSpec

(***************************************************************************)
(* In the running harvester no cooldown outgrows its bound and no key's    *)
(* rate falls below the floor (proxy/pool.go:393-421, limiter.go:73-75).   *)
(***************************************************************************)
THEOREM ComponentsKeepTheirWord == Spec => [](Pool!CooldownBounded /\ Lim!FloorHolds)
<1>1. HarvesterInv => Pool!CooldownBounded
  <2>1. Pool!MaxCooldown = PoolP!MaxCooldown
    BY DEF Pool!MaxCooldown, PoolP!MaxCooldown
  <2> QED BY <2>1 DEF HarvesterInv, PoolP!PoolInv, PoolP!CooldownBounded, Pool!CooldownBounded
<1>2. Lim!LimiterInit => LimP!LimiterInv
  <2>1. Lim!LimiterInit => LimP!LimiterInit
    BY DEF Lim!LimiterInit, LimP!LimiterInit, Lim!NoCall, LimP!NoCall
  <2> QED BY <2>1, LimP!LimiterInitInv, LimiterConstants
<1>3. LimP!LimiterInv /\ [Lim!LimiterNext]_(Lim!limiterVars) => LimP!LimiterInv'
  <2>1. [Lim!LimiterNext]_(Lim!limiterVars) => [LimP!LimiterNext]_(LimP!limiterVars)
    BY DEF Lim!LimiterNext, LimP!LimiterNext, Lim!limiterVars, LimP!limiterVars,
           Lim!PenalizeRead, LimP!PenalizeRead, Lim!RewardRead, LimP!RewardRead,
           Lim!SetLimit, LimP!SetLimit, Lim!NoCall, LimP!NoCall, Lim!Halved, LimP!Halved,
           Lim!Raised, LimP!Raised, Lim!MinRPS, LimP!MinRPS
  <2> QED BY <2>1, LimP!LimiterStep, LimiterConstants
<1>4. LimP!LimiterInv => Lim!FloorHolds
  BY DEF LimP!LimiterInv, LimP!FloorHolds, Lim!FloorHolds, Lim!MinRPS, LimP!MinRPS
<1>5. Init => Lim!LimiterInit
  BY DEF Init
<1> QED BY <1>1, <1>2, <1>3, <1>4, <1>5, LimiterStepOrStutter, HarvesterInvariant, PTL DEF Spec
=============================================================================
