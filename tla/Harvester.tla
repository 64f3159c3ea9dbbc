----------------------------- MODULE Harvester -----------------------------
(***************************************************************************)
(* One harvester process: the worker pool of internal/worker/pool.go fed   *)
(* by the MemorySource of internal/queue/queue.go, composed with the proxy *)
(* pool and the rate limiter its workers share.                            *)
(*                                                                         *)
(* A worker takes a job and runs Acquire on it: up to MaxRetries + 1       *)
(* attempts, each of which picks a proxy (waiting out cooldowns), waits    *)
(* for the rate limiter, fetches, feeds the classified result back to the  *)
(* proxy pool and the limiter, and either hands the response on or starts  *)
(* the next attempt.  ctx may be canceled at any time.                     *)
(*                                                                         *)
(* Jobs are counted, not named: no step looks at what a job asks for.  A   *)
(* fetch returns any classified outcome (Fetching says which).  How long   *)
(* the retry backoff and the limiter's wait last is left open; cooldowns   *)
(* and MaxProxyWait share the clock of ProxyPool.                          *)
(***************************************************************************)
EXTENDS Integers, Sequences, FiniteSets

CONSTANTS
    Workers, Objects, URLs, Direct, FirstLists, ReloadLists, Strategy,
    BanThreshold, BanCooldown, ConfigMaxCooldown, RetryAfters, MaxStreak, None,
    RPS, ConfigMin, Step, Adaptive,
    Queries,        \* number of jobs the source has
    Buffer,         \* capacity of the job channel
    MaxRetries,
    MaxProxyWait

ASSUME HarvesterAssumption ==
    /\ IsFiniteSet(Workers)
    /\ Queries \in Nat
    /\ Buffer \in Nat \ {0}
    /\ MaxRetries \in Nat
    /\ MaxProxyWait \in Nat

\* backoffDuration computes 2^attempt times 50 ms (390625 * 2^7 ns) in an
\* int64 before it caps the result at 2 s; rand.Int63n panics unless the
\* result is positive.  The sign is bit 63 of the product.
BackoffPositive(a) ==
    \/ a < 37
    \/ a \in 37..56 /\ 390625 % 2^(57 - a) < 2^(56 - a)

\* No retry of the configured number overflows; the first that would is the
\* 38th.  The configuration is not checked for this.
ASSUME BackoffAssumption ==
    /\ \A a \in 1..MaxRetries : BackoffPositive(a)
    /\ BackoffPositive(37) /\ ~BackoffPositive(38)

VARIABLES
    url, proxies, byURL, idx, fails, cool, streak, mu, scan, got,
    limit, call,
    pc,             \* pc[w]: where worker w is
    attempt,        \* attempt[w]: retry number of the current job
    wait,           \* wait[w]: time left to nextProxy's deadline
    sleep,          \* sleep[w]: rest of the sleep until a cooldown ends
    key,            \* key[w]: limiter key of the current attempt
    outcome,        \* outcome[w]: classified result of the last fetch
    ctxDone,        \* the run's context has ended
    inTime,         \* history: workers still to report a fetch that returned
                    \* before ctx ended
    unsent,         \* jobs the source has not sent
    buffered,       \* jobs in the channel
    closed,         \* the channel is closed
    taken,          \* jobs received by workers
    success,        \* metric: jobs counted as successes
    dropped         \* metric: jobs counted as dropped

Pool == INSTANCE ProxyPool
Lim == INSTANCE Limiter WITH Keys <- URLs

\* What the two components assume of their constants.
ASSUME PoolAssumption ==
    /\ Pool!ListsAssumption /\ Pool!StrategyAssumption /\ Pool!BanAssumption
    /\ Pool!MaxStreakAssumption /\ Pool!NoneAssumption
ASSUME LimAssumption ==
    /\ Lim!RPSAssumption /\ Lim!ConfigMinAssumption /\ Lim!StepAssumption
    /\ Lim!AdaptiveAssumption

poolVars == <<url, proxies, byURL, idx, fails, cool, streak, mu, scan, got>>
limiterVars == <<limit, call>>
jobVars == <<attempt, wait, sleep, key, outcome>>
sourceVars == <<unsent, buffered, closed, taken>>
metrics == <<success, dropped>>
vars == <<poolVars, limiterVars, pc, jobVars, ctxDone, inTime, sourceVars, metrics>>

FetchOutcomes ==
    {"success", "rate_limited", "blocked", "consent", "client_error", "failure"}

Retryable(o) == o \in {"rate_limited", "blocked", "consent", "failure"}
Pushback(o) == o \in {"rate_limited", "blocked"}

Init ==
    /\ Pool!PoolInit
    /\ Lim!LimiterInit
    /\ pc = [w \in Workers |-> "select"]
    /\ attempt = [w \in Workers |-> 0]
    /\ wait = [w \in Workers |-> 0]
    /\ sleep = [w \in Workers |-> 0]
    /\ key = [w \in Workers |-> Direct]
    /\ outcome = [w \in Workers |-> "none"]
    /\ ctxDone = FALSE
    /\ inTime = {}
    /\ unsent = Queries
    /\ buffered = 0
    /\ closed = FALSE
    /\ taken = 0
    /\ success = 0
    /\ dropped = 0

Goto(w, l) == pc' = [pc EXCEPT ![w] = l]
-----------------------------------------------------------------------------
\* MemorySource.Jobs: send every query, stop when ctx ends, close the channel.
SourceSend ==
    /\ unsent > 0 /\ ~closed
    /\ buffered < Buffer
    /\ unsent' = unsent - 1
    /\ buffered' = buffered + 1
    /\ UNCHANGED <<poolVars, limiterVars, pc, jobVars, ctxDone, inTime, closed, taken, metrics>>

SourceCloseOnCancelOnly == ctxDone
SourceFinished == unsent = 0 \/ ctxDone

SourceClose ==
    /\ ~closed
    /\ SourceFinished
    /\ closed' = TRUE
    /\ UNCHANGED <<poolVars, limiterVars, pc, jobVars, ctxDone, inTime, unsent, buffered,
                   taken, metrics>>

Cancel ==
    /\ ~ctxDone
    /\ ctxDone' = TRUE
    /\ inTime' = {w \in Workers : pc[w] = "report"}
    /\ UNCHANGED <<poolVars, limiterVars, pc, jobVars, sourceVars, metrics>>

\* runWorker's select: with both ready, Go picks either.
ReceiveJob(w) ==
    /\ pc[w] = "select"
    /\ buffered > 0
    /\ buffered' = buffered - 1
    /\ taken' = taken + 1
    /\ attempt' = [attempt EXCEPT ![w] = 0]
    /\ wait' = [wait EXCEPT ![w] = MaxProxyWait]
    /\ Goto(w, "next")
    /\ UNCHANGED <<poolVars, limiterVars, sleep, key, outcome, ctxDone, inTime, unsent, closed,
                   metrics>>

\* A closed channel still delivers what it buffers.
NoMoreJobsOnceClosed == closed
NoMoreJobs == closed /\ buffered = 0

WorkerReturns(w) ==
    /\ pc[w] = "select"
    /\ ctxDone \/ NoMoreJobs
    /\ Goto(w, "exit")
    /\ UNCHANGED <<poolVars, limiterVars, jobVars, ctxDone, inTime, sourceVars, metrics>>
-----------------------------------------------------------------------------
\* Acquire returned: the worker is back in its select.
JobEnds(w) ==
    /\ Goto(w, "select")
    /\ attempt' = [attempt EXCEPT ![w] = 0]
    /\ wait' = [wait EXCEPT ![w] = 0]
    /\ sleep' = [sleep EXCEPT ![w] = 0]
    /\ key' = [key EXCEPT ![w] = Direct]
    /\ outcome' = [outcome EXCEPT ![w] = "none"]

Dropped(w) ==
    /\ JobEnds(w)
    /\ dropped' = dropped + 1
    /\ UNCHANGED success

\* Acquire returns a DroppedError with Canceled set; process counts it too.
CanceledUncounted(w) ==
    /\ JobEnds(w)
    /\ UNCHANGED metrics

Canceled(w) ==
    /\ JobEnds(w)
    /\ dropped' = dropped + 1
    /\ UNCHANGED success

MoreAttemptsByOne(w) == attempt[w] <= MaxRetries
MoreAttempts(w) == attempt[w] < MaxRetries

\* continue in Acquire's loop: the next attempt, or the end of the retries.
NextAttempt(w, failover) ==
    IF MoreAttempts(w)
    THEN /\ attempt' = [attempt EXCEPT ![w] = @ + 1]
         /\ wait' = [wait EXCEPT ![w] = IF failover THEN MaxProxyWait ELSE 0]
         /\ sleep' = [sleep EXCEPT ![w] = 0]
         /\ key' = [key EXCEPT ![w] = Direct]
         /\ outcome' = [outcome EXCEPT ![w] = "none"]
         /\ Goto(w, IF failover THEN "next" ELSE "backoff")
         /\ UNCHANGED metrics
    ELSE Dropped(w)

Backoff(w) ==
    /\ pc[w] = "backoff"
    /\ BackoffPositive(attempt[w])
    /\ UNCHANGED <<poolVars, limiterVars, ctxDone, inTime, sourceVars>>
    /\ \/ Goto(w, "next") /\ wait' = [wait EXCEPT ![w] = MaxProxyWait]
          /\ UNCHANGED <<attempt, sleep, key, outcome, metrics>>
       \/ ctxDone /\ Canceled(w)
-----------------------------------------------------------------------------
\* nextProxy: ProxyPool.Next, one inspection at a time.
CallNext(w) ==
    /\ pc[w] = "next"
    /\ Pool!NextCall(w)
    /\ Goto(w, "scan")
    /\ UNCHANGED <<limiterVars, jobVars, ctxDone, inTime, sourceVars, metrics>>

ScanProxies(w) ==
    /\ pc[w] = "scan"
    /\ Pool!NextInspect(w)
    /\ Goto(w, IF mu' = w THEN "scan" ELSE IF got'[w] # None THEN "limit" ELSE "allBanned")
    /\ key' = [key EXCEPT ![w] = IF got'[w] # None THEN url[got'[w]] ELSE Direct]
    /\ UNCHANGED <<limiterVars, attempt, wait, sleep, outcome, ctxDone, inTime, sourceVars, metrics>>

\* nextProxy after ErrAllBanned: try again at once if a proxy has just
\* recovered, give this attempt up if none recovers before the deadline, and
\* sleep until the soonest does otherwise.
AllBanned(w) ==
    LET at == Pool!NextAvailableIn IN
    /\ pc[w] = "allBanned"
    /\ mu = None
    /\ UNCHANGED <<poolVars, limiterVars, ctxDone, inTime, sourceVars>>
    /\ \/ /\ at = 0
          /\ Goto(w, "next")
          /\ UNCHANGED <<jobVars, metrics>>
       \/ /\ at > wait[w]
          /\ IF ctxDone THEN Canceled(w) ELSE NextAttempt(w, FALSE)
       \/ /\ at \in 1..wait[w]
          /\ sleep' = [sleep EXCEPT ![w] = at]
          /\ Goto(w, "cooldown")
          /\ UNCHANGED <<attempt, wait, key, outcome, metrics>>

WaitCooldown(w) ==
    /\ pc[w] = "cooldown"
    /\ UNCHANGED <<poolVars, limiterVars, ctxDone, inTime, sourceVars>>
    /\ \/ sleep[w] = 0 /\ Goto(w, "next") /\ UNCHANGED <<jobVars, metrics>>
       \/ ctxDone /\ Canceled(w)

\* Limiter.Wait.  It fails when ctx has ended, and also before, when the
\* token would come after a deadline of ctx, as the soak test sets one.  Then
\* nothing is reported about the proxy, as after a neutral report.
LimiterWait(w) ==
    /\ pc[w] = "limit"
    /\ UNCHANGED <<limiterVars, ctxDone, inTime, sourceVars>>
    /\ \/ Goto(w, "fetch") /\ UNCHANGED <<poolVars, jobVars, metrics>>
       \/ Canceled(w) /\ Pool!ReportNeutral(w)

\* What a fetch error is classified as once ctx has ended: a cancellation,
\* whatever the error was.
ClassifiedAsIs == FetchOutcomes
Classified == IF ctxDone THEN {"success", "canceled"} ELSE FetchOutcomes

\* proxyOutcome: what an outcome says about the proxy.
ReportFor(w, o) ==
    \/ o = "success" /\ Pool!ReportSuccess(w)
    \/ o = "rate_limited" /\ \E ra \in RetryAfters : Pool!ReportRateLimited(w, ra)
    \/ o = "blocked" /\ Pool!ReportBlocked(w)
    \/ o \in {"consent", "client_error", "canceled"} /\ Pool!ReportNeutral(w)
    \/ o = "failure" /\ Pool!ReportFailure(w)

\* The fetch returns and its error is classified.
FetchReturns(w) ==
    /\ pc[w] = "fetch"
    /\ \E o \in Classified : outcome' = [outcome EXCEPT ![w] = o]
    /\ Goto(w, "report")
    /\ UNCHANGED <<poolVars, limiterVars, attempt, wait, sleep, key, ctxDone, inTime,
                   sourceVars, metrics>>

\* recordOutcome, first half: the report to the proxy pool.
ReportResult(w) ==
    /\ pc[w] = "report"
    /\ ReportFor(w, outcome[w])
    /\ Goto(w, IF outcome[w] = "success" \/ Pushback(outcome[w]) THEN "adapt" ELSE "result")
    /\ inTime' = inTime \ {w}
    /\ UNCHANGED <<limiterVars, jobVars, ctxDone, sourceVars, metrics>>

\* recordOutcome, second half: Reward or Penalize, a read and a write.
AdaptRead(w) ==
    /\ pc[w] = "adapt"
    /\ IF outcome[w] = "success" THEN Lim!RewardRead(w, key[w])
                                 ELSE Lim!PenalizeRead(w, key[w])
    /\ Goto(w, IF call'[w] = Lim!NoCall THEN "result" ELSE "setLimit")
    /\ UNCHANGED <<poolVars, jobVars, ctxDone, inTime, sourceVars, metrics>>

AdaptWrite(w) ==
    /\ pc[w] = "setLimit"
    /\ Lim!SetLimit(w)
    /\ Goto(w, "result")
    /\ UNCHANGED <<poolVars, jobVars, ctxDone, inTime, sourceVars, metrics>>

\* The end of an attempt whose fetch failed.
FetchFailed(w) ==
    /\ pc[w] = "result"
    /\ outcome[w] # "success"
    /\ CASE outcome[w] = "canceled" -> Canceled(w)
         [] Retryable(outcome[w]) -> NextAttempt(w, Pushback(outcome[w]))
         [] OTHER -> Dropped(w)
    /\ UNCHANGED <<poolVars, limiterVars, ctxDone, inTime, sourceVars>>

\* use returned an error: a body that does not parse counts as a failure.
UseFailed(w) ==
    /\ pc[w] = "result"
    /\ outcome[w] = "success"
    /\ NextAttempt(w, FALSE)
    /\ UNCHANGED <<poolVars, limiterVars, ctxDone, inTime, sourceVars>>

\* process: Sink.Write, whose error is only logged, and IncSuccess.
WriteResult(w) ==
    /\ pc[w] = "result"
    /\ outcome[w] = "success"
    /\ JobEnds(w)
    /\ success' = success + 1
    /\ UNCHANGED <<poolVars, limiterVars, ctxDone, inTime, sourceVars, dropped>>
-----------------------------------------------------------------------------
Less1(f) == [w \in Workers |-> IF f[w] > 0 THEN f[w] - 1 ELSE 0]

Tick ==
    /\ Pool!Tick
    /\ wait' = Less1(wait)
    /\ sleep' = Less1(sleep)
    /\ UNCHANGED <<limiterVars, pc, attempt, key, outcome, ctxDone, inTime, sourceVars, metrics>>

WorkerStep(w) ==
    \/ ReceiveJob(w) \/ WorkerReturns(w)
    \/ Backoff(w)
    \/ CallNext(w) \/ ScanProxies(w) \/ AllBanned(w) \/ WaitCooldown(w)
    \/ LimiterWait(w)
    \/ FetchReturns(w) \/ ReportResult(w) \/ AdaptRead(w) \/ AdaptWrite(w)
    \/ FetchFailed(w) \/ UseFailed(w) \/ WriteResult(w)

Returned == \A w \in Workers : pc[w] = "exit"

\* Run has returned and the process goes on to shut down.
Finished == Returned /\ closed /\ UNCHANGED vars

Next ==
    \/ SourceSend \/ SourceClose \/ Cancel \/ Tick
    \/ \E w \in Workers : WorkerStep(w)
    \/ Finished

Spec == Init /\ [][Next]_vars

\* Goroutines run on, time passes, and a fetch returns: every fetcher bounds
\* its requests with a timeout.  Nothing is assumed about Cancel.
FairSpec ==
    /\ Spec
    /\ WF_vars(SourceSend \/ SourceClose)
    /\ WF_vars(Tick)
    /\ \A w \in Workers : WF_vars(WorkerStep(w))
-----------------------------------------------------------------------------
Locations == {"select", "backoff", "next", "scan", "allBanned", "cooldown", "limit",
              "fetch", "report", "adapt", "setLimit", "result", "exit"}

(***************************************************************************)
(* Type invariant.  A worker holds a proxy exactly from the hand-out to    *)
(* the report, and pl.mu exactly while it scans: no path out of Acquire    *)
(* keeps either (worker/pool.go:182-256).                                  *)
(***************************************************************************)
TypeOK ==
    /\ pc \in [Workers -> Locations]
    /\ attempt \in [Workers -> 0..MaxRetries]
    /\ wait \in [Workers -> 0..MaxProxyWait]
    /\ sleep \in [Workers -> 0..MaxProxyWait]
    /\ key \in [Workers -> URLs]
    /\ outcome \in [Workers -> FetchOutcomes \cup {"canceled", "none"}]
    /\ buffered \in 0..Buffer
    /\ unsent + buffered + taken = Queries
    /\ \A w \in Workers :
          /\ (got[w] # None) <=> pc[w] \in {"limit", "fetch", "report"}
          /\ (mu = w) <=> pc[w] = "scan"

Busy == {w \in Workers : pc[w] \notin {"select", "exit"}}

(***************************************************************************)
(* Every job a worker took is counted exactly once, as a success or as     *)
(* dropped, or is still being worked on: success + dropped is a complete   *)
(* count of the jobs attempted, wherever shutdown catches them             *)
(* (metrics.go:63-66, worker/pool.go:215-222).                             *)
(***************************************************************************)
EveryJobCounted == success + dropped + Cardinality(Busy) = taken

(***************************************************************************)
(* Shutdown is not the proxies' fault: once ctx has ended no proxy gets    *)
(* closer to a cooldown, into one or into a longer one, although every     *)
(* fetch in flight fails, unless by the report of a fetch that had         *)
(* returned before (worker/pool.go:227-231).                               *)
(***************************************************************************)
ShutdownSparesProxies ==
    [][ctxDone /\ inTime' = inTime => \A o \in Objects :
          fails'[o] <= fails[o] /\ streak'[o] <= streak[o] /\ cool'[o] <= cool[o]]_vars

(***************************************************************************)
(* Pool.Run returns, canceled or not: the source closes the channel, no    *)
(* worker waits for a proxy, a lock or a cooldown forever, and no attempt  *)
(* goes round nextProxy's loop forever (worker/pool.go:75-100, 268-290).   *)
(***************************************************************************)
RunReturns == <>[](Returned /\ closed)

(***************************************************************************)
(* Run without cancellation leaves nothing undone: when all workers are    *)
(* gone, every query was taken and counted (worker/pool.go:73-86).         *)
(***************************************************************************)
NothingLeftBehind ==
    Returned /\ ~ctxDone => success + dropped = Queries
=============================================================================
