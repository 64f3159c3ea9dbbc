------------------------------- MODULE JobAPI -------------------------------
(***************************************************************************)
(* The job API: cmd/api with the HTTP handlers of internal/api/server.go   *)
(* and the cron ticks of internal/scheduler, pushing onto the queue that   *)
(* the harvesters work off, whose results PostgresSink counts per run.     *)
(*                                                                         *)
(* A POST and a tick are goroutines that push their queries one by one     *)
(* under a run ID of their own; here the run is named after the POST or    *)
(* tick.  The queue is what JobQueue promises.  A push may be lost, may be *)
(* stored while its reply is lost, and the Redis client may repeat it, so  *)
(* that one query becomes two entries.  The API process is stopped or      *)
(* crashes at any time and starts again; the harvesters stay up.  Every    *)
(* run has the same number of queries.  Locale, device and the text of the *)
(* answers are left out.                                                   *)
(***************************************************************************)
EXTENDS Integers, FiniteSets

CONSTANTS
    Posts,          \* POST /jobs requests, each made once
    Ticks,          \* firings of the schedule
    Gets,           \* clients that ask GET /jobs/{run_id} again and again
    N,              \* queries of a run
    HasCounter,     \* POSTGRES_DSN is set for the API
    Repeatable,     \* bound: the <<run, query>> whose push may be repeated
    MaxStarts,      \* bound: how often the API process is started
    None

ASSUME JobAPIAssumption ==
    /\ N \in Nat
    /\ HasCounter \in BOOLEAN
    /\ MaxStarts \in Nat
    /\ None \notin Posts \cup Ticks
    /\ Posts \cap Ticks = {}       \* newRunID: no two runs share an ID

\* Every run has N queries, numbered from 1.
Runs == Posts \cup Ticks
Copies(r, q) == IF <<r, q>> \in Repeatable THEN 1..2 ELSE {1}
Entries == {e \in Runs \X (1..N) \X (1..2) : e[3] \in Copies(e[1], e[2])}

VARIABLES
    waiting, taken, \* the queue (JobQueue)
    rows,           \* rows[r]: rows of serp_results with run r's ID
    api,            \* the API process
    starts,         \* how often it was started
    submitted,      \* Server.submitted: the runs recorded
    pc,             \* pc[r]: where the POST or tick r is
    next,           \* next[r]: the query it pushes next
    failed,         \* history: failed[t]: tick t's queries whose push failed
    answer,         \* answer[r]: status the client of POST r has got, 0 = none
    known,          \* history: runs whose client got a 202 from this process
    asked,          \* asked[g]: the run g's status request is about, None = none
    found,          \* found[g]: what the request read of submitted
    sure            \* history: g was sent after the 202 for its run

queueVars == <<waiting, taken>>
postVars == <<pc, next, failed, answer, known, submitted>>
getVars == <<asked, found, sure>>
vars == <<queueVars, rows, api, starts, postVars, getVars>>

Queue == INSTANCE JobQueue

Init ==
    /\ Queue!QueueInit
    /\ rows = [r \in Runs |-> 0]
    /\ api = "up"
    /\ starts = 1
    /\ submitted = {}
    /\ pc = [r \in Runs |-> "idle"]
    /\ next = [r \in Runs |-> 1]
    /\ failed = [t \in Ticks |-> {}]
    /\ answer = [r \in Posts |-> 0]
    /\ known = {}
    /\ asked = [g \in Gets |-> None]
    /\ found = [g \in Gets |-> FALSE]
    /\ sure = [g \in Gets |-> FALSE]

\* Goroutines run until main returns; the handlers in flight die with it.
Alive == api \in {"up", "closing", "stopping"}
Serving == api = "up"
Goto(r, l) == pc' = [pc EXCEPT ![r] = l]

\* A run that is over has no loop variable any more.
Over(r, l) == Goto(r, l) /\ next' = [next EXCEPT ![r] = 1]
-----------------------------------------------------------------------------
\* PushJob (XADD): stored, stored twice by a retry of the client, or an error
\* with the entry stored or not.
Stored(r, copies) ==
    /\ waiting' = waiting \cup {<<r, next[r], c>> : c \in copies}
    /\ UNCHANGED taken

PushOK(r) == \E n \in Copies(r, next[r]) : Stored(r, 1..n)
PushFails(r) == \E n \in {0} \cup Copies(r, next[r]) : Stored(r, 1..n)

Pushing(r) == Alive /\ pc[r] = "push" /\ next[r] <= N

Pushed(r) ==
    /\ Pushing(r)
    /\ PushOK(r)
    /\ next' = [next EXCEPT ![r] = @ + 1]
    /\ UNCHANGED <<rows, api, starts, pc, failed, answer, known, submitted, getVars>>

Answered(r, code) ==
    /\ answer' = [answer EXCEPT ![r] = code]
    /\ Over(r, "done")

\* handleCreateJob: a bad request (400, or 500 if newRunID fails) ends before
\* anything is pushed.
PostRefused(r) ==
    /\ Serving /\ pc[r] = "idle"
    /\ Answered(r, 400)
    /\ UNCHANGED <<queueVars, rows, api, starts, failed, known, submitted, getVars>>

PostAccepted(r) ==
    /\ Serving /\ pc[r] = "idle"
    /\ Goto(r, "push")
    /\ UNCHANGED <<queueVars, rows, api, starts, next, failed, answer, known, submitted,
                   getVars>>

\* The first push that fails ends the request.
PostFailedGoesOn(r) ==
    /\ next' = [next EXCEPT ![r] = @ + 1]
    /\ UNCHANGED <<pc, answer>>
PostFailed(r) == Answered(r, 502)

PostPushFails(r) ==
    /\ Pushing(r)
    /\ PushFails(r)
    /\ PostFailed(r)
    /\ UNCHANGED <<rows, api, starts, failed, known, submitted, getVars>>

\* s.submitted[runID] = len(req.Queries), and then the answer.
PostRecordLate(r) ==
    /\ Alive
    /\ \/ pc[r] = "push" /\ next[r] > N /\ Goto(r, "answer") /\ UNCHANGED submitted
       \/ pc[r] = "done" /\ answer[r] = 202 /\ submitted' = submitted \cup {r} /\ UNCHANGED pc
    /\ UNCHANGED <<queueVars, rows, api, starts, next, failed, answer, known, getVars>>

PostRecord(r) ==
    /\ Alive /\ pc[r] = "push" /\ next[r] > N
    /\ submitted' = submitted \cup {r}
    /\ Goto(r, "answer")
    /\ UNCHANGED <<queueVars, rows, api, starts, next, failed, answer, known, getVars>>

PostAnswer(r) ==
    /\ Alive /\ pc[r] = "answer"
    /\ \/ Answered(r, 202) /\ known' = known \cup {r}
       \/ Answered(r, 0) /\ UNCHANGED known          \* the client is gone
    /\ UNCHANGED <<queueVars, rows, api, starts, failed, submitted, getVars>>
-----------------------------------------------------------------------------
\* Scheduler.runOnce, on a firing of the schedule: without a run ID (newRunID
\* fails) nothing is pushed; a failed push is logged and the rest goes on.
TickFires(t) ==
    /\ api \in {"up", "closing"} /\ pc[t] = "idle"
    /\ Goto(t, "push") \/ Goto(t, "noRunID")
    /\ UNCHANGED <<queueVars, rows, api, starts, next, failed, answer, known, submitted,
                   getVars>>

TickFailedReturns(t) == N + 1
TickFailed(t) == next[t] + 1

TickPushFails(t) ==
    /\ Pushing(t)
    /\ PushFails(t)
    /\ failed' = [failed EXCEPT ![t] = @ \cup {next[t]}]
    /\ next' = [next EXCEPT ![t] = TickFailed(t)]
    /\ UNCHANGED <<rows, api, starts, pc, answer, known, submitted, getVars>>

TickEnds(t) ==
    /\ Alive /\ pc[t] = "push" /\ next[t] > N
    /\ Over(t, "done")
    /\ UNCHANGED <<queueVars, rows, api, starts, failed, answer, known, submitted, getVars>>
-----------------------------------------------------------------------------
\* handleJobStatus: submitted is read under the lock, the rows are counted
\* afterwards.  A client may ask for any run.
GetSubmitted(g) ==
    /\ Serving /\ asked[g] = None
    /\ \E r \in Runs :
        /\ asked' = [asked EXCEPT ![g] = r]
        /\ found' = [found EXCEPT ![g] = r \in submitted]
        /\ sure' = [sure EXCEPT ![g] = r \in known]
    /\ UNCHANGED <<queueVars, rows, api, starts, postVars>>

CountByRunID(r) == rows[r]

StatusOf(g) == [submitted |-> IF found[g] THEN N ELSE 0, submittedKnown |-> found[g],
                completed |-> IF HasCounter THEN CountByRunID(asked[g]) ELSE -1,
                completedKnown |-> HasCounter]

\* The answer is StatusOf(g), or an error of the count.
GetAnswered(g) ==
    /\ Alive /\ asked[g] # None
    /\ asked' = [asked EXCEPT ![g] = None]
    /\ found' = [found EXCEPT ![g] = FALSE]
    /\ sure' = [sure EXCEPT ![g] = FALSE]
    /\ UNCHANGED <<queueVars, rows, api, starts, postVars>>
-----------------------------------------------------------------------------
\* main, on a signal: Shutdown closes the listener and ListenAndServe returns
\* at once; sched.Stop ends the schedule and waits for its ticks; then main
\* returns, and the handlers still running are cut.
processRest == <<queueVars, rows, failed, answer>>

Signal ==
    /\ api = "up"
    /\ api' = "closing"
    /\ UNCHANGED <<processRest, starts, pc, next, known, submitted, getVars>>

SchedulerStop ==
    /\ api = "closing"
    /\ api' = "stopping"
    /\ UNCHANGED <<processRest, starts, pc, next, known, submitted, getVars>>

Cut(how) ==
    /\ api' = "down"
    /\ pc' = [r \in Runs |-> IF pc[r] \in {"push", "answer"} THEN how ELSE pc[r]]
    /\ next' = [r \in Runs |-> 1]
    /\ asked' = [g \in Gets |-> None]
    /\ found' = [g \in Gets |-> FALSE]
    /\ sure' = [g \in Gets |-> FALSE]
    /\ known' = {}
    /\ submitted' = {}
    /\ UNCHANGED <<processRest, starts>>

TicksAllDone == \A t \in Ticks : pc[t] \in {"done", "noRunID"}
TicksOver == \A t \in Ticks : pc[t] # "push"
MainReturns == api = "stopping" /\ TicksOver /\ Cut("exited")
Crash == Alive /\ Cut("crashed")

Restart ==
    /\ api = "down"
    /\ starts < MaxStarts
    /\ api' = "up"
    /\ starts' = starts + 1
    /\ UNCHANGED <<processRest, pc, next, known, submitted, getVars>>
-----------------------------------------------------------------------------
WriteAgain(r) == [rows EXCEPT ![r] = @ + 2]
Write(r) == [rows EXCEPT ![r] = @ + 1]

\* A harvester takes an entry and ends its job.  The row of a success is
\* written; or the sink's error is only logged (the INSERT may have happened);
\* or the job is dropped.
Work(e) ==
    /\ Queue!Take(e)
    /\ rows' \in {rows, Write(e[1])}
    /\ UNCHANGED <<api, starts, postVars, getVars>>
-----------------------------------------------------------------------------
PostStep(r) ==
    \/ Pushed(r) \/ PostPushFails(r) \/ PostRecord(r) \/ PostAnswer(r)
TickStep(t) == Pushed(t) \/ TickPushFails(t) \/ TickEnds(t)

\* The API is down for good.
Finished ==
    /\ api = "down" /\ starts = MaxStarts
    /\ UNCHANGED vars

Next ==
    \/ \E r \in Posts : PostRefused(r) \/ PostAccepted(r) \/ PostStep(r)
    \/ \E t \in Ticks : TickFires(t) \/ TickStep(t)
    \/ \E g \in Gets : GetSubmitted(g) \/ GetAnswered(g)
    \/ Signal \/ SchedulerStop \/ MainReturns \/ Crash \/ Restart
    \/ \E e \in Entries : Work(e)
    \/ Finished

Spec == Init /\ [][Next]_vars

\* Handlers and ticks go on (every call to Redis or Postgres returns: the
\* client's timeouts), and main goes through its shutdown.  Nothing is asked
\* of the harvesters: an entry that was delivered in a lost reply, or to a
\* process that ended before the hand-off, is never taken (RedisQueue).
FairSpec ==
    /\ Spec
    /\ \A r \in Posts : WF_vars(PostStep(r))
    /\ \A t \in Ticks : WF_vars(TickStep(t))
    /\ \A g \in Gets : WF_vars(GetAnswered(g))
    /\ WF_vars(SchedulerStop \/ MainReturns)
-----------------------------------------------------------------------------
InQueue(e) == e \in waiting \/ taken[e] > 0

(***************************************************************************)
(* Type invariant.  A row belongs to an entry that was pushed and taken,   *)
(* no entry is worked on twice, and the bookkeeping knows POST runs only.  *)
(***************************************************************************)
APITypeOK ==
    /\ waiting \subseteq Entries
    /\ taken \in [Entries -> 0..1]
    /\ \A r \in Runs : rows[r] \in 0..Cardinality({e \in Entries : e[1] = r /\ taken[e] = 1})
    /\ submitted \subseteq Posts
    /\ next \in [Runs -> 1..(N + 1)]
    /\ api \in {"up", "closing", "stopping", "down"}

(***************************************************************************)
(* 202 means queued: when a client got it, every query of its run is in    *)
(* the queue or was taken from it, and still is when the API has been      *)
(* stopped or has crashed since (server.go:94-106; RUNBOOK.md:              *)
(* "Restarting the API is safe for queued work").                          *)
(***************************************************************************)
AcceptedIsQueued ==
    \A r \in Posts : answer[r] = 202 =>
        \A q \in 1..N : \E c \in Copies(r, q) : InQueue(<<r, q, c>>)

(***************************************************************************)
(* A client can read what it wrote: a status asked for after the 202, of   *)
(* the same process, knows the run and how much was submitted, and counts  *)
(* no more completed than workers took of that run, however fast they are  *)
(* and whatever other requests are in flight (server.go:102-106, 130-145). *)
(***************************************************************************)
StatusKnowsAccepted ==
    [][\A g \in Gets : GetAnswered(g) =>
          /\ sure[g] => StatusOf(g).submittedKnown /\ StatusOf(g).submitted = N
          /\ StatusOf(g).completed <= Cardinality({e \in Entries : e[1] = asked[g] /\ taken[e] = 1})
      ]_vars

(***************************************************************************)
(* A scheduled run is cut short by nothing but a crash: a push that fails  *)
(* costs that one query and not the ones after it, and a stop waits for    *)
(* the ticks that run (scheduler.go:71-78, 88-92).                         *)
(***************************************************************************)
TicksComplete ==
    \A t \in Ticks :
        /\ pc[t] # "exited"
        /\ pc[t] = "done" => \A q \in 1..N : q \in failed[t] \/ InQueue(<<t, q, 1>>)

(***************************************************************************)
(* What is begun ends: a POST or a scheduled run comes to its end whatever *)
(* the pushes do, an error included, unless its process ends first; and a  *)
(* process told to stop does stop, although main waits for the scheduled   *)
(* runs, new ones fire while the listener closes, and pushes go on failing *)
(* (server.go:94-109, scheduler.go:71-78, "they're fast - just enqueueing  *)
(* - so this returns quickly", 88-92; cmd/api/main.go:75-89).              *)
(***************************************************************************)
BegunEnds ==
    []<>(/\ api \notin {"closing", "stopping"}
         /\ \A r \in Runs : pc[r] \notin {"push", "answer"})
=============================================================================
