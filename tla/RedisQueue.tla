----------------------------- MODULE RedisQueue ----------------------------
(***************************************************************************)
(* The queue that harvester processes share: internal/queue/redis_stream.go*)
(* on a Redis Stream with one consumer group.                              *)
(*                                                                         *)
(* Redis (external) keeps the stream, the group's last delivered entry and *)
(* the pending list of entries delivered and not acknowledged.  A process  *)
(* runs Jobs: it reads a batch of new entries, hands them to its workers   *)
(* one by one over an unbuffered channel and acknowledges each after the   *)
(* hand-off.  Processes crash, are stopped and start again; replies of     *)
(* Redis get lost.  Entries are numbered in the order of the stream; what  *)
(* a job asks for is left out.  XACK names an entry, not a consumer, so a  *)
(* process may be configured with any consumer name.                       *)
(***************************************************************************)
EXTENDS Integers, FiniteSets

CONSTANTS
    Procs,          \* harvester processes
    Unreliable,     \* those that may crash, be stopped or miss replies
    MaxEntries,     \* bound on the length of the stream
    Count,          \* entries one XREADGROUP asks for
    Concurrency,    \* workers of a process
    None

ASSUME QueueAssumption ==
    /\ Unreliable \subseteq Procs
    /\ MaxEntries \in Nat
    /\ Count \in Nat \ {0}
    /\ Concurrency \in Nat \ {0}
    /\ None \notin Procs

Entries == 1..MaxEntries

VARIABLES
    added,       \* entries added to the stream
    group,       \* the consumer group exists
    last,        \* the group's last delivered entry
    owner,       \* owner[e]: consumer e is pending for, or None
    pc,          \* pc[p]: where process p's Jobs goroutine is
    canceled,    \* canceled[p]: p's ctx has ended
    batch,       \* batch[p]: entries read and still to be dealt with
    busy,        \* busy[p]: entries p's workers are working on
    handed,      \* history: how many times e was handed to a worker
    done,        \* history: entries whose job ended and was counted
    claimed      \* history: entries an operator moved to another consumer

redis == <<added, group, last, owner>>
proc == <<pc, canceled, batch, busy>>
history == <<handed, done, claimed>>
queueVars == <<redis, proc, history>>

Init ==
    /\ added = 0
    /\ group = FALSE
    /\ last = 0
    /\ owner = [e \in Entries |-> None]
    /\ pc = [p \in Procs |-> "down"]
    /\ canceled = [p \in Procs |-> FALSE]
    /\ batch = [p \in Procs |-> {}]
    /\ busy = [p \in Procs |-> {}]
    /\ handed = [e \in Entries |-> 0]
    /\ done = {}
    /\ claimed = {}

Goto(p, l) == pc' = [pc EXCEPT ![p] = l]
-----------------------------------------------------------------------------
\* PushJob: XADD.  A failed XADD adds nothing the queue could lose.
PushJob ==
    /\ added < MaxEntries
    /\ added' = added + 1
    /\ UNCHANGED <<group, last, owner, proc, history>>

\* Where a group created by EnsureGroup starts: "0", before all entries.
GroupStartAtEnd == added
GroupStart == 0

\* A process starts: EnsureGroup, for which an existing group is no error,
\* and then Jobs.
Start(p) ==
    /\ pc[p] = "down"
    /\ Goto(p, "read")
    /\ group' = TRUE
    /\ last' = IF group THEN last ELSE GroupStart
    /\ UNCHANGED <<added, owner, canceled, batch, busy, history>>

\* What a ">" read delivers: the entries after the last delivered one.
NewEntriesButLast == {e \in Entries : last < e /\ e <= last + Count /\ e < added}
NewEntries == {e \in Entries : last < e /\ e <= last + Count /\ e <= added}

\* Redis delivers new entries to p: they are pending for p from now on.
DeliveredPastEnd(p) ==
    /\ owner' = [e \in Entries |-> IF e \in NewEntries THEN p ELSE owner[e]]
    /\ last' = last + Count

Delivered(p) ==
    /\ owner' = [e \in Entries |-> IF e \in NewEntries THEN p ELSE owner[e]]
    /\ last' \in NewEntries
    /\ \A e \in NewEntries : e <= last'

\* XREADGROUP answers with a batch.
Read(p) ==
    /\ pc[p] = "read"
    /\ NewEntries # {}
    /\ Delivered(p)
    /\ batch' = [batch EXCEPT ![p] = NewEntries]
    /\ Goto(p, "handoff")
    /\ UNCHANGED <<added, group, canceled, busy, history>>

\* The answer is lost, or ctx ends while it is under way: the entries are
\* delivered as far as Redis knows, and the loop reads again.
ReadLost(p) ==
    /\ pc[p] = "read"
    /\ p \in Unreliable
    /\ NewEntries # {}
    /\ Delivered(p)
    /\ UNCHANGED <<added, group, proc, history>>

\* redis.Nil after BlockFor without new entries: the loop reads again.
ReadEmpty(p) ==
    /\ pc[p] = "read"
    /\ NewEntries = {}
    /\ UNCHANGED queueVars

FirstOf(p, e) == e \in batch[p] /\ \A f \in batch[p] : e <= f

\* ch <- job: an idle worker takes the first entry of the batch.
HandOff(p) ==
    /\ pc[p] = "handoff"
    /\ Cardinality(busy[p]) < Concurrency
    /\ \E e \in Entries :
          /\ FirstOf(p, e)
          /\ busy' = [busy EXCEPT ![p] = @ \cup {e}]
          /\ handed' = [handed EXCEPT ![e] = @ + 1]
    /\ Goto(p, "ack")
    /\ UNCHANGED <<redis, canceled, batch, done, claimed>>

\* After a message is dealt with: the rest of the batch, or the next read.
RestDropped(p, e) == {}
Rest(p, e) == batch[p] \ {e}

Advance(p, e) ==
    /\ batch' = [batch EXCEPT ![p] = Rest(p, e)]
    /\ Goto(p, IF Rest(p, e) = {} THEN "read" ELSE "handoff")

\* XACK, whose error nobody looks at; with ctx ended it is not even sent.
Ack(p) ==
    /\ pc[p] = "ack"
    /\ \E e \in Entries :
          /\ FirstOf(p, e)
          /\ Advance(p, e)
          /\ \/ owner' = [owner EXCEPT ![e] = None]
             \/ p \in Unreliable /\ UNCHANGED owner
    /\ UNCHANGED <<added, group, last, canceled, busy, history>>

\* Jobs sees that ctx has ended, between reads or with a batch in hand, and
\* closes the channel.
JobsReturns(p) ==
    /\ pc[p] \in {"read", "handoff"}
    /\ canceled[p]
    /\ Goto(p, "closed")
    /\ batch' = [batch EXCEPT ![p] = {}]
    /\ UNCHANGED <<redis, canceled, busy, history>>

\* A worker is done with its job, as a success or dropped.
JobDone(p) ==
    /\ \E e \in busy[p] :
          /\ busy' = [busy EXCEPT ![p] = @ \ {e}]
          /\ done' = done \cup {e}
    /\ UNCHANGED <<redis, pc, canceled, batch, handed, claimed>>
-----------------------------------------------------------------------------
Cancel(p) ==
    /\ p \in Unreliable
    /\ pc[p] # "down"
    /\ ~canceled[p]
    /\ canceled' = [canceled EXCEPT ![p] = TRUE]
    /\ UNCHANGED <<redis, pc, batch, busy, history>>

\* The process is gone with everything it had in memory.
Gone(p) ==
    /\ Goto(p, "down")
    /\ canceled' = [canceled EXCEPT ![p] = FALSE]
    /\ batch' = [batch EXCEPT ![p] = {}]
    /\ busy' = [busy EXCEPT ![p] = {}]

\* Pool.Run returned, when all workers had, and main exits.
Exit(p) ==
    /\ pc[p] = "closed"
    /\ busy[p] = {}
    /\ Gone(p)
    /\ UNCHANGED <<redis, history>>

Crash(p) ==
    /\ p \in Unreliable
    /\ pc[p] # "down"
    /\ Gone(p)
    /\ UNCHANGED <<redis, history>>

\* The operator's XCLAIM of RUNBOOK.md: entries of a process that is down
\* become pending for one that is up.
Claim(p, q) ==
    /\ pc[p] = "down" /\ pc[q] # "down"
    /\ \E e \in Entries : owner[e] = p
    /\ owner' = [e \in Entries |-> IF owner[e] = p THEN q ELSE owner[e]]
    /\ claimed' = claimed \cup {e \in Entries : owner[e] = p}
    /\ UNCHANGED <<added, group, last, proc, handed, done>>

JobsStep(p) ==
    Read(p) \/ ReadEmpty(p) \/ HandOff(p) \/ Ack(p) \/ JobsReturns(p)

Next ==
    \/ PushJob
    \/ \E p \in Procs :
          \/ Start(p) \/ Exit(p) \/ Crash(p) \/ Cancel(p)
          \/ JobsStep(p) \/ ReadLost(p) \/ JobDone(p)
          \/ \E q \in Procs : Claim(p, q)

Spec == Init /\ [][Next]_queueVars

\* Processes are started again, their goroutines run on and every job ends
\* (see RunReturns of Harvester).  No operator has to claim anything.
FairSpec ==
    /\ Spec
    /\ \A p \in Procs :
          /\ WF_queueVars(Start(p))
          /\ WF_queueVars(Exit(p))
          /\ WF_queueVars(JobsStep(p))
          /\ WF_queueVars(JobDone(p))
-----------------------------------------------------------------------------
(***************************************************************************)
(* Type invariant.                                                         *)
(***************************************************************************)
QueueTypeOK ==
    /\ added \in 0..MaxEntries
    /\ group \in BOOLEAN
    /\ last \in 0..added
    /\ owner \in [Entries -> Procs \cup {None}]
    /\ pc \in [Procs -> {"down", "read", "handoff", "ack", "closed"}]
    /\ canceled \in [Procs -> BOOLEAN]
    /\ batch \in [Procs -> SUBSET Entries]
    /\ busy \in [Procs -> SUBSET Entries]
    /\ handed \in [Entries -> Nat]
    /\ done \in SUBSET Entries
    /\ claimed \in SUBSET Entries

Undelivered == {e \in Entries : last < e /\ e <= added}
Pending == {e \in Entries : owner[e] # None}

(***************************************************************************)
(* The queue implements JobQueue across crashes, restarts, lost replies    *)
(* and lost acknowledgements: an entry waits in the stream or in the       *)
(* pending list until it is handed to a worker, which happens at most      *)
(* once, and no entry leaves both any other way (redis_stream.go:36-42,    *)
(* 86-118).  README.md:266-268 says that Redis "hands each message to      *)
(* exactly one of them, re-delivering to another consumer if one dies      *)
(* mid-job without acknowledging", and RUNBOOK.md:199-201 that an entry    *)
(* "redelivered after a consumer crash can write a second row".  The code  *)
(* does the first half only: nothing is ever delivered a second time, so   *)
(* no entry is worked on twice, and one a crash leaves pending or acked    *)
(* in mid-job is worked on no more (NoneSilentlyDropped and                *)
(* ClaimedIsWorkedOn below).                                               *)
(***************************************************************************)
Queue == INSTANCE JobQueue WITH
    waiting <- Undelivered \cup {e \in Pending : handed[e] = 0},
    taken <- handed

ImplementsJobQueue == Queue!QueueSpec

(***************************************************************************)
(* The stream drains: as long as one process stays up, every entry pushed, *)
(* before the group existed or after, is delivered, although the other     *)
(* processes come and go (redis_stream.go:81-104).                         *)
(***************************************************************************)
StreamDrains == \A e \in Entries : (e <= added) ~> (e <= last)

(***************************************************************************)
(* A process that stays up finishes what it reads: a batch longer than the *)
(* process has workers is handed over to the last entry                    *)
(* (redis_stream.go:106-121).                                              *)
(***************************************************************************)
ReadIsDone ==
    \A p \in Procs \ Unreliable, e \in Entries : (e \in batch[p]) ~> (e \in done)

(***************************************************************************)
(* What redis_stream.go:68-71 and PRODUCTION_READINESS.md:32-33 say of a   *)
(* worker that crashes in the middle of a job: its entry stays pending, it *)
(* is not silently dropped.  So every entry pushed is still in the stream  *)
(* or pending, being worked on, or done.  The entry is acknowledged at the *)
(* hand-off, before the work on it, and a crash then drops it.             *)
(***************************************************************************)
NoneSilentlyDropped ==
    \A e \in Entries :
        e <= added => \/ e \in Undelivered \cup Pending \cup done
                      \/ \E p \in Procs : e \in busy[p]

(***************************************************************************)
(* What RUNBOOK.md:65-68 says of entries that a crashed worker never       *)
(* acknowledged: XCLAIM hands them back to a healthy consumer.  So an      *)
(* entry claimed from a process that is down for one that is up is worked  *)
(* on sooner or later.  Jobs reads only new entries (">"), so it is not,   *)
(* and a restart of either process changes nothing (redis_stream.go:       *)
(* 86-91).                                                                 *)
(***************************************************************************)
ClaimedIsWorkedOn ==
    \A e \in Entries : (e \in claimed) ~> (handed[e] > 0)
=============================================================================
