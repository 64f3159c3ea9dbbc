-------------------------- MODULE RedisQueueProofs -------------------------
(***************************************************************************)
(* Proofs about RedisQueue, for any number of processes, entries, workers  *)
(* and any batch size: it implements JobQueue, whatever fails.             *)
(***************************************************************************)
EXTENDS RedisQueue, TLAPS

\* Entries not delivered yet are neither pending nor with a worker.
NewUntouched == \A e \in Entries : e > last => owner[e] = None /\ handed[e] = 0

\* A batch is what its process has still to hand over or acknowledge.
BatchWhere == \A p \in Procs : pc[p] \notin {"handoff", "ack"} => batch[p] = {}

BatchesDisjoint ==
    \A p, q \in Procs : \A e \in Entries : p # q => e \notin batch[p] \/ e \notin batch[q]

\* The entries of a batch are pending and no worker has seen them, but for
\* the one between its hand-off and its acknowledgement.
BatchPending ==
    \A p \in Procs : \A e \in batch[p] :
        /\ e <= last
        /\ IF pc[p] = "ack" /\ FirstOf(p, e) THEN handed[e] > 0
           ELSE handed[e] = 0 /\ owner[e] # None

\* Nothing is delivered before the first process created the group.
NoGroup == ~group => last = 0 /\ \A p \in Procs : pc[p] = "down"

QueueInv ==
    /\ QueueTypeOK
    /\ NoGroup
    /\ NewUntouched
    /\ BatchWhere
    /\ BatchesDisjoint
    /\ BatchPending

LEMMA InitInv == Init => QueueInv
<1> SUFFICES ASSUME Init PROVE QueueInv
  OBVIOUS
<1> USE QueueAssumption DEF Init, Entries
<1>1. QueueTypeOK
  <2>1. added \in 0..MaxEntries /\ last \in 0..added
    OBVIOUS
  <2>5. group \in BOOLEAN /\ done \in SUBSET Entries /\ claimed \in SUBSET Entries
    OBVIOUS
  <2>2. owner \in [Entries -> Procs \cup {None}] /\ handed \in [Entries -> Nat]
    OBVIOUS
  <2>3. /\ pc \in [Procs -> {"down", "read", "handoff", "ack", "closed"}]
        /\ canceled \in [Procs -> BOOLEAN]
    OBVIOUS
  <2>4. batch \in [Procs -> SUBSET Entries] /\ busy \in [Procs -> SUBSET Entries]
    OBVIOUS
  <2> QED  BY <2>1, <2>2, <2>3, <2>4, <2>5 DEF QueueTypeOK
<1>2. NoGroup /\ NewUntouched
  BY DEF NoGroup, NewUntouched
<1>3. BatchWhere /\ BatchesDisjoint /\ BatchPending
  BY DEF BatchWhere, BatchesDisjoint, BatchPending
<1> QED  BY <1>1, <1>2, <1>3 DEF QueueInv

LEMMA TypeStep ==
    ASSUME QueueInv, [Next]_queueVars
    PROVE  QueueTypeOK'
<1> USE QueueAssumption DEF QueueInv, QueueTypeOK, Entries, redis, proc, history, queueVars
<1>1. CASE PushJob
  BY <1>1 DEF PushJob
<1>2. ASSUME NEW p \in Procs, Start(p) PROVE QueueTypeOK'
  BY <1>2 DEF Start, Goto, GroupStart
<1>3. ASSUME NEW p \in Procs, Exit(p) \/ Crash(p) PROVE QueueTypeOK'
  BY <1>3 DEF Exit, Crash, Gone, Goto
<1>4. ASSUME NEW p \in Procs, Cancel(p) PROVE QueueTypeOK'
  BY <1>4 DEF Cancel
<1>5. ASSUME NEW p \in Procs, Read(p) \/ ReadLost(p) PROVE QueueTypeOK'
  <2>1. owner' \in [Entries -> Procs \cup {None}] /\ last' \in 0..added
    BY <1>5 DEF Read, ReadLost, Delivered, NewEntries
  <2>2. batch' \in [Procs -> SUBSET Entries]
    BY <1>5 DEF Read, ReadLost, NewEntries
  <2> QED  BY <1>5, <2>1, <2>2 DEF Read, ReadLost, Goto
<1>6. ASSUME NEW p \in Procs, HandOff(p) PROVE QueueTypeOK'
  BY <1>6 DEF HandOff, Goto
<1>7. ASSUME NEW p \in Procs, Ack(p) PROVE QueueTypeOK'
  BY <1>7 DEF Ack, Advance, Rest, Goto
<1>8. ASSUME NEW p \in Procs, JobsReturns(p) PROVE QueueTypeOK'
  BY <1>8 DEF JobsReturns, Goto
<1>9. ASSUME NEW p \in Procs, JobDone(p) PROVE QueueTypeOK'
  BY <1>9 DEF JobDone
<1>10. ASSUME NEW p \in Procs, NEW q \in Procs, Claim(p, q) PROVE QueueTypeOK'
  BY <1>10 DEF Claim
<1>11. ASSUME NEW p \in Procs, ReadEmpty(p) PROVE QueueTypeOK'
  BY <1>11 DEF ReadEmpty
<1>12. CASE UNCHANGED queueVars
  BY <1>12
<1> QED
  BY <1>1, <1>2, <1>3, <1>4, <1>5, <1>6, <1>7, <1>8, <1>9, <1>10, <1>11, <1>12
  DEF Next, JobsStep

\* A delivery moves last over exactly the new entries and makes them pending.
LEMMA DeliveredFacts ==
    ASSUME QueueInv, NEW p \in Procs, Delivered(p)
    PROVE  /\ last' \in Nat /\ last' > last
           /\ \A e \in Entries : e \in NewEntries <=> last < e /\ e <= last'
           /\ \A e \in Entries : owner'[e] = IF e \in NewEntries THEN p ELSE owner[e]
<1>1. last \in Nat /\ added \in Nat /\ Entries \subseteq Nat
  BY QueueAssumption DEF QueueInv, QueueTypeOK, Entries
<1>2. last' \in NewEntries /\ \A e \in NewEntries : e <= last'
  BY DEF Delivered
<1>3. last' \in Nat /\ last < last' /\ last' <= last + Count /\ last' <= added
  BY <1>1, <1>2 DEF NewEntries
<1>4. \A e \in Entries : e \in NewEntries <=> last < e /\ e <= last'
  BY <1>1, <1>2, <1>3, QueueAssumption DEF NewEntries
<1>5. \A e \in Entries : owner'[e] = IF e \in NewEntries THEN p ELSE owner[e]
  BY DEF Delivered
<1> QED  BY <1>1, <1>3, <1>4, <1>5

\* The other parts of the invariant, action by action.
LEMMA BatchStep ==
    ASSUME QueueInv, [Next]_queueVars
    PROVE  (NewUntouched /\ BatchWhere /\ BatchesDisjoint /\ BatchPending /\ NoGroup)'
<1> DEFINE Good == NewUntouched /\ BatchWhere /\ BatchesDisjoint /\ BatchPending /\ NoGroup
<1> USE QueueAssumption DEF QueueInv, QueueTypeOK, Entries, redis, proc, history, queueVars,
        NewUntouched, BatchWhere, BatchesDisjoint, BatchPending, NoGroup, FirstOf
<1>1. CASE PushJob
  BY <1>1 DEF PushJob
<1>2. ASSUME NEW p \in Procs, Start(p) PROVE Good'
  <2>1. NewUntouched'
    BY <1>2 DEF Start, Goto, GroupStart
  <2>2. BatchWhere'
    BY <1>2 DEF Start, Goto, GroupStart
  <2>3. BatchesDisjoint'
    BY <1>2 DEF Start, Goto, GroupStart
  <2>4. BatchPending'
    BY <1>2 DEF Start, Goto, GroupStart
  <2>5. NoGroup'
    BY <1>2 DEF Start, Goto, GroupStart
  <2> QED  BY <2>1, <2>2, <2>3, <2>4, <2>5
<1>3. ASSUME NEW p \in Procs, Gone(p), UNCHANGED <<redis, history>> PROVE Good'
  <2>1. NewUntouched'
    BY <1>3 DEF Gone, Goto
  <2>2. BatchWhere'
    BY <1>3 DEF Gone, Goto
  <2>3. BatchesDisjoint'
    BY <1>3 DEF Gone, Goto
  <2>4. BatchPending'
    BY <1>3 DEF Gone, Goto
  <2>5. NoGroup'
    BY <1>3 DEF Gone, Goto
  <2> QED  BY <2>1, <2>2, <2>3, <2>4, <2>5
<1>4. ASSUME NEW p \in Procs, Cancel(p) PROVE Good'
  BY <1>4 DEF Cancel
<1>5. ASSUME NEW p \in Procs, Read(p) PROVE Good'
  <2>1. NewUntouched'
    <3> SUFFICES ASSUME NEW e \in Entries, e > last' PROVE owner'[e] = None /\ handed'[e] = 0
      OBVIOUS
    <3>1. last \in Nat /\ last' \in Nat /\ e \in Nat /\ e > last
      BY <1>5, DeliveredFacts DEF Read
    <3> QED  BY <1>5, <3>1, DeliveredFacts DEF Read
  <2>2. BatchWhere'
    BY <1>5 DEF Read, Delivered, NewEntries, Goto
  <2>3. BatchesDisjoint'
    BY <1>5 DEF Read, Delivered, NewEntries, Goto
  <2>4. BatchPending'
    <3> SUFFICES ASSUME NEW q \in Procs, NEW e \in batch'[q]
                 PROVE  /\ e <= last'
                        /\ IF pc'[q] = "ack" /\ FirstOf(q, e)' THEN handed'[e] > 0
                           ELSE handed'[e] = 0 /\ owner'[e] # None
      BY DEF BatchPending
    <3>1. last \in Nat /\ last' \in Nat /\ last' > last
      BY <1>5, DeliveredFacts DEF Read
    <3>2. CASE q = p
      <4>1. e \in NewEntries /\ pc'[q] = "handoff"
        BY <1>5, <3>2 DEF Read, Goto
      <4>2. e \in Entries /\ e > last /\ e <= last' /\ owner'[e] = p
        BY <1>5, <3>1, <4>1, DeliveredFacts DEF Read, NewEntries
      <4>3. handed'[e] = 0 /\ p # None
        BY <1>5, <4>2 DEF Read
      <4> QED  BY <4>1, <4>2, <4>3
    <3>3. CASE q # p
      <4>1. e \in batch[q] /\ pc'[q] = pc[q] /\ batch'[q] = batch[q]
        BY <1>5, <3>3 DEF Read, Goto
      <4>2. e \in Entries /\ e <= last /\ owner'[e] = owner[e] /\ handed' = handed
        BY <1>5, <3>1, <4>1, DeliveredFacts DEF Read
      <4>3. (FirstOf(q, e)' <=> FirstOf(q, e)) /\ e <= last'
        BY <3>1, <4>1, <4>2
      <4> QED  BY <4>1, <4>2, <4>3
    <3> QED  BY <3>2, <3>3
  <2>5. NoGroup'
    BY <1>5 DEF Read, Delivered, NewEntries, Goto
  <2> QED  BY <2>1, <2>2, <2>3, <2>4, <2>5
<1>6. ASSUME NEW p \in Procs, ReadLost(p) PROVE Good'
  <2>1. NewUntouched'
    <3> SUFFICES ASSUME NEW e \in Entries, e > last' PROVE owner'[e] = None /\ handed'[e] = 0
      OBVIOUS
    <3>1. last \in Nat /\ last' \in Nat /\ e \in Nat /\ e > last
      BY <1>6, DeliveredFacts DEF ReadLost
    <3> QED  BY <1>6, <3>1, DeliveredFacts DEF ReadLost
  <2>2. BatchWhere'
    BY <1>6 DEF ReadLost, Delivered, NewEntries
  <2>3. BatchesDisjoint'
    BY <1>6 DEF ReadLost, Delivered, NewEntries
  <2>4. BatchPending'
    BY <1>6 DEF ReadLost, Delivered, NewEntries
  <2>5. NoGroup'
    BY <1>6 DEF ReadLost, Delivered, NewEntries
  <2> QED  BY <2>1, <2>2, <2>3, <2>4, <2>5
<1>7. ASSUME NEW p \in Procs, HandOff(p) PROVE Good'
  BY <1>7 DEF HandOff, Goto
<1>8. ASSUME NEW p \in Procs, Ack(p) PROVE Good'
  BY <1>8 DEF Ack, Advance, Rest, Goto
<1>9. ASSUME NEW p \in Procs, JobsReturns(p) PROVE Good'
  BY <1>9 DEF JobsReturns, Goto
<1>10. ASSUME NEW p \in Procs, JobDone(p) PROVE Good'
  BY <1>10 DEF JobDone
<1>11. ASSUME NEW p \in Procs, NEW q \in Procs, Claim(p, q) PROVE Good'
  BY <1>11 DEF Claim
<1>12. ASSUME NEW p \in Procs, ReadEmpty(p) PROVE Good'
  BY <1>12 DEF ReadEmpty
<1>13. CASE UNCHANGED queueVars
  BY <1>13
<1> QED
  BY <1>1, <1>2, <1>3, <1>4, <1>5, <1>6, <1>7, <1>8, <1>9, <1>10, <1>11, <1>12, <1>13
  DEF Next, JobsStep, Exit, Crash

(***************************************************************************)
(* The inductive invariant holds in every reachable state: what a reader   *)
(* holds is pending under its name and under no other (redis_stream.go:    *)
(* 72-124).                                                                *)
(***************************************************************************)
THEOREM QueueInvariant == Spec => []QueueInv
<1>1. QueueInv /\ [Next]_queueVars => QueueInv'
  BY TypeStep, BatchStep DEF QueueInv
<1> QED  BY <1>1, InitInv, PTL DEF Spec

(***************************************************************************)
(* The stream, the group and the readers are typed: last never passes the  *)
(* end of the stream, whatever replies are lost (redis_stream.go:86-104).  *)
(***************************************************************************)
THEOREM QueueTypeCorrect == Spec => []QueueTypeOK
<1>1. QueueInv => QueueTypeOK
  BY DEF QueueInv
<1> QED  BY <1>1, QueueInvariant, PTL
-----------------------------------------------------------------------------
Waiting == Undelivered \cup {e \in Pending : handed[e] = 0}

\* Only PushJob and HandOff are steps of the abstract queue.
LEMMA StepRefines ==
    ASSUME QueueInv, [Next]_queueVars
    PROVE  [Queue!QueueNext]_<<Waiting, handed>>
<1> DEFINE Same == Waiting' = Waiting /\ handed' = handed
<1> USE QueueAssumption DEF QueueInv, QueueTypeOK, Entries, redis, proc, history, queueVars,
        Waiting, Undelivered, Pending
<1>1. CASE PushJob
  <2> DEFINE n == added + 1
  <2>1. n \in Entries /\ n \notin Waiting /\ handed[n] = 0
    BY <1>1 DEF PushJob, NewUntouched
  <2>2. Waiting' = Waiting \cup {n} /\ handed' = handed
    BY <1>1 DEF PushJob, NewUntouched
  <2> QED  BY <2>1, <2>2 DEF Queue!QueueNext, Queue!Push
<1>2. ASSUME NEW p \in Procs, HandOff(p) PROVE Queue!QueueNext
  <2>1. PICK e \in Entries : FirstOf(p, e) /\ handed' = [handed EXCEPT ![e] = @ + 1]
    BY <1>2 DEF HandOff
  <2>2. e \in Waiting
    BY <1>2, <2>1 DEF HandOff, BatchPending, FirstOf
  <2>3. Waiting' = Waiting \ {e}
    BY <1>2, <2>1 DEF HandOff, BatchPending, FirstOf
  <2> QED  BY <2>1, <2>2, <2>3 DEF Queue!QueueNext, Queue!Take
<1>3. ASSUME NEW p \in Procs, Start(p) PROVE Same
  BY <1>3 DEF Start, GroupStart, NoGroup
<1>4. ASSUME NEW p \in Procs, Exit(p) \/ Crash(p) \/ Cancel(p) PROVE Same
  BY <1>4 DEF Exit, Crash, Cancel
<1>5. ASSUME NEW p \in Procs, Read(p) \/ ReadLost(p) PROVE Same
  BY <1>5 DEF Read, ReadLost, Delivered, NewEntries, NewUntouched
<1>6. ASSUME NEW p \in Procs, Ack(p) PROVE Same
  BY <1>6 DEF Ack, BatchPending, FirstOf
<1>7. ASSUME NEW p \in Procs, JobsReturns(p) \/ JobDone(p) \/ ReadEmpty(p) PROVE Same
  BY <1>7 DEF JobsReturns, JobDone, ReadEmpty
<1>8. ASSUME NEW p \in Procs, NEW q \in Procs, Claim(p, q) PROVE Same
  BY <1>8 DEF Claim
<1>9. CASE UNCHANGED queueVars
  BY <1>9
<1> QED
  BY <1>1, <1>2, <1>3, <1>4, <1>5, <1>6, <1>7, <1>8, <1>9 DEF Next, JobsStep

(***************************************************************************)
(* The Redis queue implements the abstract queue: through crashes,         *)
(* restarts, lost replies and lost acknowledgements no entry is handed to  *)
(* two workers, and none stops waiting without being handed to one         *)
(* (redis_stream.go:36-42, 72-124).                                        *)
(***************************************************************************)
THEOREM QueueRefines == Spec => ImplementsJobQueue
<1>1. Init => Queue!QueueInit
  BY QueueAssumption DEF Init, Queue!QueueInit, Undelivered, Pending, Entries
<1>2. QueueInv /\ [Next]_queueVars
        => [Queue!QueueNext]_<<Undelivered \cup {e \in Pending : handed[e] = 0}, handed>>
  BY StepRefines DEF Waiting
<1> QED  BY <1>1, <1>2, QueueInvariant, PTL DEF Spec, ImplementsJobQueue, Queue!QueueSpec
=============================================================================
