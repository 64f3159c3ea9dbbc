---------------------------- MODULE JobAPIProofs ----------------------------
(***************************************************************************)
(* Proofs about JobAPI, for every set of POSTs, ticks and status clients,  *)
(* every number of queries and every choice of repeated pushes: what a 202 *)
(* promises, what a scheduled run promises and what a status answer says.  *)
(***************************************************************************)
EXTENDS JobAPI, FiniteSetTheorems, TLAPS

Labels == {"idle", "push", "answer", "done", "noRunID", "exited", "crashed"}

\* The shapes of the variables, those the type invariant leaves out included.
Shapes ==
    /\ waiting \subseteq Entries
    /\ taken \in [Entries -> 0..1]
    /\ \A e \in waiting : taken[e] = 0
    /\ rows \in [Runs -> Nat]
    /\ api \in {"up", "closing", "stopping", "down"}
    /\ submitted \subseteq Posts
    /\ pc \in [Runs -> Labels]
    /\ next \in [Runs -> 1..(N + 1)]
    /\ failed \in [Ticks -> SUBSET (1..N)]
    /\ answer \in [Posts -> Nat]
    /\ asked \in [Gets -> Runs \cup {None}]
    /\ found \in [Gets -> BOOLEAN]
    /\ sure \in [Gets -> BOOLEAN]

\* A run that has not begun will begin with its first query.
IdleAtFirst == \A r \in Runs : pc[r] = "idle" => next[r] = 1

\* A run pushes each query once: nothing of it is in the queue before it
\* begins, and while it pushes, only queries before the next one are.
PushedInOrder ==
    \A e \in Entries : InQueue(e) =>
        /\ pc[e[1]] # "idle"
        /\ pc[e[1]] = "push" => e[2] < next[e[1]]

\* What a POST has got through, at each point of the handler.
PostProgress ==
    \A r \in Posts :
        /\ pc[r] = "push" => \A q \in 1..N : q < next[r] => InQueue(<<r, q, 1>>)
        /\ pc[r] = "answer" => r \in submitted /\ \A q \in 1..N : InQueue(<<r, q, 1>>)
        /\ answer[r] = 202 => \A q \in 1..N : InQueue(<<r, q, 1>>)

\* What a tick has got through.
TickProgress ==
    \A t \in Ticks :
        /\ pc[t] \notin {"answer", "exited"}
        /\ pc[t] = "push" =>
              \A q \in 1..N : q < next[t] => q \in failed[t] \/ InQueue(<<t, q, 1>>)
        /\ pc[t] = "done" => \A q \in 1..N : q \in failed[t] \/ InQueue(<<t, q, 1>>)

\* A 202 comes after the run is recorded, and a request sent after it finds it.
Recording ==
    /\ known \subseteq submitted
    /\ \A g \in Gets : sure[g] => found[g]

TakenOf(r) == {e \in Entries : e[1] = r /\ taken[e] = 1}

RowsCounted == \A r \in Runs : rows[r] <= Cardinality(TakenOf(r))

APIInv ==
    /\ Shapes /\ IdleAtFirst /\ PushedInOrder
    /\ PostProgress /\ TickProgress
    /\ Recording /\ RowsCounted
-----------------------------------------------------------------------------
\* A first copy of a query can always be stored (redis_stream.go: PushJob).
LEMMA FirstCopy ==
    ASSUME NEW r \in Runs, NEW q \in 1..N
    PROVE  <<r, q, 1>> \in Entries /\ 1 \in Copies(r, q)
  BY DEF Entries, Copies

\* An entry is a run, a query and a copy.
LEMMA EntryParts ==
    ASSUME NEW e \in Entries
    PROVE  e[1] \in Runs /\ e[2] \in 1..N /\ e[3] \in 1..2 /\ e = <<e[1], e[2], e[3]>>
  BY DEF Entries

\* A run has finitely many entries, whatever the number of runs.
LEMMA TakenFinite ==
    ASSUME NEW r \in Runs
    PROVE  IsFiniteSet(TakenOf(r))
<1> DEFINE Pairs == (1..N) \X (1..2)
           f == [e \in TakenOf(r) |-> <<e[2], e[3]>>]
<1>1. IsFiniteSet(Pairs)
  <2>1. 1 \in Int /\ 2 \in Int /\ N \in Int
    BY JobAPIAssumption
  <2>2. IsFiniteSet(1..N)
    BY <2>1, FS_Interval, Zenon
  <2>3. IsFiniteSet(1..2)
    BY <2>1, FS_Interval, Zenon
  <2> QED BY <2>2, <2>3, FS_Product
<1>2. f \in [TakenOf(r) -> Pairs]
  BY EntryParts DEF TakenOf
<1>3. \A a, b \in TakenOf(r) : f[a] = f[b] => a = b
  <2> SUFFICES ASSUME NEW a \in TakenOf(r), NEW b \in TakenOf(r), f[a] = f[b] PROVE a = b
    OBVIOUS
  <2>1. a = <<r, a[2], a[3]>> /\ b = <<r, b[2], b[3]>>
    BY EntryParts DEF TakenOf
  <2>2. a[2] = b[2] /\ a[3] = b[3]
    OBVIOUS
  <2> QED BY <2>1, <2>2
<1>4. f \in Injection(TakenOf(r), Pairs)
  BY <1>2, <1>3 DEF Injection, IsInjective
<1> QED BY <1>1, <1>4, FS_Injection

\* A push stores a query's copies from the first on.
LEMMA CopiesFacts ==
    ASSUME NEW r \in Runs, NEW q \in 1..N, NEW n \in Copies(r, q)
    PROVE  1..n \subseteq Copies(r, q) /\ 1 \in 1..n
  BY DEF Copies

\* A push adds entries that were not in the queue before, and takes nothing
\* away (redis_stream.go: PushJob).
LEMMA StoredFacts ==
    ASSUME Shapes, PushedInOrder, NEW r \in Runs, pc[r] = "push", next[r] <= N,
           NEW copies \in SUBSET Copies(r, next[r]), Stored(r, copies)
    PROVE  /\ waiting' \subseteq Entries
           /\ taken' = taken
           /\ \A e \in waiting' : taken[e] = 0
           /\ \A e : InQueue(e) => InQueue(e)'
           /\ \A e \in Entries : InQueue(e)' => InQueue(e) \/ (e[1] = r /\ e[2] = next[r])
           /\ 1 \in copies => <<r, next[r], 1>> \in waiting'
<1>1. next[r] \in 1..N
  BY JobAPIAssumption DEF Shapes
<1>2. \A c \in copies : <<r, next[r], c>> \in Entries
  BY <1>1 DEF Entries, Copies
<1>3. \A c \in copies : ~InQueue(<<r, next[r], c>>)
  BY <1>1, <1>2 DEF PushedInOrder
<1>4. \A c \in copies : taken[<<r, next[r], c>>] = 0
  BY <1>2, <1>3 DEF InQueue, Shapes
<1>5. waiting' = waiting \cup {<<r, next[r], c>> : c \in copies} /\ taken' = taken
  BY DEF Stored
<1>6. waiting' \subseteq Entries /\ \A e \in waiting' : taken[e] = 0
  BY <1>2, <1>4, <1>5 DEF Shapes
<1>7. \A e : InQueue(e) => InQueue(e)'
  BY <1>5 DEF InQueue
<1>8. \A e \in Entries : InQueue(e)' => InQueue(e) \/ (e[1] = r /\ e[2] = next[r])
  BY <1>5 DEF InQueue
<1>9. 1 \in copies => <<r, next[r], 1>> \in waiting'
  BY <1>5
<1> QED BY <1>5, <1>6, <1>7, <1>8, <1>9

\* Initially nothing is queued, recorded or asked.
LEMMA APIInitInv == Init => APIInv
<1> SUFFICES ASSUME Init PROVE APIInv
  OBVIOUS
<1> USE JobAPIAssumption DEF Init, Queue!QueueInit
<1>1. Shapes
  BY DEF Shapes, Labels
<1>2. \A e \in Entries : ~InQueue(e)
  BY DEF InQueue
<1>3. \A r \in Runs : Cardinality(TakenOf(r)) \in Nat
  BY TakenFinite, FS_CardinalityType
<1> QED BY <1>1, <1>2, <1>3
  DEF APIInv, IdleAtFirst, PushedInOrder, PostProgress, TickProgress, Recording,
      RowsCounted, Runs

\* The parts that speak of rows and entries taken only, when neither changes.
LEMMA RowsKept ==
    ASSUME RowsCounted, UNCHANGED <<taken, rows>>
    PROVE  RowsCounted'
  BY DEF RowsCounted, TakenOf

\* A push that succeeds or fails leaves the queue in shape; one that succeeds
\* leaves a first copy there (server.go:94-100, scheduler.go:88-92).
LEMMA PushFacts ==
    ASSUME APIInv, NEW r \in Runs, Pushing(r), PushFails(r) \/ PushOK(r)
    PROVE  /\ waiting' \subseteq Entries
           /\ taken' = taken
           /\ \A e \in waiting' : taken[e] = 0
           /\ \A e : InQueue(e) => InQueue(e)'
           /\ \A e \in Entries : InQueue(e)' => InQueue(e) \/ (e[1] = r /\ e[2] = next[r])
           /\ PushOK(r) => \A q : q = next[r] => InQueue(<<r, q, 1>>)'
<1>1. pc[r] = "push" /\ next[r] <= N /\ next[r] \in 1..N
  BY JobAPIAssumption DEF Pushing, APIInv, Shapes
<1>2. \A n \in Copies(r, next[r]) : 1..n \in SUBSET Copies(r, next[r]) /\ 1 \in 1..n
  BY <1>1, CopiesFacts
<1>3. 1..0 \in SUBSET Copies(r, next[r])
  OBVIOUS
<1>4. CASE PushOK(r)
  <2>1. PICK n \in Copies(r, next[r]) : Stored(r, 1..n)
    BY <1>4 DEF PushOK
  <2>2. 1..n \in SUBSET Copies(r, next[r]) /\ 1 \in 1..n
    BY <1>2
  <2> QED BY <1>1, <2>1, <2>2, StoredFacts DEF APIInv, InQueue
<1>5. CASE PushFails(r) /\ ~PushOK(r)
  <2>1. PICK n \in {0} \cup Copies(r, next[r]) : Stored(r, 1..n)
    BY <1>5 DEF PushFails
  <2>2. 1..n \in SUBSET Copies(r, next[r])
    BY <1>2, <1>3
  <2> QED BY <1>1, <1>5, <2>1, <2>2, StoredFacts DEF APIInv
<1> QED BY <1>4, <1>5

\* A push of a query keeps the invariant (server.go:94-100,
\* scheduler.go:88-92).
LEMMA PushedStep ==
    ASSUME APIInv, NEW r \in Runs, Pushed(r)
    PROVE  APIInv'
<1> USE JobAPIAssumption DEF Pushed, Pushing, getVars
<1>1. pc[r] = "push" /\ next[r] <= N /\ next[r] \in 1..N
  BY DEF APIInv, Shapes
<1>2. /\ waiting' \subseteq Entries
      /\ taken' = taken
      /\ \A e \in waiting' : taken[e] = 0
      /\ \A e : InQueue(e) => InQueue(e)'
      /\ \A e \in Entries : InQueue(e)' => InQueue(e) \/ (e[1] = r /\ e[2] = next[r])
      /\ \A q : q = next[r] => InQueue(<<r, q, 1>>)'
  BY PushFacts
<1>3. Shapes'
  BY <1>1, <1>2 DEF APIInv, Shapes
<1>4. PushedInOrder'
  <2> SUFFICES ASSUME NEW e \in Entries, InQueue(e)'
               PROVE  pc[e[1]] # "idle" /\ (pc[e[1]] = "push" => e[2] < next'[e[1]])
    BY DEF PushedInOrder
  <2>1. e[1] \in Runs /\ e[2] \in 1..N /\ next \in [Runs -> 1..(N + 1)]
    BY EntryParts DEF APIInv, Shapes
  <2>2. CASE e[1] = r /\ e[2] = next[r]
    BY <1>1, <2>1, <2>2
  <2>3. CASE InQueue(e)
    BY <2>1, <2>3 DEF APIInv, PushedInOrder
  <2> QED BY <1>2, <2>2, <2>3
<1>5. next \in [Runs -> 1..(N + 1)]
  BY DEF APIInv, Shapes
<1>6. PostProgress'
  <2> SUFFICES ASSUME NEW p \in Posts
               PROVE  /\ pc[p] = "push" => \A q \in 1..N : q < next'[p] => InQueue(<<p, q, 1>>)'
                      /\ pc[p] = "answer" => p \in submitted /\ \A q \in 1..N : InQueue(<<p, q, 1>>)'
                      /\ answer[p] = 202 => \A q \in 1..N : InQueue(<<p, q, 1>>)'
    BY DEF PostProgress
  <2>1. p \in Runs
    BY DEF Runs
  <2>2. \A q \in 1..N : q < next'[p] => q < next[p] \/ (p = r /\ q = next[r])
    BY <1>5, <2>1
  <2> QED BY <1>2, <2>2 DEF APIInv, PostProgress
<1>7. TickProgress'
  <2> SUFFICES ASSUME NEW t \in Ticks
               PROVE  /\ pc[t] \notin {"answer", "exited"}
                      /\ pc[t] = "push" => \A q \in 1..N :
                            q < next'[t] => q \in failed[t] \/ InQueue(<<t, q, 1>>)'
                      /\ pc[t] = "done" =>
                            \A q \in 1..N : q \in failed[t] \/ InQueue(<<t, q, 1>>)'
    BY DEF TickProgress
  <2>1. t \in Runs
    BY DEF Runs
  <2>2. \A q \in 1..N : q < next'[t] => q < next[t] \/ (t = r /\ q = next[r])
    BY <1>5, <2>1
  <2> QED BY <1>2, <2>2 DEF APIInv, TickProgress
<1>8. Recording'
  BY DEF APIInv, Recording
<1>9. RowsCounted'
  BY <1>2, RowsKept DEF APIInv
<1>10. IdleAtFirst'
  BY <1>1, <1>5 DEF APIInv, IdleAtFirst
<1> QED BY <1>3, <1>4, <1>6, <1>7, <1>8, <1>9, <1>10 DEF APIInv

\* A failed push ends a POST; its entry may be in the queue (server.go:95-98).
LEMMA PostPushFailsStep ==
    ASSUME APIInv, NEW r \in Posts, PostPushFails(r)
    PROVE  APIInv'
<1> USE JobAPIAssumption DEF PostPushFails, PostFailed, Answered, Over, Goto, getVars
<1>1. r \in Runs /\ r \notin Ticks /\ Pushing(r) /\ pc[r] = "push"
  BY DEF Runs, Pushing
<1>2. /\ waiting' \subseteq Entries
      /\ taken' = taken
      /\ \A e \in waiting' : taken[e] = 0
      /\ \A e : InQueue(e) => InQueue(e)'
      /\ \A e \in Entries : InQueue(e)' => InQueue(e) \/ (e[1] = r /\ e[2] = next[r])
  BY <1>1, PushFacts
<1>3. Shapes'
  BY <1>1, <1>2 DEF APIInv, Shapes, Labels
<1>4. /\ \A x \in Runs \ {r} : pc'[x] = pc[x] /\ next'[x] = next[x]
      /\ pc'[r] = "done" /\ answer'[r] = 502
      /\ \A x \in Posts \ {r} : answer'[x] = answer[x]
  BY <1>1 DEF APIInv, Shapes
<1>5. PushedInOrder'
  BY <1>2, <1>4, EntryParts DEF APIInv, PushedInOrder
<1>6. PostProgress'
  BY <1>2, <1>4 DEF APIInv, PostProgress, Runs
<1>7. TickProgress'
  BY <1>1, <1>2, <1>4 DEF APIInv, TickProgress, Runs
<1>8. Recording'
  BY DEF APIInv, Recording
<1>9. RowsCounted'
  BY <1>2, RowsKept DEF APIInv
<1>10. IdleAtFirst'
  BY <1>1, <1>4 DEF APIInv, IdleAtFirst
<1> QED BY <1>3, <1>5, <1>6, <1>7, <1>8, <1>9, <1>10 DEF APIInv

\* A failed push costs a tick one query (scheduler.go:88-92).
LEMMA TickPushFailsStep ==
    ASSUME APIInv, NEW t \in Ticks, TickPushFails(t)
    PROVE  APIInv'
<1> USE JobAPIAssumption DEF TickPushFails, TickFailed, Pushing, getVars
<1>1. t \in Runs /\ t \notin Posts /\ pc[t] = "push" /\ next[t] \in 1..N
  BY DEF Runs, APIInv, Shapes
<1>2. /\ waiting' \subseteq Entries
      /\ taken' = taken
      /\ \A e \in waiting' : taken[e] = 0
      /\ \A e : InQueue(e) => InQueue(e)'
      /\ \A e \in Entries : InQueue(e)' => InQueue(e) \/ (e[1] = t /\ e[2] = next[t])
  BY <1>1, PushFacts
<1>3. Shapes'
  BY <1>1, <1>2 DEF APIInv, Shapes
<1>4. /\ \A x \in Runs \ {t} : next'[x] = next[x]
      /\ next'[t] = next[t] + 1
      /\ \A x \in Ticks \ {t} : failed'[x] = failed[x]
      /\ failed'[t] = failed[t] \cup {next[t]}
  BY <1>1 DEF APIInv, Shapes
<1>5. PushedInOrder'
  <2> SUFFICES ASSUME NEW e \in Entries, InQueue(e)'
               PROVE  pc[e[1]] # "idle" /\ (pc[e[1]] = "push" => e[2] < next'[e[1]])
    BY DEF PushedInOrder
  <2>1. e[1] \in Runs /\ e[2] \in 1..N /\ next[e[1]] \in 1..(N + 1)
    BY EntryParts DEF APIInv, Shapes
  <2>2. CASE e[1] = t /\ e[2] = next[t]
    BY <1>1, <1>4, <2>1, <2>2
  <2>3. CASE InQueue(e)
    BY <1>4, <2>1, <2>3 DEF APIInv, PushedInOrder
  <2> QED BY <1>2, <2>2, <2>3
<1>6. PostProgress'
  BY <1>1, <1>2, <1>4 DEF APIInv, PostProgress, Runs
<1>7. TickProgress'
  <2> SUFFICES ASSUME NEW u \in Ticks
               PROVE  /\ pc[u] \notin {"answer", "exited"}
                      /\ pc[u] = "push" => \A q \in 1..N :
                            q < next'[u] => q \in failed'[u] \/ InQueue(<<u, q, 1>>)'
                      /\ pc[u] = "done" =>
                            \A q \in 1..N : q \in failed'[u] \/ InQueue(<<u, q, 1>>)'
    BY DEF TickProgress
  <2>1. u \in Runs
    BY DEF Runs
  <2>2. CASE u # t
    BY <1>2, <1>4, <2>1, <2>2 DEF APIInv, TickProgress
  <2>3. CASE u = t
    <3>1. \A q \in 1..N : q < next'[t] => q < next[t] \/ q = next[t]
      BY <1>1, <1>4
    <3> QED BY <1>1, <1>2, <1>4, <2>3, <3>1 DEF APIInv, TickProgress
  <2> QED BY <2>2, <2>3
<1>8. Recording'
  BY DEF APIInv, Recording
<1>9. RowsCounted'
  BY <1>2, RowsKept DEF APIInv
<1>10. IdleAtFirst'
  BY <1>1, <1>4 DEF APIInv, IdleAtFirst
<1> QED BY <1>3, <1>5, <1>6, <1>7, <1>8, <1>9, <1>10 DEF APIInv

\* The steps of a POST that do not push: it is refused, begins, is recorded
\* and is answered (server.go:61-92, 102-113).
LEMMA PostStepKeeps ==
    ASSUME APIInv, NEW r \in Posts,
           PostRefused(r) \/ PostAccepted(r) \/ PostRecord(r) \/ PostAnswer(r)
    PROVE  APIInv'
<1> USE JobAPIAssumption
    DEF PostRefused, PostAccepted, PostRecord, PostAnswer, Answered, Over, Goto,
        queueVars, getVars
<1>1. r \in Runs /\ r \notin Ticks /\ waiting' = waiting /\ taken' = taken
  BY DEF Runs
<1>2. Shapes'
  BY <1>1 DEF APIInv, Shapes, Labels
<1>3. \A e : InQueue(e)' <=> InQueue(e)
  BY <1>1 DEF InQueue
<1>4. /\ \A x \in Runs \ {r} : pc'[x] = pc[x] /\ next'[x] = next[x]
      /\ \A x \in Posts \ {r} : answer'[x] = answer[x]
      /\ submitted \subseteq submitted'
  BY <1>1 DEF APIInv, Shapes
<1>5. PushedInOrder'
  <2> SUFFICES ASSUME NEW e \in Entries, InQueue(e)
               PROVE  pc'[e[1]] # "idle" /\ (pc'[e[1]] = "push" => e[2] < next'[e[1]])
    BY <1>3 DEF PushedInOrder
  <2>1. e[1] \in Runs /\ pc[e[1]] # "idle"
    BY EntryParts DEF APIInv, PushedInOrder
  <2>2. CASE e[1] # r
    BY <1>4, <2>1, <2>2 DEF APIInv, PushedInOrder
  <2>3. CASE e[1] = r
    BY <1>1, <2>1, <2>3 DEF APIInv, Shapes
  <2> QED BY <2>2, <2>3
<1>6. PostProgress'
  <2> SUFFICES ASSUME NEW p \in Posts
               PROVE  /\ pc'[p] = "push" => \A q \in 1..N : q < next'[p] => InQueue(<<p, q, 1>>)
                      /\ pc'[p] = "answer" => p \in submitted' /\ \A q \in 1..N : InQueue(<<p, q, 1>>)
                      /\ answer'[p] = 202 => \A q \in 1..N : InQueue(<<p, q, 1>>)
    BY <1>3 DEF PostProgress
  <2>1. CASE p # r
    BY <1>4, <2>1 DEF APIInv, PostProgress, Runs
  <2>2. CASE p = r
    <3> USE DEF APIInv, PostProgress, Shapes, IdleAtFirst
    <3>1. CASE PostRefused(r)
      BY <1>1, <2>2, <3>1
    <3>2. CASE PostAccepted(r)
      BY <1>1, <2>2, <3>2
    <3>3. CASE PostRecord(r)
      <4>1. next[r] \in 1..(N + 1) /\ next[r] > N
        BY <1>1, <3>3
      <4>2. \A q \in 1..N : q < next[r]
        BY <4>1
      <4> QED BY <1>1, <2>2, <3>3, <4>2
    <3>4. CASE PostAnswer(r)
      BY <1>1, <2>2, <3>4
    <3> QED BY <3>1, <3>2, <3>3, <3>4
  <2> QED BY <2>1, <2>2
<1>7. TickProgress'
  BY <1>1, <1>3, <1>4 DEF APIInv, TickProgress, Runs
<1>8. Recording'
  BY DEF APIInv, Recording, PostProgress
<1>9. RowsCounted'
  BY <1>1, RowsKept DEF APIInv
<1>10. IdleAtFirst'
  BY <1>1, <1>4 DEF APIInv, IdleAtFirst, Shapes
<1> QED BY <1>2, <1>5, <1>6, <1>7, <1>8, <1>9, <1>10 DEF APIInv

\* The steps of a tick that do not push (scheduler.go:80-87, 93-95).
LEMMA TickStepKeeps ==
    ASSUME APIInv, NEW t \in Ticks, TickFires(t) \/ TickEnds(t)
    PROVE  APIInv'
<1> USE JobAPIAssumption DEF TickFires, TickEnds, Over, Goto, queueVars, getVars
<1>1. t \in Runs /\ t \notin Posts /\ waiting' = waiting /\ taken' = taken
  BY DEF Runs
<1>2. Shapes'
  BY <1>1 DEF APIInv, Shapes, Labels
<1>3. \A e : InQueue(e)' <=> InQueue(e)
  BY <1>1 DEF InQueue
<1>4. \A x \in Runs \ {t} : pc'[x] = pc[x] /\ next'[x] = next[x]
  BY <1>1 DEF APIInv, Shapes
<1>5. PushedInOrder'
  <2> SUFFICES ASSUME NEW e \in Entries, InQueue(e)
               PROVE  pc'[e[1]] # "idle" /\ (pc'[e[1]] = "push" => e[2] < next'[e[1]])
    BY <1>3 DEF PushedInOrder
  <2>1. e[1] \in Runs /\ pc[e[1]] # "idle"
    BY EntryParts DEF APIInv, PushedInOrder
  <2>2. CASE e[1] # t
    BY <1>4, <2>1, <2>2 DEF APIInv, PushedInOrder
  <2>3. CASE e[1] = t
    BY <1>1, <2>1, <2>3 DEF APIInv, Shapes
  <2> QED BY <2>2, <2>3
<1>6. PostProgress'
  BY <1>1, <1>3, <1>4 DEF APIInv, PostProgress, Runs
<1>7. TickProgress'
  <2> SUFFICES ASSUME NEW u \in Ticks
               PROVE  /\ pc'[u] \notin {"answer", "exited"}
                      /\ pc'[u] = "push" => \A q \in 1..N :
                            q < next'[u] => q \in failed[u] \/ InQueue(<<u, q, 1>>)
                      /\ pc'[u] = "done" =>
                            \A q \in 1..N : q \in failed[u] \/ InQueue(<<u, q, 1>>)
    BY <1>3 DEF TickProgress
  <2>1. CASE u # t
    BY <1>4, <2>1 DEF APIInv, TickProgress, Runs
  <2>2. CASE u = t /\ TickFires(t)
    BY <1>1, <2>2 DEF APIInv, Shapes, IdleAtFirst
  <2>3. CASE u = t /\ TickEnds(t)
    <3>1. next[t] \in 1..(N + 1) /\ next[t] > N
      BY <1>1, <2>3 DEF APIInv, Shapes
    <3>2. \A q \in 1..N : q < next[t]
      BY <3>1
    <3> QED BY <1>1, <2>3, <3>2 DEF APIInv, Shapes, TickProgress
  <2> QED BY <2>1, <2>2, <2>3
<1>8. Recording'
  BY DEF APIInv, Recording
<1>9. RowsCounted'
  BY <1>1, RowsKept DEF APIInv
<1>10. IdleAtFirst'
  BY <1>1, <1>4 DEF APIInv, IdleAtFirst, Shapes
<1> QED BY <1>2, <1>5, <1>6, <1>7, <1>8, <1>9, <1>10 DEF APIInv

\* A status request reads and answers (server.go:125-150).
LEMMA GetStep ==
    ASSUME APIInv, NEW g \in Gets, GetSubmitted(g) \/ GetAnswered(g)
    PROVE  APIInv'
<1> USE DEF GetSubmitted, GetAnswered, queueVars, postVars
<1>1. asked' \in [Gets -> Runs \cup {None}]
  BY DEF APIInv, Shapes
<1>2. found' \in [Gets -> BOOLEAN] /\ sure' \in [Gets -> BOOLEAN]
  <2>1. CASE GetAnswered(g)
    BY <2>1, Zenon DEF APIInv, Shapes
  <2>2. CASE GetSubmitted(g)
    <3>1. PICK r \in Runs : /\ found' = [found EXCEPT ![g] = r \in submitted]
                            /\ sure' = [sure EXCEPT ![g] = r \in known]
      BY <2>2
    <3>2. (r \in submitted) \in BOOLEAN /\ (r \in known) \in BOOLEAN
      OBVIOUS
    <3>3. found \in [Gets -> BOOLEAN] /\ sure \in [Gets -> BOOLEAN]
      BY DEF APIInv, Shapes
    <3> QED BY <3>1, <3>2, <3>3, Zenon
  <2> QED BY <2>1, <2>2
<1>3. Shapes'
  BY <1>1, <1>2 DEF APIInv, Shapes
<1>4. Recording'
  BY DEF APIInv, Shapes, Recording
<1>5. IdleAtFirst' /\ PushedInOrder' /\ PostProgress' /\ TickProgress'
  BY DEF APIInv, IdleAtFirst, PushedInOrder, PostProgress, TickProgress, InQueue
<1>6. RowsCounted'
  BY RowsKept DEF APIInv
<1> QED BY <1>3, <1>4, <1>5, <1>6 DEF APIInv

\* The process stops, crashes and starts (cmd/api/main.go:85-104): what is
\* in the queue stays there, and a stop waits for its ticks.
LEMMA ProcessStep ==
    ASSUME APIInv, Signal \/ SchedulerStop \/ MainReturns \/ Crash \/ Restart
    PROVE  APIInv'
<1> USE JobAPIAssumption DEF processRest, queueVars, getVars
<1>1. waiting' = waiting /\ taken' = taken /\ rows' = rows
  BY DEF Signal, SchedulerStop, MainReturns, Crash, Restart, Cut
<1>2. \A e : InQueue(e)' <=> InQueue(e)
  BY <1>1 DEF InQueue
<1>3. RowsCounted'
  BY <1>1, RowsKept DEF APIInv
<1>4. CASE Signal \/ SchedulerStop \/ Restart
  <2> USE <1>4 DEF Signal, SchedulerStop, Restart
  <2>1. Shapes'
    BY <1>1 DEF APIInv, Shapes
  <2>2. IdleAtFirst' /\ PushedInOrder' /\ Recording'
    BY <1>2 DEF APIInv, IdleAtFirst, PushedInOrder, Recording
  <2>3. PostProgress' /\ TickProgress'
    BY <1>2 DEF APIInv, PostProgress, TickProgress
  <2> QED BY <1>3, <2>1, <2>2, <2>3 DEF APIInv
<1>5. ASSUME NEW how \in {"exited", "crashed"}, Cut(how), how = "exited" => TicksOver
      PROVE  APIInv'
  <2> USE <1>5 DEF Cut
  <2>1. Shapes'
    BY <1>1 DEF APIInv, Shapes, Labels
  <2>2. IdleAtFirst' /\ Recording'
    BY DEF IdleAtFirst, Recording
  <2>3. \A r \in Runs : pc'[r] \notin {"push", "answer"} /\ (pc'[r] = pc[r] \/ pc'[r] = how)
    OBVIOUS
  <2>4. PushedInOrder'
    BY <1>2, <2>3, EntryParts DEF APIInv, PushedInOrder
  <2>5. PostProgress'
    BY <1>2, <2>3 DEF APIInv, PostProgress, Runs
  <2>6. TickProgress'
    BY <1>2, <2>3 DEF APIInv, TickProgress, TicksOver, Runs
  <2> QED BY <1>3, <2>1, <2>2, <2>4, <2>5, <2>6 DEF APIInv
<1> QED BY <1>4, <1>5 DEF MainReturns, Crash

\* A worker takes an entry that was never taken, and writes at most one row
\* for it (redis_stream.go:86-124, postgres.go).
LEMMA WorkStep ==
    ASSUME APIInv, NEW e \in Entries, Work(e)
    PROVE  APIInv'
<1> USE DEF Work, Write, postVars, getVars, Queue!Take
<1>1. e[1] \in Runs
  BY EntryParts
<1>2. taken[e] = 0 /\ taken' = [taken EXCEPT ![e] = 1] /\ waiting' = waiting \ {e}
  <2>1. taken[e] = 0
    BY DEF APIInv, Shapes
  <2>2. taken[e] + 1 = 1
    BY <2>1
  <2> QED BY <2>1, <2>2
<1>3. Shapes'
  BY <1>1, <1>2 DEF APIInv, Shapes
<1>4. \A x \in Entries : InQueue(x)' <=> InQueue(x)
  BY <1>2 DEF APIInv, Shapes, InQueue
<1>5. \A r \in Runs, q \in 1..N : InQueue(<<r, q, 1>>)' <=> InQueue(<<r, q, 1>>)
  BY <1>4, FirstCopy
<1>6. IdleAtFirst' /\ PushedInOrder' /\ Recording'
  BY <1>4 DEF APIInv, IdleAtFirst, PushedInOrder, Recording
<1>7. PostProgress'
  BY <1>5 DEF APIInv, PostProgress, Runs
<1>8. TickProgress'
  BY <1>5 DEF APIInv, TickProgress, Runs
<1>9. RowsCounted'
  <2> SUFFICES ASSUME NEW r \in Runs PROVE rows'[r] <= Cardinality(TakenOf(r)')
    BY DEF RowsCounted
  <2>1. rows[r] \in Nat /\ rows[r] <= Cardinality(TakenOf(r)) /\ rows \in [Runs -> Nat]
    BY DEF APIInv, Shapes, RowsCounted
  <2>2. CASE r # e[1]
    <3>1. TakenOf(r)' = TakenOf(r)
      BY <1>2, <2>2 DEF APIInv, Shapes, TakenOf
    <3> QED BY <2>1, <2>2, <3>1
  <2>3. CASE r = e[1]
    <3>1. TakenOf(r)' = TakenOf(r) \cup {e} /\ e \notin TakenOf(r)
      BY <1>2, <2>3 DEF APIInv, Shapes, TakenOf
    <3>2. Cardinality(TakenOf(r)) \in Nat
      BY TakenFinite, FS_CardinalityType
    <3>3. Cardinality(TakenOf(r)') = Cardinality(TakenOf(r)) + 1
      BY <3>1, TakenFinite, FS_AddElement
    <3> QED BY <2>1, <2>3, <3>2, <3>3
  <2> QED BY <2>2, <2>3
<1> QED BY <1>3, <1>6, <1>7, <1>8, <1>9 DEF APIInv

\* Every step keeps the inductive invariant.
LEMMA APIStep == APIInv /\ [Next]_vars => APIInv'
<1> SUFFICES ASSUME APIInv, [Next]_vars PROVE APIInv'
  OBVIOUS
<1>1. CASE UNCHANGED vars
  BY <1>1 DEF vars, queueVars, postVars, getVars, APIInv, Shapes, IdleAtFirst, PushedInOrder,
              PostProgress, TickProgress, Recording, RowsCounted, TakenOf, InQueue
<1>2. ASSUME NEW r \in Posts, PostRefused(r) \/ PostAccepted(r) \/ PostStep(r)
      PROVE  APIInv'
  BY <1>2, PushedStep, PostPushFailsStep, PostStepKeeps DEF PostStep, Runs
<1>3. ASSUME NEW t \in Ticks, TickFires(t) \/ TickStep(t)
      PROVE  APIInv'
  BY <1>3, PushedStep, TickPushFailsStep, TickStepKeeps DEF TickStep, Runs
<1> QED BY <1>1, <1>2, <1>3, GetStep, ProcessStep, WorkStep DEF Next, Finished

\* The inductive invariant holds in every reachable state.
LEMMA APIInvariant == Spec => []APIInv
  BY APIInitInv, APIStep, PTL DEF Spec
-----------------------------------------------------------------------------
(***************************************************************************)
(* The queue, the table and the bookkeeping are typed: no entry is worked  *)
(* on twice although pushes are repeated, a run has at most a row for each *)
(* entry taken, and only POSTs are recorded (server.go:94-106).            *)
(***************************************************************************)
THEOREM APITypeCorrect == Spec => []APITypeOK
<1>1. APIInv => APITypeOK
  <2> SUFFICES ASSUME APIInv PROVE APITypeOK
    OBVIOUS
  <2>1. ASSUME NEW r \in Runs
        PROVE  rows[r] \in 0..Cardinality({e \in Entries : e[1] = r /\ taken[e] = 1})
    <3>1. Cardinality(TakenOf(r)) \in Nat
      BY TakenFinite, FS_CardinalityType
    <3>2. rows[r] \in Nat /\ rows[r] <= Cardinality(TakenOf(r))
      BY DEF APIInv, Shapes, RowsCounted
    <3>3. rows[r] \in 0..Cardinality(TakenOf(r))
      BY <3>1, <3>2
    <3> QED BY <3>3 DEF TakenOf
  <2> QED BY <2>1 DEF APIInv, Shapes, APITypeOK
<1> QED BY <1>1, APIInvariant, PTL

(***************************************************************************)
(* 202 means queued, for every number of queries, clients, ticks and       *)
(* restarts: whatever pushes fail or are repeated and whenever the process *)
(* stops or crashes, every query of an accepted run is in the queue or was *)
(* taken from it (server.go:94-106).                                       *)
(***************************************************************************)
THEOREM AcceptedRunsAreQueued == Spec => []AcceptedIsQueued
<1>1. APIInv => AcceptedIsQueued
  BY FirstCopy DEF APIInv, PostProgress, AcceptedIsQueued, Runs
<1> QED BY <1>1, APIInvariant, PTL

(***************************************************************************)
(* A scheduled run is cut short by nothing but a crash: a stop waits for   *)
(* it, and a failed push costs one query only (scheduler.go:71-92).        *)
(***************************************************************************)
THEOREM ScheduledRunsComplete == Spec => []TicksComplete
<1>1. APIInv => TicksComplete
  BY DEF APIInv, TickProgress, TicksComplete
<1> QED BY <1>1, APIInvariant, PTL

(***************************************************************************)
(* A status asked for after the 202 knows the run, and no status counts    *)
(* more rows than workers took entries of the run (server.go:102-106,      *)
(* 130-145).                                                               *)
(***************************************************************************)
THEOREM StatusIsTruthful == Spec => StatusKnowsAccepted
<1> DEFINE Truthful ==
       \A g \in Gets : GetAnswered(g) =>
          /\ sure[g] => StatusOf(g).submittedKnown /\ StatusOf(g).submitted = N
          /\ StatusOf(g).completed <= Cardinality({e \in Entries : e[1] = asked[g] /\ taken[e] = 1})
<1>1. APIInv => Truthful
  <2> SUFFICES ASSUME APIInv, NEW g \in Gets, asked[g] # None
               PROVE  /\ sure[g] => StatusOf(g).submittedKnown /\ StatusOf(g).submitted = N
                      /\ StatusOf(g).completed <= Cardinality(TakenOf(asked[g]))
    BY DEF GetAnswered, TakenOf
  <2>1. asked[g] \in Runs /\ (sure[g] => found[g])
    BY DEF APIInv, Shapes, Recording
  <2>2. /\ rows[asked[g]] \in Nat /\ rows[asked[g]] <= Cardinality(TakenOf(asked[g]))
        /\ Cardinality(TakenOf(asked[g])) \in Nat
    BY <2>1, TakenFinite, FS_CardinalityType DEF APIInv, Shapes, RowsCounted
  <2> QED BY <2>1, <2>2 DEF StatusOf, CountByRunID
<1>2. APIInv /\ [Next]_vars => [Truthful]_vars
  BY <1>1
<1> QED BY <1>2, APIInvariant, PTL DEF Spec, StatusKnowsAccepted
=============================================================================
