--------------------------- MODULE CrawlerProofs ---------------------------
(***************************************************************************)
(* Proofs about Crawler, for any number of workers, every site and every   *)
(* robots.txt, budget and depth.                                           *)
(***************************************************************************)
EXTENDS Crawler, FiniteSetTheorems, WellFoundedInduction, TLAPS

(***************************************************************************)
(* The inductive invariant.                                                *)
(***************************************************************************)
Depths == {NotSeen} \cup 0..MaxDepth

Frontiers == [depth : [Pages -> Depths], pending : Seq(Pages), exhausted : BOOLEAN]

\* A frontier within its budget, whose queue holds pages that were seen.
GoodFrontier(fr) ==
    /\ fr \in Frontiers
    /\ IsFiniteSet(Seen(fr)) /\ Cardinality(Seen(fr)) <= MaxPages
    /\ ToSet(fr.pending) \subseteq Seen(fr)

\* What CrawlTypeOK leaves out: the target, the links a visit returns, and
\* that a page being visited was seen.
Shapes ==
    /\ target \in [links : Sites, moved : Moves, file : Files, respectRobots : BOOLEAN]
    /\ links \in [Workers -> Seq(Pages)]
    /\ fetched \subseteq Seen(frontier)
    /\ \A w \in Workers : pc[w] \notin {"idle", "exit"} => page[w] \in Seen(frontier)

\* Links are followed from pages above MaxDepth only.
LinksAbove ==
    \A w \in Workers : links[w] # <<>> => pc[w] = "found" /\ frontier.depth[page[w]] < MaxDepth

\* Once jobs is closed nobody visits a page.
NobodyLeft == coord # "loop" => Visiting = {}

\* The links of a fetched page were seen or are on their way to the
\* coordinator.
LinksOnTheWay ==
    ~ctxDone /\ ~frontier.exhausted =>
        \A p \in fetched : frontier.depth[p] < MaxDepth =>
            \/ ToSet(LinksOf(p)) \subseteq Seen(frontier)
            \/ \E w \in Workers : pc[w] = "found" /\ links[w] = LinksOf(p)

\* One visit asks for robots.txt.  The cached rules are what the answer made
\* them, and a page on its way to a request is one they allow.
RulesKept ==
    /\ \A w \in Workers : pc[w] = "getting" => robots = "getting"
    /\ \A v, w \in Workers : pc[v] = "getting" /\ pc[w] = "getting" => v = w
    /\ robots = "ready" => answer \in RobotsGetter /\ rules = RulesFor(answer, target.file)
    /\ target.respectRobots =>
          \A w \in Workers : pc[w] \in {"gate", "request", "fetch"} =>
              robots = "ready" /\ Allowed(rules, page[w])

CrawlInv ==
    /\ CrawlTypeOK /\ GoodFrontier(frontier) /\ Shapes /\ LinksAbove /\ NobodyLeft
    /\ EveryPageCounted /\ LinksOnTheWay /\ RulesKept
-----------------------------------------------------------------------------
(***************************************************************************)
(* Induction over the naturals, stated with a set instead of a predicate.  *)
(***************************************************************************)
\* A non-empty set of naturals has a least element.
LEMMA LeastNat ==
    ASSUME NEW T, T \subseteq Nat, T # {}
    PROVE  \E n \in T : \A m \in T : ~(m < n)
<1> DEFINE R == OpToRel(<, Nat)
<1>1. IsWellFoundedOn(R, Nat)
  BY NatLessThanWellFounded, Zenon
<1>2. \A x, y \in Nat : x < y => <<x, y>> \in R
  BY DEF OpToRel
<1> HIDE DEF R
<1>3. \E x \in T : \A y \in T : ~(<<y, x>> \in R)
  BY <1>1, WFMin, Zenon
<1> QED BY <1>2, <1>3

\* A set with 0 and with every successor has all naturals.
LEMMA SetInduction ==
    ASSUME NEW S, 0 \in S, \A n \in Nat : n \in S => n + 1 \in S
    PROVE  \A n \in Nat : n \in S
<1> SUFFICES ASSUME {n \in Nat : n \notin S} # {} PROVE FALSE
  OBVIOUS
<1>1. PICK n \in {n \in Nat : n \notin S} : \A m \in {m \in Nat : m \notin S} : ~(m < n)
  BY LeastNat
<1>2. n # 0 /\ n - 1 \in Nat /\ n - 1 < n /\ (n - 1) + 1 = n
  BY <1>1
<1> QED BY <1>1, <1>2

-----------------------------------------------------------------------------
\* g queues the first n pages of ps, one after the other.
Queues(g, fr, ps, d, n) ==
    g = [i \in 0..n |-> IF i = 0 THEN fr ELSE Enqueue(g[i - 1], ps[i], d)]

\* A function that queues exists, for a prefix of any length.
LEMMA QueuesExists ==
    ASSUME NEW fr, NEW ps, NEW d
    PROVE  \A n \in Nat : \E g : Queues(g, fr, ps, d, n)
<1> DEFINE S == {n \in Nat : \E g : Queues(g, fr, ps, d, n)}
<1>1. 0 \in S
  <2> DEFINE g == [i \in 0..0 |-> fr]
  <2>1. \A i \in 0..0 : i = 0
    OBVIOUS
  <2>2. Queues(g, fr, ps, d, 0)
    BY <2>1 DEF Queues
  <2> QED BY <2>2
<1>2. ASSUME NEW n \in Nat, n \in S PROVE n + 1 \in S
  <2>1. PICK g : Queues(g, fr, ps, d, n)
    BY <1>2
  <2> DEFINE h == [i \in 0..(n + 1) |-> IF i = n + 1 THEN Enqueue(g[n], ps[n + 1], d) ELSE g[i]]
  <2>2. ASSUME NEW i \in 0..(n + 1)
        PROVE  h[i] = IF i = 0 THEN fr ELSE Enqueue(h[i - 1], ps[i], d)
    <3>1. CASE i = n + 1
      <4>1. i - 1 = n /\ n \in 0..(n + 1) /\ n # n + 1 /\ i # 0
        BY <3>1
      <4>2. h[n] = g[n]
        BY <4>1
      <4> QED BY <3>1, <4>1, <4>2
    <3>2. CASE i = 0
      <4>1. i # n + 1 /\ i \in 0..n
        BY <3>2
      <4> QED BY <3>2, <4>1, <2>1 DEF Queues
    <3>3. CASE i # 0 /\ i # n + 1
      <4>1. i \in 0..n /\ i - 1 \in 0..n /\ i - 1 \in 0..(n + 1) /\ i - 1 # n + 1
        BY <3>3
      <4>2. h[i] = g[i] /\ h[i - 1] = g[i - 1]
        BY <3>3, <4>1
      <4>3. g[i] = Enqueue(g[i - 1], ps[i], d)
        BY <2>1, <3>3, <4>1 DEF Queues
      <4> QED BY <3>3, <4>2, <4>3
    <3> QED BY <3>1, <3>2, <3>3
  <2>3. Queues(h, fr, ps, d, n + 1)
    BY <2>2 DEF Queues
  <2> QED BY <2>3
<1> HIDE DEF S
<1>3. \A n \in Nat : n \in S
  BY <1>1, <1>2, SetInduction
<1> QED BY <1>3 DEF S

\* EnqueueAll is what queueing all pages gives.
LEMMA EnqueueAllQueues ==
    ASSUME NEW fr, NEW ps, Len(ps) \in Nat, NEW d
    PROVE  \E g : Queues(g, fr, ps, d, Len(ps)) /\ EnqueueAll(fr, ps, d) = g[Len(ps)]
<1> DEFINE g == CHOOSE g : Queues(g, fr, ps, d, Len(ps))
<1>1. Queues(g, fr, ps, d, Len(ps))
  BY QueuesExists
<1>2. EnqueueAll(fr, ps, d) = g[Len(ps)]
  BY DEF EnqueueAll, Queues
<1> QED BY <1>1, <1>2
-----------------------------------------------------------------------------
\* fs is fr with some pages queued: every page it saw keeps its depth, and
\* a page is in the queue for every page seen since.
Extends(fr, fs) ==
    /\ GoodFrontier(fs)
    /\ \A p \in Seen(fr) : p \in Seen(fs) /\ fs.depth[p] = fr.depth[p]
    /\ Cardinality(Seen(fs)) + Len(fr.pending) = Cardinality(Seen(fr)) + Len(fs.pending)
    /\ fr.exhausted => fs.exhausted

\* A good frontier is a record whose fields have their types.
LEMMA FrontierFields ==
    ASSUME NEW fr, GoodFrontier(fr)
    PROVE  /\ fr.depth \in [Pages -> Depths] /\ fr.pending \in Seq(Pages) /\ fr.exhausted \in BOOLEAN
           /\ Len(fr.pending) \in Nat /\ Cardinality(Seen(fr)) \in Nat
           /\ fr = [depth |-> fr.depth, pending |-> fr.pending, exhausted |-> fr.exhausted]
<1>1. fr \in Frontiers /\ IsFiniteSet(Seen(fr))
  BY DEF GoodFrontier
<1>2. /\ fr.depth \in [Pages -> Depths] /\ fr.pending \in Seq(Pages) /\ fr.exhausted \in BOOLEAN
  BY <1>1 DEF Frontiers
<1>3. Len(fr.pending) \in Nat
  BY <1>2
<1>4. Cardinality(Seen(fr)) \in Nat
  BY <1>1, FS_CardinalityType
<1>5. fr = [depth |-> fr.depth, pending |-> fr.pending, exhausted |-> fr.exhausted]
  BY <1>1 DEF Frontiers
<1> QED BY <1>2, <1>3, <1>4, <1>5

\* What a list of pages holds after one was appended.
LEMMA AppendPage ==
    ASSUME NEW ps \in Seq(Pages), NEW p \in Pages
    PROVE  /\ Append(ps, p) \in Seq(Pages) /\ Len(Append(ps, p)) = Len(ps) + 1
           /\ ToSet(Append(ps, p)) = ToSet(ps) \cup {p}
<1>1. /\ Append(ps, p) \in Seq(Pages) /\ Len(Append(ps, p)) = Len(ps) + 1 /\ Len(ps) \in Nat
      /\ DOMAIN ps = 1..Len(ps) /\ DOMAIN Append(ps, p) = 1..(Len(ps) + 1)
  OBVIOUS
<1>2. \A i \in 1..Len(ps) : Append(ps, p)[i] = ps[i]
  OBVIOUS
<1>3. Append(ps, p)[Len(ps) + 1] = p
  OBVIOUS
<1>4. \A i : i \in 1..(Len(ps) + 1) <=> i \in 1..Len(ps) \/ i = Len(ps) + 1
  BY <1>1
<1> QED BY <1>1, <1>2, <1>3, <1>4 DEF ToSet

\* One page: it is queued, was seen before, or the budget is exhausted
\* (crawler.go:107-118).
LEMMA EnqueueOne ==
    ASSUME NEW fr, GoodFrontier(fr), NEW p \in Pages, NEW d \in 0..MaxDepth
    PROVE  /\ Extends(fr, Enqueue(fr, p, d))
           /\ p \in Seen(Enqueue(fr, p, d)) \/ Enqueue(fr, p, d).exhausted
<1> DEFINE fs == Enqueue(fr, p, d)
<1>1. /\ fr.depth \in [Pages -> Depths] /\ fr.pending \in Seq(Pages) /\ fr.exhausted \in BOOLEAN
      /\ Len(fr.pending) \in Nat /\ Cardinality(Seen(fr)) \in Nat
      /\ fr = [depth |-> fr.depth, pending |-> fr.pending, exhausted |-> fr.exhausted]
  BY FrontierFields
<1>2. CASE fr.depth[p] # NotSeen
  <2>1. fs = fr
    BY <1>2 DEF Enqueue
  <2>2. p \in Seen(fr)
    BY <1>2 DEF Seen
  <2> HIDE DEF fs
  <2> QED BY <2>1, <2>2 DEF Extends, fs
<1>3. CASE fr.depth[p] = NotSeen /\ Cardinality(Seen(fr)) >= MaxPages
  <2>1. fs = [fr EXCEPT !.exhausted = TRUE]
    BY <1>3 DEF Enqueue
  <2> HIDE DEF fs
  <2>2. fs = [depth |-> fr.depth, pending |-> fr.pending, exhausted |-> TRUE]
    BY <1>1, <2>1, Zenon
  <2>3. fs.depth = fr.depth /\ fs.pending = fr.pending /\ fs.exhausted = TRUE
    BY <2>2, Zenon
  <2>4. fs \in Frontiers
    BY <1>1, <2>2, Zenon DEF Frontiers
  <2>5. Seen(fs) = Seen(fr)
    BY <2>3 DEF Seen
  <2>6. GoodFrontier(fs)
    BY <2>3, <2>4, <2>5 DEF GoodFrontier
  <2> QED BY <2>3, <2>5, <2>6 DEF Extends, fs
<1>4. CASE fr.depth[p] = NotSeen /\ ~(Cardinality(Seen(fr)) >= MaxPages)
  <2> DEFINE dp == [fr.depth EXCEPT ![p] = d]
             ps == Append(fr.pending, p)
  <2>1. fs = [depth |-> dp, pending |-> ps, exhausted |-> fr.exhausted]
    BY <1>1, <1>4, Zenon DEF Enqueue
  <2>2. dp \in [Pages -> Depths] /\ \A q \in Pages : dp[q] = IF q = p THEN d ELSE fr.depth[q]
    BY <1>1 DEF Depths
  <2>3. ps \in Seq(Pages) /\ Len(ps) = Len(fr.pending) + 1 /\ ToSet(ps) = ToSet(fr.pending) \cup {p}
    BY <1>1, AppendPage
  <2> HIDE DEF fs, dp, ps
  <2>4. fs.depth = dp /\ fs.pending = ps /\ fs.exhausted = fr.exhausted
    BY <2>1, Zenon
  <2>5. fs \in Frontiers
    BY <1>1, <2>1, <2>2, <2>3, Zenon DEF Frontiers
  <2>6. d # NotSeen
    BY CrawlAssumption DEF NotSeen
  <2>7. Seen(fs) = Seen(fr) \cup {p} /\ p \notin Seen(fr)
    BY <1>4, <2>2, <2>4, <2>6 DEF Seen
  <2>8. IsFiniteSet(Seen(fs)) /\ Cardinality(Seen(fs)) = Cardinality(Seen(fr)) + 1
    BY <2>7, FS_AddElement DEF GoodFrontier
  <2>9. GoodFrontier(fs)
    <3>1. Cardinality(Seen(fs)) <= MaxPages
      BY <1>1, <1>4, <2>8, CrawlAssumption
    <3>2. ToSet(fs.pending) \subseteq Seen(fs)
      BY <2>3, <2>4, <2>7 DEF GoodFrontier
    <3> QED BY <2>5, <2>8, <3>1, <3>2 DEF GoodFrontier
  <2>10. \A q \in Seen(fr) : q \in Seen(fs) /\ fs.depth[q] = fr.depth[q]
    <3>1. \A q \in Seen(fr) : q \in Pages
      BY DEF Seen
    <3> QED BY <2>2, <2>4, <2>7, <3>1
  <2>11. Cardinality(Seen(fs)) + Len(fr.pending) = Cardinality(Seen(fr)) + Len(fs.pending)
    BY <1>1, <2>3, <2>4, <2>8
  <2>12. Extends(fr, fs)
    BY <2>4, <2>9, <2>10, <2>11 DEF Extends
  <2> QED BY <2>7, <2>12 DEF fs
<1> QED BY <1>2, <1>3, <1>4

\* A frontier extends itself.
LEMMA ExtendsSelf ==
    ASSUME NEW fr, GoodFrontier(fr) PROVE Extends(fr, fr)
  BY DEF Extends

\* Extending twice is extending.
LEMMA ExtendsTwice ==
    ASSUME NEW fr, NEW fs, NEW ft, GoodFrontier(fr), Extends(fr, fs), Extends(fs, ft)
    PROVE  Extends(fr, ft)
<1>1. GoodFrontier(fs) /\ GoodFrontier(ft)
  BY DEF Extends
<1>2. /\ Len(fr.pending) \in Nat /\ Cardinality(Seen(fr)) \in Nat
      /\ Len(fs.pending) \in Nat /\ Cardinality(Seen(fs)) \in Nat
      /\ Len(ft.pending) \in Nat /\ Cardinality(Seen(ft)) \in Nat
  BY <1>1, FrontierFields
<1>3. Cardinality(Seen(ft)) + Len(fr.pending) = Cardinality(Seen(fr)) + Len(ft.pending)
  <2>1. /\ Cardinality(Seen(fs)) + Len(fr.pending) = Cardinality(Seen(fr)) + Len(fs.pending)
        /\ Cardinality(Seen(ft)) + Len(fs.pending) = Cardinality(Seen(fs)) + Len(ft.pending)
    BY DEF Extends
  <2> DEFINE a == Cardinality(Seen(fr))
             b == Cardinality(Seen(fs))
             c == Cardinality(Seen(ft))
             x == Len(fr.pending)
             y == Len(fs.pending)
             z == Len(ft.pending)
  <2>2. a \in Nat /\ b \in Nat /\ c \in Nat /\ x \in Nat /\ y \in Nat /\ z \in Nat
    BY <1>2
  <2>3. b + x = a + y /\ c + y = b + z
    BY <2>1, Zenon
  <2> HIDE DEF a, b, c, x, y, z
  <2>4. c + x = a + z
    BY <2>2, <2>3
  <2> QED BY <2>4, Zenon DEF a, c, x, z
<1> QED BY <1>1, <1>3 DEF Extends

\* All pages of a list are queued, or the budget is exhausted
\* (crawler.go:107-118, 152-159).
LEMMA EnqueueAllFacts ==
    ASSUME NEW fr, GoodFrontier(fr), NEW ps \in Seq(Pages), NEW d, ps # <<>> => d \in 0..MaxDepth
    PROVE  LET fs == EnqueueAll(fr, ps, d) IN
           /\ Extends(fr, fs)
           /\ ToSet(ps) \subseteq Seen(fs) \/ fs.exhausted
<1>1. Len(ps) \in Nat /\ DOMAIN ps = 1..Len(ps) /\ \A i \in 1..Len(ps) : ps[i] \in Pages
  OBVIOUS
<1>2. PICK g : Queues(g, fr, ps, d, Len(ps)) /\ EnqueueAll(fr, ps, d) = g[Len(ps)]
  BY <1>1, EnqueueAllQueues
<1> DEFINE Prefix(n) == {ps[i] : i \in 1..n}
           Good(n) == Extends(fr, g[n]) /\ (Prefix(n) \subseteq Seen(g[n]) \/ g[n].exhausted)
           S == {n \in Nat : n <= Len(ps) => Good(n)}
<1>3. 0 \in S
  <2>1. g[0] = fr
    <3>1. 0 \in 0..Len(ps)
      BY <1>1
    <3> QED BY <1>2, <3>1 DEF Queues
  <2>2. 1..0 = {}
    OBVIOUS
  <2>3. Prefix(0) = {}
    BY <2>2
  <2> HIDE DEF Prefix
  <2>4. Good(0)
    BY <2>1, <2>3, ExtendsSelf
  <2> QED BY <2>4
<1>4. ASSUME NEW n \in Nat, n \in S PROVE n + 1 \in S
  <2> SUFFICES ASSUME n + 1 <= Len(ps) PROVE Good(n + 1)
    OBVIOUS
  <2>1. Good(n)
    BY <1>1, <1>4
  <2>2. g[n + 1] = Enqueue(g[n], ps[n + 1], d)
    <3>1. n + 1 \in 0..Len(ps) /\ n + 1 # 0 /\ (n + 1) - 1 = n
      BY <1>1
    <3> QED BY <1>2, <3>1 DEF Queues
  <2>3. n + 1 \in 1..Len(ps) /\ ps[n + 1] \in Pages /\ ps # <<>>
    BY <1>1
  <2>4. Prefix(n + 1) = Prefix(n) \cup {ps[n + 1]}
    <3>1. 1..(n + 1) = 1..n \cup {n + 1}
      OBVIOUS
    <3> QED BY <3>1
  <2> HIDE DEF Prefix
  <2>5. GoodFrontier(g[n])
    BY <2>1 DEF Extends
  <2>6. Extends(g[n], g[n + 1]) /\ (ps[n + 1] \in Seen(g[n + 1]) \/ g[n + 1].exhausted)
    BY <2>2, <2>3, <2>5, EnqueueOne
  <2>7. Extends(fr, g[n + 1])
    BY <2>1, <2>6, ExtendsTwice
  <2>8. Prefix(n + 1) \subseteq Seen(g[n + 1]) \/ g[n + 1].exhausted
    BY <2>1, <2>4, <2>6 DEF Extends
  <2> QED BY <2>7, <2>8
<1> HIDE DEF S
<1>5. Len(ps) \in S
  BY <1>1, <1>3, <1>4, SetInduction
<1>6. Good(Len(ps))
  BY <1>1, <1>5 DEF S
<1>7. Prefix(Len(ps)) = ToSet(ps)
  BY <1>1 DEF ToSet
<1> QED BY <1>2, <1>6, <1>7
-----------------------------------------------------------------------------
Places == {"idle", "robots", "getting", "gate", "request", "fetch", "found", "exit"}
Visits == Places \ {"idle", "exit"}
Fetching == Visits \ {"found"}

\* The workers at one of the places in Q.
At(Q) == {w \in Workers : pc[w] \in Q}

\* Sets of workers can be counted.
LEMMA WorkersCounted ==
    ASSUME NEW Q PROVE IsFiniteSet(At(Q)) /\ Cardinality(At(Q)) \in Nat
<1>1. IsFiniteSet(At(Q))
  BY CrawlAssumption, FS_Subset DEF At
<1> QED BY <1>1, FS_CardinalityType

\* How many workers are at Q after one of them moved.
LEMMA MoveCounts ==
    ASSUME pc \in [Workers -> Places], NEW w \in Workers, NEW l, pc' = [pc EXCEPT ![w] = l], NEW Q
    PROVE  /\ (pc[w] \in Q) /\ (l \in Q) => Cardinality(At(Q)') = Cardinality(At(Q))
           /\ (pc[w] \notin Q) /\ (l \notin Q) => Cardinality(At(Q)') = Cardinality(At(Q))
           /\ (pc[w] \notin Q) /\ (l \in Q) => Cardinality(At(Q)') = Cardinality(At(Q)) + 1
           /\ (pc[w] \in Q) /\ (l \notin Q) => Cardinality(At(Q)') = Cardinality(At(Q)) - 1
<1>1. \A v \in Workers : pc'[v] = IF v = w THEN l ELSE pc[v]
  OBVIOUS
<1>2. IsFiniteSet(At(Q))
  BY WorkersCounted
<1>3. CASE (pc[w] \in Q) <=> (l \in Q)
  <2>1. At(Q)' = At(Q)
    BY <1>1, <1>3 DEF At
  <2> QED BY <1>3, <2>1
<1>4. CASE pc[w] \notin Q /\ l \in Q
  <2>1. At(Q)' = At(Q) \cup {w} /\ w \notin At(Q)
    BY <1>1, <1>4 DEF At
  <2>2. Cardinality(At(Q)') = Cardinality(At(Q)) + 1
    BY <1>2, <2>1, FS_AddElement
  <2> QED BY <1>4, <2>2
<1>5. CASE pc[w] \in Q /\ l \notin Q
  <2>1. At(Q)' = At(Q) \ {w} /\ w \in At(Q)
    BY <1>1, <1>5 DEF At
  <2>2. Cardinality(At(Q)') = Cardinality(At(Q)) - 1
    BY <1>2, <2>1, FS_RemoveElement
  <2> QED BY <1>5, <2>2
<1> QED BY <1>3, <1>4, <1>5

\* The visits under way, and those that still have to be counted.
Busy == {w \in Visiting : pc[w] # "found"}

\* Where they are.
LEMMA PlacesCounted ==
    ASSUME pc \in [Workers -> Places]
    PROVE  Visiting = At(Visits) /\ Busy = At(Fetching)
  BY DEF Visiting, Busy, At, Visits, Fetching, Places

\* The effect of a worker's move on the visits under way.
LEMMA VisitsMove ==
    ASSUME pc \in [Workers -> Places], NEW w \in Workers, NEW l \in Places, pc' = [pc EXCEPT ![w] = l]
    PROVE  /\ pc[w] \in Visits /\ l \in Visits => Cardinality(Visiting') = Cardinality(Visiting)
           /\ pc[w] \notin Visits /\ l \notin Visits => Cardinality(Visiting') = Cardinality(Visiting)
           /\ pc[w] \notin Visits /\ l \in Visits => Cardinality(Visiting') = Cardinality(Visiting) + 1
           /\ pc[w] \in Visits /\ l \notin Visits => Cardinality(Visiting') = Cardinality(Visiting) - 1
<1>1. pc' \in [Workers -> Places]
  OBVIOUS
<1>2. Visiting = At(Visits) /\ Visiting' = At(Visits)'
  BY <1>1, PlacesCounted DEF Visiting, At, Visits, Places
<1> QED BY <1>2, MoveCounts

\* The effect of a worker's move on those still to be counted.
LEMMA BusyMove ==
    ASSUME pc \in [Workers -> Places], NEW w \in Workers, NEW l \in Places, pc' = [pc EXCEPT ![w] = l]
    PROVE  /\ pc[w] \in Fetching /\ l \in Fetching => Cardinality(Busy') = Cardinality(Busy)
           /\ pc[w] \notin Fetching /\ l \notin Fetching => Cardinality(Busy') = Cardinality(Busy)
           /\ pc[w] \notin Fetching /\ l \in Fetching => Cardinality(Busy') = Cardinality(Busy) + 1
           /\ pc[w] \in Fetching /\ l \notin Fetching => Cardinality(Busy') = Cardinality(Busy) - 1
<1>1. pc' \in [Workers -> Places]
  OBVIOUS
<1>2. Busy = At(Fetching) /\ Busy' = At(Fetching)'
  BY <1>1, PlacesCounted DEF Visiting, Busy, At, Fetching, Visits, Places
<1> QED BY <1>2, MoveCounts

\* Both counts are naturals.
LEMMA VisitsNat ==
    ASSUME pc \in [Workers -> Places]
    PROVE  Cardinality(Visiting) \in Nat /\ Cardinality(Busy) \in Nat /\ IsFiniteSet(Visiting)
  BY PlacesCounted, WorkersCounted
-----------------------------------------------------------------------------
\* The types of what the visits share and keep, a part of CrawlTypeOK.
VisitTypes ==
    /\ attempt \in [Workers -> 0..MaxRetries]
    /\ robots \in {"none", "getting", "ready"}
    /\ rules \in {AllowAll, DisallowAll, Parse(target.file)}
    /\ answer \in RobotsGetter \cup {[err |-> FALSE, status |-> 0]}
    /\ gate \in Nat /\ since \in 0..MaxDelay
    /\ sleep \in [Workers -> Nat]

\* The types of the rest, and what EveryPageCounted says.
LEMMA CrawlTypes ==
    ASSUME CrawlInv
    PROVE  /\ coord \in {"loop", "closed", "returned"} /\ ctxDone \in BOOLEAN /\ sawCancel \in BOOLEAN
           /\ pc \in [Workers -> Places] /\ page \in [Workers -> Pages] /\ VisitTypes
           /\ inFlight = Cardinality(Visiting)
           /\ stats \in [{"Fetched", "Failed", "RobotsDisallow"} -> Nat]
           /\ links \in [Workers -> Seq(Pages)] /\ Counted \in Nat
           /\ Len(frontier.pending) + Counted + Cardinality(Busy) <= Cardinality(Seen(frontier))
           /\ ~ctxDone => Len(frontier.pending) + Counted + Cardinality(Busy)
                             = Cardinality(Seen(frontier))
<1>1. stats \in [{"Fetched", "Failed", "RobotsDisallow"} -> Nat]
  BY DEF CrawlInv, CrawlTypeOK
<1>2. Counted \in Nat
  BY <1>1 DEF Counted
<1> QED BY <1>1, <1>2 DEF CrawlInv, CrawlTypeOK, Shapes, VisitTypes, EveryPageCounted, Busy, Places

\* A worker's step that touches neither the frontier nor the coordinator
\* keeps the invariant if it keeps the types, the count of pages, the way of
\* the links and the rules.
LEMMA WorkerMove ==
    ASSUME CrawlInv, NEW w \in Workers, NEW l \in Places, pc' = [pc EXCEPT ![w] = l],
           pc[w] \in Fetching, l \in Visits, UNCHANGED <<target, ctxDone, page>>, UNCHANGED coordVars,
           VisitTypes', stats' \in [{"Fetched", "Failed", "RobotsDisallow"} -> Nat],
           links' \in [Workers -> Seq(Pages)], fetched' \subseteq Seen(frontier),
           LinksAbove', EveryPageCounted', LinksOnTheWay', RulesKept'
    PROVE  CrawlInv'
<1> USE DEF coordVars
<1>1. pc \in [Workers -> Places] /\ inFlight = Cardinality(Visiting)
  BY CrawlTypes
<1>2. \A v \in Workers : pc'[v] = IF v = w THEN l ELSE pc[v]
  BY <1>1
<1>3. pc[w] \in Visits
  BY DEF Fetching
<1>4. inFlight' = Cardinality(Visiting')
  BY <1>1, <1>3, VisitsMove
<1>5. GoodFrontier(frontier') /\ Seen(frontier)' = Seen(frontier)
  BY DEF CrawlInv, GoodFrontier, Seen
<1>6. CrawlTypeOK'
  <2>1. pc' \in [Workers -> Places]
    BY <1>1
  <2> QED BY <1>4, <2>1 DEF CrawlInv, CrawlTypeOK, VisitTypes, Places, Seen
<1>7. Shapes'
  BY <1>2, <1>3, <1>5 DEF CrawlInv, Shapes, Visits, Places
<1>8. NobodyLeft'
  <2>1. w \in Visiting
    BY <1>3 DEF Visiting, Visits
  <2> QED BY <2>1 DEF CrawlInv, NobodyLeft
<1> QED BY <1>5, <1>6, <1>7, <1>8 DEF CrawlInv

\* A step inside a visit.
LEMMA VisitMove ==
    ASSUME CrawlInv, NEW w \in Workers, NEW l \in Fetching, pc' = [pc EXCEPT ![w] = l],
           pc[w] \in Fetching, UNCHANGED <<target, ctxDone, page, links, stats, fetched>>,
           UNCHANGED coordVars, VisitTypes', RulesKept'
    PROVE  CrawlInv'
<1> USE DEF coordVars
<1>1. /\ pc \in [Workers -> Places] /\ stats \in [{"Fetched", "Failed", "RobotsDisallow"} -> Nat]
      /\ links \in [Workers -> Seq(Pages)]
  BY CrawlTypes
<1>2. \A v \in Workers : pc'[v] = IF v = w THEN l ELSE pc[v]
  BY <1>1
<1>3. l \in Places /\ l \in Visits /\ l # "found" /\ pc[w] # "found"
  BY DEF Fetching, Visits
<1>4. LinksAbove'
  BY <1>2, <1>3 DEF CrawlInv, LinksAbove
<1>5. EveryPageCounted'
  <2>1. Cardinality(Busy') = Cardinality(Busy)
    BY <1>1, <1>3, BusyMove
  <2>2. Counted' = Counted /\ Seen(frontier') = Seen(frontier)
    BY DEF Counted, Seen
  <2> QED BY <2>1, <2>2, CrawlTypes DEF EveryPageCounted, Busy
<1>6. LinksOnTheWay'
  BY <1>2, <1>3 DEF CrawlInv, LinksOnTheWay, LinksOf, Seen
<1>7. fetched' \subseteq Seen(frontier)
  BY DEF CrawlInv, Shapes
<1> QED BY <1>1, <1>3, <1>4, <1>5, <1>6, <1>7, WorkerMove

\* The end of a visit: the page is counted unless ctx has ended, and its
\* links are on the way (crawler.go:170-259).
LEMMA VisitEndsInv ==
    ASSUME CrawlInv, NEW w \in Workers, pc[w] \in Fetching, NEW ls \in Seq(Pages), VisitEnds(w, ls),
           ls # <<>> => frontier.depth[page[w]] < MaxDepth,
           UNCHANGED <<target, ctxDone, page>>, UNCHANGED coordVars, UNCHANGED robotsVars, VisitTypes',
           stats' \in [{"Fetched", "Failed", "RobotsDisallow"} -> Nat],
           Counted' = Counted + 1 \/ (Counted' = Counted /\ ctxDone),
           \/ fetched' = fetched
           \/ /\ fetched' = fetched \cup {page[w]}
              /\ frontier.depth[page[w]] < MaxDepth => ls = LinksOf(page[w])
    PROVE  CrawlInv'
<1> USE DEF coordVars
<1>1. /\ pc \in [Workers -> Places] /\ links \in [Workers -> Seq(Pages)]
      /\ page \in [Workers -> Pages] /\ Counted \in Nat
  BY CrawlTypes
<1>2. /\ pc' = [pc EXCEPT ![w] = "found"] /\ links' = [links EXCEPT ![w] = ls]
      /\ "found" \in Places /\ "found" \in Visits /\ "found" \notin Fetching /\ pc[w] # "found"
      /\ "found" \notin {"idle", "exit"} /\ pc[w] \notin {"idle", "exit"}
  BY DEF VisitEnds, Goto, Places, Visits, Fetching
<1>3. /\ \A v \in Workers : pc'[v] = IF v = w THEN "found" ELSE pc[v]
      /\ \A v \in Workers : links'[v] = IF v = w THEN ls ELSE links[v]
      /\ links' \in [Workers -> Seq(Pages)]
  BY <1>1, <1>2
<1>4. Seen(frontier') = Seen(frontier) /\ frontier' = frontier
  BY DEF Seen
<1>5. page[w] \in Seen(frontier) /\ fetched \subseteq Seen(frontier)
  BY <1>2 DEF CrawlInv, Shapes
<1>6. fetched' \subseteq Seen(frontier)
  BY <1>5
<1>7. LinksAbove'
  BY <1>3, <1>4 DEF CrawlInv, LinksAbove
<1>8. EveryPageCounted'
  <2>1. Cardinality(Busy') = Cardinality(Busy) - 1 /\ Cardinality(Busy) \in Nat
    BY <1>1, <1>2, BusyMove, VisitsNat
  <2>2. Len(frontier.pending) \in Nat /\ Cardinality(Seen(frontier)) \in Nat
    BY FrontierFields DEF CrawlInv
  <2>3. /\ Len(frontier.pending) + Counted + Cardinality(Busy) <= Cardinality(Seen(frontier))
        /\ ~ctxDone => Len(frontier.pending) + Counted + Cardinality(Busy) = Cardinality(Seen(frontier))
    BY CrawlTypes
  <2>4. /\ Len(frontier.pending) + Counted' + Cardinality(Busy') <= Cardinality(Seen(frontier))
        /\ ~ctxDone => Len(frontier.pending) + Counted' + Cardinality(Busy') = Cardinality(Seen(frontier))
    <3> DEFINE q == Len(frontier.pending)
               n == Cardinality(Seen(frontier))
    <3>1. q \in Nat /\ n \in Nat /\ q + Counted + Cardinality(Busy) <= n
          /\ (~ctxDone => q + Counted + Cardinality(Busy) = n)
      BY <2>2, <2>3, Zenon
    <3> HIDE DEF q, n
    <3>2. q + Counted' + Cardinality(Busy') <= n /\ (~ctxDone => q + Counted' + Cardinality(Busy') = n)
      <4> DEFINE k == Counted
                 l == Counted'
                 b == Cardinality(Busy)
                 x == Cardinality(Busy')
      <4>1. k \in Nat /\ b \in Nat /\ x = b - 1 /\ (l = k + 1 \/ (l = k /\ ctxDone))
        BY <1>1, <2>1
      <4>2. q \in Nat /\ n \in Nat /\ q + k + b <= n /\ (~ctxDone => q + k + b = n)
        BY <3>1
      <4> HIDE DEF k, l, b, x
      <4>3. q + l + x <= n /\ (~ctxDone => q + l + x = n)
        BY <4>1, <4>2
      <4> QED BY <4>3 DEF l, x
    <3> QED BY <3>2, Zenon DEF q, n
  <2> QED BY <1>4, <2>4 DEF EveryPageCounted, Busy
<1>9. LinksOnTheWay'
  <2> SUFFICES ASSUME ~ctxDone, ~frontier.exhausted, NEW p \in fetched', frontier.depth[p] < MaxDepth,
                      ~(ToSet(LinksOf(p)) \subseteq Seen(frontier))
               PROVE  \E v \in Workers : pc'[v] = "found" /\ links'[v] = LinksOf(p)
    BY <1>4 DEF LinksOnTheWay, LinksOf
  <2>1. CASE p \in fetched
    <3>1. PICK v \in Workers : pc[v] = "found" /\ links[v] = LinksOf(p)
      BY <2>1 DEF CrawlInv, LinksOnTheWay, LinksOf
    <3>2. v # w
      BY <1>2, <3>1
    <3> QED BY <1>3, <3>1, <3>2
  <2>2. CASE p \notin fetched
    <3>1. p = page[w] /\ ls = LinksOf(page[w])
      BY <2>2
    <3> QED BY <1>3, <3>1
  <2> QED BY <2>1, <2>2
<1>10. RulesKept'
  BY <1>3 DEF CrawlInv, RulesKept, robotsVars
<1> QED BY <1>2, <1>3, <1>6, <1>7, <1>8, <1>9, <1>10, WorkerMove

\* A visit's steps as far as its request (crawler.go:175-199, robots.go:195-222).
LEMMA RobotsInv ==
    ASSUME CrawlInv, NEW w \in Workers,
           RobotsIgnored(w) \/ RobotsGet(w) \/ RobotsAnswer(w) \/ RobotsAllow(w) \/ Request(w) \/ Retry(w)
    PROVE  CrawlInv'
<1> USE DEF coordVars, visitVars, robotsVars, gateVars, outVars
<1>1. pc \in [Workers -> Places] /\ VisitTypes /\ MaxDelay \in Nat
  BY CrawlTypes, CrawlAssumption
<1>2. /\ UNCHANGED <<target, ctxDone, page, links, stats, fetched>> /\ UNCHANGED coordVars
  BY DEF RobotsIgnored, RobotsGet, RobotsAnswer, RobotsAllow, Request, Retry
<1>3. ASSUME NEW l \in Fetching, pc' = [pc EXCEPT ![w] = l], pc[w] \in Fetching, VisitTypes', RulesKept'
      PROVE  CrawlInv'
  BY <1>2, <1>3, VisitMove
<1>4. \A l : pc' = [pc EXCEPT ![w] = l] => \A v \in Workers : pc'[v] = IF v = w THEN l ELSE pc[v]
  BY <1>1
<1>5. /\ "request" \in Fetching /\ "robots" \in Fetching /\ "getting" \in Fetching
      /\ "gate" \in Fetching /\ "fetch" \in Fetching
  BY DEF Fetching, Visits, Places
<1>6. CASE RobotsIgnored(w)
  <2>1. /\ pc' = [pc EXCEPT ![w] = "request"] /\ pc[w] = "robots" /\ ~target.respectRobots
        /\ UNCHANGED <<attempt, robots, rules, answer, gate, sleep, since>>
    BY <1>6 DEF RobotsIgnored, Goto
  <2>2. VisitTypes'
    BY <1>1, <1>2, <2>1 DEF VisitTypes
  <2>3. RulesKept'
    BY <1>2, <1>4, <2>1 DEF CrawlInv, RulesKept
  <2> QED BY <1>3, <1>5, <2>1, <2>2, <2>3
<1>7. CASE RobotsGet(w)
  <2>1. /\ pc' = [pc EXCEPT ![w] = "getting"] /\ pc[w] = "robots" /\ target.respectRobots
        /\ robots = "none" /\ robots' = "getting"
        /\ UNCHANGED <<attempt, rules, answer, gate, sleep, since>>
    BY <1>7 DEF RobotsGet, Goto
  <2>2. VisitTypes'
    BY <1>1, <1>2, <2>1 DEF VisitTypes
  <2>3. RulesKept'
    BY <1>2, <1>4, <2>1 DEF CrawlInv, RulesKept
  <2> QED BY <1>3, <1>5, <2>1, <2>2, <2>3
<1>8. CASE RobotsAnswer(w)
  <2>1. /\ pc' = [pc EXCEPT ![w] = "robots"] /\ pc[w] = "getting" /\ robots' = "ready"
        /\ answer' \in RobotsGetter /\ rules' = RulesFor(answer', target.file)
        /\ UNCHANGED <<attempt, gate, sleep, since>>
    BY <1>8 DEF RobotsAnswer, Goto
  <2>2. rules' \in {AllowAll, DisallowAll, Parse(target.file)}
    BY <2>1 DEF RulesFor
  <2>3. VisitTypes'
    BY <1>1, <1>2, <2>1, <2>2 DEF VisitTypes
  <2>4. RulesKept'
    <3>1. robots = "getting" /\ \A v \in Workers : pc[v] = "getting" => v = w
      BY <2>1 DEF CrawlInv, RulesKept
    <3>2. target.respectRobots => \A v \in Workers : pc[v] \notin {"gate", "request", "fetch"}
      BY <3>1 DEF CrawlInv, RulesKept
    <3>3. \A v \in Workers : pc'[v] # "getting"
      <4>1. \A v \in Workers : pc'[v] = IF v = w THEN "robots" ELSE pc[v]
        BY <1>4, <2>1
      <4> QED BY <3>1, <4>1
    <3> QED BY <1>2, <1>4, <2>1, <3>2, <3>3 DEF RulesKept
  <2> QED BY <1>3, <1>5, <2>1, <2>3, <2>4
<1>9. CASE RobotsAllow(w)
  <2>1. /\ pc[w] = "robots" /\ robots = "ready" /\ Allowed(rules, page[w])
        /\ UNCHANGED <<attempt, robots, rules, answer, since>>
    BY <1>9 DEF RobotsAllow
  <2>2. rules.CrawlDelay \in Nat
    <3>1. target.file \in Files
      BY DEF CrawlInv, Shapes
    <3>2. AllowAll.CrawlDelay = 0 /\ DisallowAll.CrawlDelay = 0
      BY DEF AllowAll, DisallowAll, Rules
    <3>3. Parse(target.file).CrawlDelay \in Nat
      BY <3>1, CrawlAssumption
    <3> QED BY <1>1, <3>2, <3>3 DEF VisitTypes
  <2>3. PICK l \in {"gate", "request"} : pc' = [pc EXCEPT ![w] = l]
    BY <1>9 DEF RobotsAllow, Goto
  <2>4. gate' \in Nat /\ sleep' \in [Workers -> Nat]
    BY <1>1, <1>9, <2>2 DEF RobotsAllow, VisitTypes
  <2>5. VisitTypes'
    BY <1>1, <1>2, <2>1, <2>4 DEF VisitTypes
  <2>6. RulesKept'
    BY <1>2, <1>4, <2>1, <2>3 DEF CrawlInv, RulesKept
  <2> QED BY <1>3, <1>5, <2>1, <2>3, <2>5, <2>6
<1>10. CASE Request(w)
  <2>1. /\ pc' = [pc EXCEPT ![w] = "fetch"] /\ pc[w] = "request" /\ since' = 0
        /\ UNCHANGED <<attempt, robots, rules, answer, gate, sleep>>
    BY <1>10 DEF Request, Goto
  <2>2. since' \in 0..MaxDelay
    BY <1>1, <2>1
  <2>3. VisitTypes'
    BY <1>1, <1>2, <2>1, <2>2 DEF VisitTypes
  <2>4. RulesKept'
    BY <1>2, <1>4, <2>1 DEF CrawlInv, RulesKept
  <2> QED BY <1>3, <1>5, <2>1, <2>3, <2>4
<1>11. CASE Retry(w)
  <2>1. /\ pc' = [pc EXCEPT ![w] = "request"] /\ pc[w] = "fetch" /\ attempt[w] < MaxRetries
        /\ attempt' = [attempt EXCEPT ![w] = attempt[w] + 1]
        /\ UNCHANGED <<robots, rules, answer, gate, sleep, since>>
    BY <1>11 DEF Retry, Goto
  <2>2. attempt' \in [Workers -> 0..MaxRetries]
    <3>1. attempt[w] + 1 \in 0..MaxRetries
      BY <1>1, <2>1, CrawlAssumption DEF VisitTypes
    <3> QED BY <1>1, <2>1, <3>1 DEF VisitTypes
  <2>3. VisitTypes'
    BY <1>1, <1>2, <2>1, <2>2 DEF VisitTypes
  <2>4. RulesKept'
    BY <1>2, <1>4, <2>1 DEF CrawlInv, RulesKept
  <2> QED BY <1>3, <1>5, <2>1, <2>3, <2>4
<1> QED BY <1>6, <1>7, <1>8, <1>9, <1>10, <1>11

\* The ways a visit ends, and the wait at the gate (crawler.go:182-259).
LEMMA EndsInv ==
    ASSUME CrawlInv, NEW w \in Workers,
           RobotsDisallow(w) \/ PassGate(w) \/ VisitCanceled(w) \/ VisitFailed(w) \/ VisitFetched(w)
    PROVE  CrawlInv'
<1> USE DEF coordVars, robotsVars, gateVars, outVars
<1>1. /\ pc \in [Workers -> Places] /\ VisitTypes /\ page \in [Workers -> Pages]
      /\ stats \in [{"Fetched", "Failed", "RobotsDisallow"} -> Nat] /\ Counted \in Nat
  BY CrawlTypes
<1>2. /\ UNCHANGED <<target, ctxDone, page, attempt, gate, since>> /\ UNCHANGED coordVars
      /\ UNCHANGED robotsVars
  BY DEF RobotsDisallow, PassGate, VisitCanceled, VisitFailed, VisitFetched
<1>3. sleep' \in [Workers -> Nat] /\ VisitTypes'
  <2>1. sleep' \in [Workers -> Nat]
    BY <1>1 DEF VisitTypes, RobotsDisallow, PassGate, VisitCanceled, VisitFailed, VisitFetched
  <2> QED BY <1>1, <1>2, <2>1 DEF VisitTypes
<1>4. /\ "robots" \in Fetching /\ "gate" \in Fetching /\ "request" \in Fetching /\ "fetch" \in Fetching
  BY DEF Fetching, Visits, Places
<1>5. <<>> \in Seq(Pages)
  OBVIOUS
<1>6. ASSUME pc[w] \in Fetching, VisitEnds(w, <<>>), fetched' = fetched,
             stats' \in [{"Fetched", "Failed", "RobotsDisallow"} -> Nat],
             Counted' = Counted + 1 \/ (Counted' = Counted /\ ctxDone)
      PROVE  CrawlInv'
  BY <1>2, <1>3, <1>5, <1>6, VisitEndsInv
<1>7. CASE RobotsDisallow(w)
  <2>1. /\ pc[w] \in Fetching /\ VisitEnds(w, <<>>) /\ fetched' = fetched
        /\ stats' = [stats EXCEPT !.RobotsDisallow = stats.RobotsDisallow + 1]
    BY <1>4, <1>7 DEF RobotsDisallow
  <2>2. Counted' = Counted + 1 /\ stats' \in [{"Fetched", "Failed", "RobotsDisallow"} -> Nat]
    BY <1>1, <2>1 DEF Counted
  <2> QED BY <1>6, <2>1, <2>2
<1>8. CASE PassGate(w)
  <2>1. CASE sleep[w] = 0 /\ Goto(w, "request") /\ UNCHANGED <<sleep, links>>
    <3>1. /\ pc[w] = "gate" /\ pc' = [pc EXCEPT ![w] = "request"] /\ pc[w] \in Fetching
          /\ UNCHANGED <<stats, fetched, links>>
      BY <1>4, <1>8, <2>1 DEF PassGate, Goto
    <3>2. \A v \in Workers : pc'[v] = IF v = w THEN "request" ELSE pc[v]
      BY <1>1, <3>1
    <3>3. RulesKept'
      BY <1>2, <3>1, <3>2 DEF CrawlInv, RulesKept
    <3> QED BY <1>2, <1>3, <1>4, <3>1, <3>3, VisitMove
  <2>2. CASE ctxDone /\ VisitEnds(w, <<>>)
    <3>1. pc[w] \in Fetching /\ fetched' = fetched /\ stats' = stats
      BY <1>4, <1>8 DEF PassGate
    <3>2. Counted' = Counted
      BY <3>1 DEF Counted
    <3> QED BY <1>1, <1>6, <2>2, <3>1, <3>2
  <2> QED BY <1>8, <2>1, <2>2 DEF PassGate
<1>9. CASE VisitCanceled(w)
  <2>1. /\ pc[w] \in Fetching /\ VisitEnds(w, <<>>) /\ fetched' = fetched /\ stats' = stats /\ ctxDone
    BY <1>4, <1>9 DEF VisitCanceled
  <2>2. Counted' = Counted
    BY <2>1 DEF Counted
  <2> QED BY <1>1, <1>6, <2>1, <2>2
<1>10. CASE VisitFailed(w)
  <2>1. /\ pc[w] \in Fetching /\ VisitEnds(w, <<>>) /\ fetched' = fetched
        /\ stats' = [stats EXCEPT !.Failed = stats.Failed + 1]
    BY <1>4, <1>10 DEF VisitFailed
  <2>2. Counted' = Counted + 1 /\ stats' \in [{"Fetched", "Failed", "RobotsDisallow"} -> Nat]
    BY <1>1, <2>1 DEF Counted
  <2> QED BY <1>6, <2>1, <2>2
<1>11. CASE VisitFetched(w)
  <2> DEFINE ls == IF frontier.depth[page[w]] < MaxDepth THEN LinksOf(page[w]) ELSE <<>>
  <2>1. /\ pc[w] \in Fetching /\ VisitEnds(w, ls) /\ fetched' = fetched \cup {page[w]}
        /\ stats' = [stats EXCEPT !.Fetched = stats.Fetched + 1]
    BY <1>4, <1>11 DEF VisitFetched
  <2>2. Counted' = Counted + 1 /\ stats' \in [{"Fetched", "Failed", "RobotsDisallow"} -> Nat]
    BY <1>1, <2>1 DEF Counted
  <2>3. ls \in Seq(Pages)
    <3>1. target.links \in Sites
      BY DEF CrawlInv, Shapes
    <3>2. target.links \in [Pages -> Seq(Pages)]
      BY <3>1, CrawlAssumption
    <3>3. target.moved \in [Pages -> Pages]
      BY CrawlAssumption DEF CrawlInv, Shapes
    <3> QED BY <1>1, <1>5, <3>2, <3>3 DEF LinksOf
  <2>4. /\ ls # <<>> => frontier.depth[page[w]] < MaxDepth
        /\ frontier.depth[page[w]] < MaxDepth => ls = LinksOf(page[w])
    OBVIOUS
  <2> HIDE DEF ls
  <2> QED BY <1>2, <1>3, <2>1, <2>2, <2>3, <2>4, VisitEndsInv
<1> QED BY <1>7, <1>8, <1>9, <1>10, <1>11
-----------------------------------------------------------------------------
\* A frontier with another queue.
LEMMA Requeued ==
    ASSUME NEW fr, GoodFrontier(fr), NEW q
    PROVE  [fr EXCEPT !.pending = q]
             = [depth |-> fr.depth, pending |-> q, exhausted |-> fr.exhausted]
<1>1. fr \in Frontiers
  BY DEF GoodFrontier
<1> QED BY <1>1 DEF Frontiers

\* What is at the head of the queue was seen, and the rest stays so.
LEMMA QueueHead ==
    ASSUME CrawlInv, frontier.pending # <<>>
    PROVE  LET fs == [frontier EXCEPT !.pending = Tail(frontier.pending)] IN
           /\ Head(frontier.pending) \in Pages /\ Head(frontier.pending) \in Seen(frontier)
           /\ GoodFrontier(fs) /\ Seen(fs) = Seen(frontier) /\ fs.depth = frontier.depth
           /\ fs.exhausted = frontier.exhausted
           /\ Len(fs.pending) = Len(frontier.pending) - 1
<1> DEFINE q == frontier.pending
           fs == [frontier EXCEPT !.pending = Tail(q)]
<1>1. GoodFrontier(frontier)
  BY DEF CrawlInv
<1>2. /\ frontier.depth \in [Pages -> Depths] /\ q \in Seq(Pages) /\ frontier.exhausted \in BOOLEAN
      /\ frontier = [depth |-> frontier.depth, pending |-> q, exhausted |-> frontier.exhausted]
  BY <1>1, FrontierFields
<1>3. fs = [depth |-> frontier.depth, pending |-> Tail(q), exhausted |-> frontier.exhausted]
  BY <1>1, Requeued, Zenon
<1>4. ToSet(q) \subseteq Seen(frontier)
  BY <1>1 DEF GoodFrontier
<1>5. q # <<>>
  OBVIOUS
<1> HIDE DEF q, fs
<1>6. /\ Len(q) \in Nat /\ Len(q) > 0 /\ DOMAIN q = 1..Len(q) /\ Tail(q) \in Seq(Pages)
      /\ Len(Tail(q)) = Len(q) - 1 /\ Head(q) = q[1] /\ Head(q) \in Pages
  BY <1>2, <1>5
<1>7. Head(q) \in ToSet(q)
  BY <1>6 DEF ToSet
<1>8. ToSet(Tail(q)) \subseteq ToSet(q)
  <2> SUFFICES ASSUME NEW i \in DOMAIN Tail(q) PROVE Tail(q)[i] \in ToSet(q)
    BY DEF ToSet
  <2>1. i \in 1..(Len(q) - 1) /\ i + 1 \in DOMAIN q
    BY <1>6
  <2>2. Tail(q)[i] = q[i + 1]
    BY <1>2, <1>5, <1>6, <2>1
  <2> QED BY <2>1, <2>2 DEF ToSet
<1>9. fs.depth = frontier.depth /\ fs.pending = Tail(q) /\ fs.exhausted = frontier.exhausted
  BY <1>3, Zenon
<1>10. fs \in Frontiers
  BY <1>2, <1>3, <1>6, Zenon DEF Frontiers
<1>11. Seen(fs) = Seen(frontier)
  BY <1>9 DEF Seen
<1>12. GoodFrontier(fs)
  BY <1>1, <1>4, <1>8, <1>9, <1>10, <1>11 DEF GoodFrontier
<1> QED BY <1>4, <1>6, <1>7, <1>9, <1>11, <1>12 DEF q, fs

\* A page goes from the queue to a worker (crawler.go:140-150).
LEMMA SendJobInv ==
    ASSUME CrawlInv, NEW w \in Workers, SendJob(w) PROVE CrawlInv'
<1> USE DEF robotsVars, gateVars
<1> DEFINE fs == [frontier EXCEPT !.pending = Tail(frontier.pending)]
<1>1. /\ frontier' = fs /\ pc[w] = "idle" /\ pc' = [pc EXCEPT ![w] = "robots"] /\ coord = "loop"
      /\ page' = [page EXCEPT ![w] = Head(frontier.pending)] /\ inFlight' = inFlight + 1
      /\ UNCHANGED <<target, coord, ctxDone, sawCancel, attempt, links, stats, fetched>>
      /\ UNCHANGED <<robots, rules, answer, gate, sleep, since>>
  BY DEF SendJob, Goto, Looping
<1>2. /\ Head(frontier.pending) \in Pages /\ Head(frontier.pending) \in Seen(frontier)
      /\ GoodFrontier(fs) /\ Seen(fs) = Seen(frontier) /\ fs.depth = frontier.depth
      /\ fs.exhausted = frontier.exhausted
      /\ Len(fs.pending) = Len(frontier.pending) - 1
  BY QueueHead DEF SendJob
<1> HIDE DEF fs
<1>3. /\ pc \in [Workers -> Places] /\ page \in [Workers -> Pages] /\ VisitTypes
      /\ inFlight = Cardinality(Visiting) /\ Counted \in Nat
  BY CrawlTypes
<1>4. /\ "robots" \in Places /\ "robots" \in Visits /\ "robots" \in Fetching
      /\ pc[w] \notin Visits /\ pc[w] \notin Fetching
  BY <1>1 DEF Places, Visits, Fetching
<1>5. /\ \A v \in Workers : pc'[v] = IF v = w THEN "robots" ELSE pc[v]
      /\ \A v \in Workers : page'[v] = IF v = w THEN Head(frontier.pending) ELSE page[v]
      /\ pc' \in [Workers -> Places] /\ page' \in [Workers -> Pages]
  BY <1>1, <1>2, <1>3, <1>4
<1>6. inFlight' = Cardinality(Visiting')
  BY <1>1, <1>3, <1>4, VisitsMove
<1>7. /\ fs.depth \in [Pages -> Depths] /\ fs.pending \in Seq(Pages) /\ fs.exhausted \in BOOLEAN
      /\ Cardinality(Seen(fs)) <= MaxPages
  BY <1>2, FrontierFields DEF GoodFrontier
<1>8. CrawlTypeOK'
  BY <1>1, <1>3, <1>5, <1>6, <1>7 DEF CrawlInv, CrawlTypeOK, VisitTypes, Places, Depths
<1>9. Shapes'
  BY <1>1, <1>2, <1>5 DEF CrawlInv, Shapes
<1>10. LinksAbove'
  BY <1>1, <1>2, <1>5 DEF CrawlInv, LinksAbove
<1>11. NobodyLeft'
  BY <1>1 DEF NobodyLeft
<1>12. EveryPageCounted'
  <2> DEFINE q == Len(frontier.pending)
             n == Cardinality(Seen(frontier))
  <2>1. Cardinality(Busy') = Cardinality(Busy) + 1 /\ Cardinality(Busy) \in Nat
    BY <1>1, <1>3, <1>4, BusyMove, VisitsNat
  <2>2. /\ q \in Nat /\ n \in Nat /\ q + Counted + Cardinality(Busy) <= n
        /\ ~ctxDone => q + Counted + Cardinality(Busy) = n
    BY CrawlTypes, FrontierFields DEF CrawlInv
  <2>3. Counted' = Counted
    BY <1>1 DEF Counted
  <2>4. Len(fs.pending) = q - 1 /\ Cardinality(Seen(fs)) = n
    BY <1>2
  <2> HIDE DEF q, n
  <2>5. /\ Len(fs.pending) + Counted' + Cardinality(Busy') <= Cardinality(Seen(fs))
        /\ ~ctxDone => Len(fs.pending) + Counted' + Cardinality(Busy') = Cardinality(Seen(fs))
    BY <1>3, <2>1, <2>2, <2>3, <2>4
  <2> QED BY <1>1, <2>5 DEF EveryPageCounted, Busy
<1>13. LinksOnTheWay'
  <2> SUFFICES ASSUME ~ctxDone, ~frontier.exhausted, NEW p \in fetched, frontier.depth[p] < MaxDepth,
                      ~(ToSet(LinksOf(p)) \subseteq Seen(frontier))
               PROVE  \E v \in Workers : pc'[v] = "found" /\ links[v] = LinksOf(p)
    BY <1>1, <1>2 DEF LinksOnTheWay, LinksOf
  <2>1. PICK v \in Workers : pc[v] = "found" /\ links[v] = LinksOf(p)
    BY DEF CrawlInv, LinksOnTheWay, LinksOf
  <2> QED BY <1>1, <1>5, <2>1
<1>14. RulesKept'
  BY <1>1, <1>5 DEF CrawlInv, RulesKept
<1> QED BY <1>1, <1>2, <1>8, <1>9, <1>10, <1>11, <1>12, <1>13, <1>14 DEF CrawlInv

\* The coordinator receives what a visit found and queues it
\* (crawler.go:107-118, 151-159).
LEMMA ReceiveFoundInv ==
    ASSUME CrawlInv, NEW w \in Workers, ReceiveFound(w) PROVE CrawlInv'
<1> USE DEF robotsVars, gateVars, outVars
<1> DEFINE d == frontier.depth[page[w]] + 1
<1>1. /\ pc[w] = "found" /\ pc' = [pc EXCEPT ![w] = "idle"] /\ coord = "loop"
      /\ inFlight' = inFlight - 1
      /\ links' = [links EXCEPT ![w] = <<>>] /\ attempt' = [attempt EXCEPT ![w] = 0]
      /\ frontier' = IF ctxDone THEN frontier ELSE EnqueueAll(frontier, links[w], d)
      /\ UNCHANGED <<target, coord, ctxDone, sawCancel, page, stats, fetched>>
      /\ UNCHANGED <<robots, rules, answer, gate, sleep, since>>
  BY DEF ReceiveFound, Goto, Looping
<1>2. /\ pc \in [Workers -> Places] /\ page \in [Workers -> Pages] /\ VisitTypes
      /\ inFlight = Cardinality(Visiting) /\ Counted \in Nat /\ links \in [Workers -> Seq(Pages)]
      /\ ctxDone \in BOOLEAN
  BY CrawlTypes
<1>3. GoodFrontier(frontier) /\ frontier.depth \in [Pages -> Depths]
  BY FrontierFields DEF CrawlInv
<1>4. links[w] # <<>> => d \in 0..MaxDepth
  <2>1. page[w] \in Seen(frontier)
    BY <1>1 DEF CrawlInv, Shapes
  <2>2. frontier.depth[page[w]] \in 0..MaxDepth
    BY <1>3, <2>1 DEF Seen, Depths
  <2>3. links[w] # <<>> => frontier.depth[page[w]] < MaxDepth
    BY DEF CrawlInv, LinksAbove
  <2> QED BY <2>2, <2>3, CrawlAssumption
<1>5. /\ Extends(frontier, frontier')
      /\ ~ctxDone => ToSet(links[w]) \subseteq Seen(frontier') \/ frontier'.exhausted
  <2>1. CASE ctxDone
    BY <1>1, <1>3, <2>1, ExtendsSelf
  <2>2. CASE ~ctxDone
    <3> HIDE DEF d
    <3>1. links[w] \in Seq(Pages)
      BY <1>2
    <3>2. frontier' = EnqueueAll(frontier, links[w], d)
      BY <1>1, <2>2
    <3> QED BY <1>3, <1>4, <3>1, <3>2, EnqueueAllFacts
  <2> QED BY <2>1, <2>2
<1> HIDE DEF d
<1>6. /\ GoodFrontier(frontier')
      /\ \A p \in Seen(frontier) : p \in Seen(frontier') /\ frontier'.depth[p] = frontier.depth[p]
      /\ frontier.exhausted => frontier'.exhausted
      /\ Cardinality(Seen(frontier')) + Len(frontier.pending)
           = Cardinality(Seen(frontier)) + Len(frontier'.pending)
  BY <1>5 DEF Extends
<1>7. /\ "idle" \in Places /\ "idle" \notin Visits /\ "idle" \notin Fetching
      /\ pc[w] \in Visits /\ pc[w] \notin Fetching
  BY <1>1 DEF Places, Visits, Fetching
<1>8. /\ \A v \in Workers : pc'[v] = IF v = w THEN "idle" ELSE pc[v]
      /\ \A v \in Workers : links'[v] = IF v = w THEN <<>> ELSE links[v]
      /\ pc' \in [Workers -> Places] /\ links' \in [Workers -> Seq(Pages)]
      /\ attempt' \in [Workers -> 0..MaxRetries]
  <2>1. <<>> \in Seq(Pages) /\ 0 \in 0..MaxRetries
    BY CrawlAssumption
  <2> QED BY <1>1, <1>2, <1>7, <2>1 DEF VisitTypes
<1>9. inFlight' = Cardinality(Visiting')
  BY <1>1, <1>2, <1>7, VisitsMove
<1>10. /\ frontier'.depth \in [Pages -> Depths] /\ frontier'.pending \in Seq(Pages)
       /\ frontier'.exhausted \in BOOLEAN /\ Cardinality(Seen(frontier')) <= MaxPages
  BY <1>6, FrontierFields DEF GoodFrontier
<1>11. CrawlTypeOK'
  BY <1>1, <1>2, <1>8, <1>9, <1>10 DEF CrawlInv, CrawlTypeOK, VisitTypes, Places, Depths
<1>12. Shapes'
  BY <1>1, <1>6, <1>8 DEF CrawlInv, Shapes
<1>13. LinksAbove'
  BY <1>1, <1>6, <1>8 DEF CrawlInv, LinksAbove, Shapes
<1>14. NobodyLeft'
  BY <1>1 DEF NobodyLeft
<1>15. EveryPageCounted'
  <2> DEFINE q == Len(frontier.pending)
             n == Cardinality(Seen(frontier))
             r == Len(frontier'.pending)
             m == Cardinality(Seen(frontier'))
  <2>1. Cardinality(Busy') = Cardinality(Busy) /\ Cardinality(Busy) \in Nat
    BY <1>1, <1>2, <1>7, BusyMove, VisitsNat
  <2>2. /\ q \in Nat /\ n \in Nat /\ q + Counted + Cardinality(Busy) <= n
        /\ ~ctxDone => q + Counted + Cardinality(Busy) = n
    BY <1>3, CrawlTypes, FrontierFields
  <2>3. Counted' = Counted
    BY <1>1 DEF Counted
  <2>4. r \in Nat /\ m \in Nat
    BY <1>6, FrontierFields
  <2>5. m + q = n + r
    BY <1>6, Zenon
  <2> HIDE DEF q, n, r, m
  <2>6. /\ r + Counted' + Cardinality(Busy') <= m
        /\ ~ctxDone => r + Counted' + Cardinality(Busy') = m
    <3> DEFINE b == Counted + Cardinality(Busy)
    <3>1. b \in Nat /\ r + Counted + Cardinality(Busy) = r + b /\ q + Counted + Cardinality(Busy) = q + b
      BY <1>2, <2>1, <2>2, <2>4
    <3> HIDE DEF b
    <3>2. q + b <= n /\ (~ctxDone => q + b = n)
      BY <2>2, <3>1
    <3>3. m - r = n - q
      BY <2>2, <2>4, <2>5
    <3>4. r + b <= m /\ (~ctxDone => r + b = m)
      BY <2>2, <2>4, <3>1, <3>2, <3>3
    <3> QED BY <2>1, <2>3, <3>1, <3>4
  <2> QED BY <1>1, <2>6 DEF EveryPageCounted, Busy, r, m
<1>16. LinksOnTheWay'
  <2> SUFFICES ASSUME ~ctxDone, ~frontier'.exhausted, NEW p \in fetched, frontier'.depth[p] < MaxDepth,
                      ~(ToSet(LinksOf(p)) \subseteq Seen(frontier'))
               PROVE  \E v \in Workers : pc'[v] = "found" /\ links'[v] = LinksOf(p)
    BY <1>1 DEF LinksOnTheWay, LinksOf
  <2>1. p \in Seen(frontier)
    BY DEF CrawlInv, Shapes
  <2>2. ~frontier.exhausted /\ frontier.depth[p] < MaxDepth
        /\ ~(ToSet(LinksOf(p)) \subseteq Seen(frontier))
    BY <1>6, <2>1
  <2>3. PICK v \in Workers : pc[v] = "found" /\ links[v] = LinksOf(p)
    BY <2>2 DEF CrawlInv, LinksOnTheWay, LinksOf
  <2>4. v # w
    BY <1>5, <2>3
  <2> QED BY <1>8, <2>3, <2>4
<1>17. RulesKept'
  BY <1>1, <1>8 DEF CrawlInv, RulesKept
<1> QED BY <1>6, <1>11, <1>12, <1>13, <1>14, <1>15, <1>16, <1>17 DEF CrawlInv

\* The coordinator sees the end of ctx and drops the queue (crawler.go:160-165).
LEMMA SeeCancelInv ==
    ASSUME CrawlInv, SeeCancel PROVE CrawlInv'
<1> USE DEF visitVars, robotsVars, gateVars, outVars
<1>1. /\ ctxDone /\ sawCancel' = TRUE /\ coord = "loop"
      /\ frontier' = [frontier EXCEPT !.pending = <<>>]
      /\ UNCHANGED <<target, coord, inFlight, ctxDone, pc, page, attempt, links, stats, fetched>>
      /\ UNCHANGED <<robots, rules, answer, gate, sleep, since>>
  BY DEF SeeCancel, Looping
<1>2. GoodFrontier(frontier) /\ frontier.depth \in [Pages -> Depths] /\ frontier.exhausted \in BOOLEAN
  BY FrontierFields DEF CrawlInv
<1>3. frontier' = [depth |-> frontier.depth, pending |-> <<>>, exhausted |-> frontier.exhausted]
  BY <1>1, <1>2, Requeued, Zenon
<1>4. frontier'.depth = frontier.depth /\ frontier'.pending = <<>>
      /\ frontier'.exhausted = frontier.exhausted
  BY <1>3, Zenon
<1>5. Seen(frontier') = Seen(frontier)
  BY <1>4 DEF Seen
<1>6. <<>> \in Seq(Pages) /\ ToSet(<<>>) = {} /\ Len(<<>>) = 0
  BY DEF ToSet
<1>7. GoodFrontier(frontier')
  <2>1. frontier' \in Frontiers
    BY <1>2, <1>3, <1>6, Zenon DEF Frontiers
  <2> QED BY <1>2, <1>4, <1>5, <1>6, <2>1 DEF GoodFrontier
<1>8. Visiting' = Visiting /\ Busy' = Busy /\ Counted' = Counted
  BY <1>1 DEF Visiting, Busy, Counted
<1>9. CrawlTypeOK'
  <2>1. Cardinality(Seen(frontier')) <= MaxPages
    BY <1>2, <1>5 DEF GoodFrontier
  <2> QED BY <1>1, <1>2, <1>4, <1>6, <1>8, <2>1 DEF CrawlInv, CrawlTypeOK, Depths
<1>10. Shapes' /\ LinksAbove' /\ NobodyLeft'
  BY <1>1, <1>4, <1>5 DEF CrawlInv, Shapes, LinksAbove, NobodyLeft
<1>11. EveryPageCounted'
  <2> DEFINE q == Len(frontier.pending)
             n == Cardinality(Seen(frontier))
  <2>1. q \in Nat /\ n \in Nat /\ q + Counted + Cardinality(Busy) <= n /\ Counted \in Nat
    BY <1>2, CrawlTypes, FrontierFields
  <2>2. Cardinality(Busy) \in Nat
    BY CrawlTypes, VisitsNat
  <2> HIDE DEF q, n
  <2>3. 0 + Counted + Cardinality(Busy) <= n
    BY <2>1, <2>2
  <2> QED BY <1>1, <1>4, <1>5, <1>6, <1>8, <2>3 DEF EveryPageCounted, Busy, n
<1>12. LinksOnTheWay' /\ RulesKept'
  BY <1>1 DEF CrawlInv, LinksOnTheWay, LinksOf, RulesKept
<1> QED BY <1>7, <1>9, <1>10, <1>11, <1>12 DEF CrawlInv

\* A worker returns when jobs is closed (crawler.go:127-134).
LEMMA WorkerReturnsInv ==
    ASSUME CrawlInv, NEW w \in Workers, WorkerReturns(w) PROVE CrawlInv'
<1> USE DEF coordVars, visitVars, robotsVars, gateVars, outVars
<1>1. /\ pc[w] = "idle" /\ pc' = [pc EXCEPT ![w] = "exit"]
      /\ UNCHANGED <<target, coord, frontier, inFlight, sawCancel, ctxDone, page, attempt, links>>
      /\ UNCHANGED <<robots, rules, answer, gate, sleep, since, stats, fetched>>
  BY DEF WorkerReturns, Goto
<1>2. pc \in [Workers -> Places]
  BY CrawlTypes
<1>3. /\ \A v \in Workers : pc'[v] = IF v = w THEN "exit" ELSE pc[v]
      /\ pc' \in [Workers -> Places]
  BY <1>1, <1>2 DEF Places
<1>4. Visiting' = Visiting /\ Busy' = Busy /\ Counted' = Counted
  <2>1. Visiting' = Visiting
    BY <1>1, <1>3 DEF Visiting
  <2> QED BY <1>1, <1>3, <2>1 DEF Visiting, Busy, Counted
<1>5. CrawlTypeOK'
  BY <1>1, <1>3, <1>4 DEF CrawlInv, CrawlTypeOK, Places, Seen
<1>6. Shapes' /\ LinksAbove' /\ NobodyLeft'
  BY <1>1, <1>3, <1>4 DEF CrawlInv, Shapes, LinksAbove, NobodyLeft, Seen
<1>7. EveryPageCounted'
  BY <1>1, <1>4 DEF CrawlInv, EveryPageCounted, Busy, Seen
<1>8. LinksOnTheWay' /\ RulesKept'
  BY <1>1, <1>3 DEF CrawlInv, LinksOnTheWay, LinksOf, RulesKept, Seen
<1>9. GoodFrontier(frontier')
  BY <1>1 DEF CrawlInv
<1> QED BY <1>5, <1>6, <1>7, <1>8, <1>9 DEF CrawlInv

\* The steps that move no worker: jobs is closed, Run returns, ctx ends, time
\* passes.
LEMMA QuietInv ==
    ASSUME CrawlInv, CloseJobs \/ RunReturns \/ Cancel \/ Tick \/ UNCHANGED crawlVars
    PROVE  CrawlInv'
<1> USE DEF coordVars, visitVars, robotsVars, gateVars, outVars, crawlVars
<1>1. /\ UNCHANGED <<target, frontier, inFlight, sawCancel, pc, page, attempt, links>>
      /\ UNCHANGED <<robots, rules, answer, stats, fetched>>
  BY DEF CloseJobs, RunReturns, Cancel, Tick
<1>2. /\ Visiting' = Visiting /\ Busy' = Busy /\ Counted' = Counted
      /\ Seen(frontier') = Seen(frontier)
  BY <1>1 DEF Visiting, Busy, Counted, Seen
<1>3. ctxDone' \in BOOLEAN /\ (ctxDone => ctxDone') /\ coord' \in {"loop", "closed", "returned"}
  <2>1. ctxDone \in BOOLEAN /\ coord \in {"loop", "closed", "returned"}
    BY CrawlTypes
  <2>2. ctxDone' = ctxDone \/ ctxDone' = TRUE
    BY DEF CloseJobs, RunReturns, Cancel, Tick
  <2>3. coord' = coord \/ coord' = "closed" \/ coord' = "returned"
    BY DEF CloseJobs, RunReturns, Cancel, Tick
  <2>4. coord' \in {"loop", "closed", "returned"}
    BY <2>1, <2>3
  <2> QED BY <2>1, <2>2, <2>4, Zenon
<1>4. gate' \in Nat /\ since' \in 0..MaxDelay /\ sleep' \in [Workers -> Nat]
  <2>1. gate \in Nat /\ since \in 0..MaxDelay /\ sleep \in [Workers -> Nat]
    BY CrawlTypes DEF VisitTypes
  <2>2. CASE Tick
    BY <2>1, <2>2, CrawlAssumption DEF Tick, Less1
  <2>3. CASE ~Tick
    BY <2>1, <2>3 DEF CloseJobs, RunReturns, Cancel
  <2> QED BY <2>2, <2>3
<1>5. CrawlTypeOK'
  BY <1>1, <1>2, <1>3, <1>4 DEF CrawlInv, CrawlTypeOK
<1>6. Shapes' /\ LinksAbove'
  BY <1>1, <1>2 DEF CrawlInv, Shapes, LinksAbove
<1>7. NobodyLeft'
  <2>1. CASE CloseJobs
    <3>1. ~(inFlight > 0) /\ inFlight = Cardinality(Visiting)
      BY <2>1, CrawlTypes DEF CloseJobs, Looping
    <3>2. IsFiniteSet(Visiting) /\ Cardinality(Visiting) \in Nat
      BY CrawlTypes, VisitsNat
    <3>3. Visiting = {}
      BY <3>1, <3>2, FS_EmptySet
    <3> QED BY <1>2, <3>3 DEF NobodyLeft
  <2>2. CASE ~CloseJobs
    BY <1>2, <2>2 DEF CrawlInv, NobodyLeft, RunReturns, Cancel, Tick
  <2> QED BY <2>1, <2>2
<1>8. EveryPageCounted'
  BY <1>1, <1>2, <1>3 DEF CrawlInv, EveryPageCounted, Busy
<1>9. LinksOnTheWay' /\ RulesKept'
  BY <1>1, <1>2, <1>3 DEF CrawlInv, LinksOnTheWay, LinksOf, RulesKept
<1>10. GoodFrontier(frontier')
  BY <1>1 DEF CrawlInv
<1> QED BY <1>5, <1>6, <1>7, <1>8, <1>9, <1>10 DEF CrawlInv
-----------------------------------------------------------------------------
\* The frontier a crawl starts with (crawler.go:90-118).
LEMMA EmptyFrontierGood ==
    /\ GoodFrontier(EmptyFrontier) /\ Seen(EmptyFrontier) = {}
    /\ EmptyFrontier.pending = <<>>
<1>1. EmptyFrontier.depth = [p \in Pages |-> NotSeen] /\ EmptyFrontier.pending = <<>>
  BY DEF EmptyFrontier
<1>2. Seen(EmptyFrontier) = {}
  BY <1>1 DEF Seen
<1>3. [p \in Pages |-> NotSeen] \in [Pages -> Depths] /\ <<>> \in Seq(Pages) /\ ToSet(<<>>) = {}
  BY DEF Depths, ToSet
<1>4. EmptyFrontier \in Frontiers
  BY <1>3, Zenon DEF EmptyFrontier, Frontiers
<1>5. IsFiniteSet(Seen(EmptyFrontier)) /\ Cardinality(Seen(EmptyFrontier)) = 0
  BY <1>2, FS_EmptySet
<1> QED BY <1>1, <1>2, <1>3, <1>4, <1>5, CrawlAssumption DEF GoodFrontier

\* The invariant holds when Run begins.
LEMMA CrawlInit == Init => CrawlInv
<1> SUFFICES ASSUME Init PROVE CrawlInv
  OBVIOUS
<1> USE DEF Init
<1>1. Starts \in Seq(Pages) /\ Starts # <<>> /\ 0 \in 0..MaxDepth /\ Head(Starts) \in Pages
  BY CrawlAssumption
<1>2. Extends(EmptyFrontier, frontier)
  BY <1>1, EmptyFrontierGood, EnqueueAllFacts
<1>3. GoodFrontier(frontier) /\ Cardinality(Seen(frontier)) = Len(frontier.pending)
  <2>1. Cardinality(Seen(EmptyFrontier)) = 0 /\ Len(EmptyFrontier.pending) = 0
    BY EmptyFrontierGood, FS_EmptySet
  <2>2. GoodFrontier(frontier)
    BY <1>2 DEF Extends
  <2>3. Len(frontier.pending) \in Nat /\ Cardinality(Seen(frontier)) \in Nat
    BY <2>2, FrontierFields
  <2>4. Cardinality(Seen(frontier)) + 0 = 0 + Len(frontier.pending)
    BY <1>2, <2>1 DEF Extends
  <2> QED BY <2>2, <2>3, <2>4
<1>4. /\ frontier.depth \in [Pages -> Depths] /\ frontier.pending \in Seq(Pages)
      /\ frontier.exhausted \in BOOLEAN /\ Len(frontier.pending) \in Nat
  BY <1>3, FrontierFields
<1>5. Visiting = {} /\ Busy = {}
  BY DEF Visiting, Busy
<1>6. Cardinality(Visiting) = 0 /\ Cardinality(Busy) = 0
  BY <1>5, FS_EmptySet
<1>7. /\ stats \in [{"Fetched", "Failed", "RobotsDisallow"} -> Nat]
      /\ Counted = 0
  BY DEF Counted
<1>8. since \in 0..MaxDelay /\ 0 \in 0..MaxRetries
  BY CrawlAssumption
<1>9. CrawlTypeOK
  <2>1. Cardinality(Seen(frontier)) <= MaxPages
    BY <1>3 DEF GoodFrontier
  <2> QED BY <1>1, <1>4, <1>6, <1>7, <1>8, <2>1 DEF CrawlTypeOK, Depths
<1>10. Shapes
  <2>1. <<>> \in Seq(Pages)
    OBVIOUS
  <2> QED BY <2>1 DEF Shapes
<1>11. LinksAbove /\ NobodyLeft /\ LinksOnTheWay /\ RulesKept
  BY DEF LinksAbove, NobodyLeft, LinksOnTheWay, LinksOf, RulesKept
<1>12. EveryPageCounted
  BY <1>3, <1>4, <1>6, <1>7 DEF EveryPageCounted, Busy
<1> QED BY <1>3, <1>9, <1>10, <1>11, <1>12 DEF CrawlInv

\* Every step keeps it.
LEMMA CrawlStep == CrawlInv /\ [Next]_crawlVars => CrawlInv'
<1> SUFFICES ASSUME CrawlInv, [Next]_crawlVars PROVE CrawlInv'
  OBVIOUS
<1>1. CASE \E w \in Workers : SendJob(w)
  BY <1>1, SendJobInv
<1>2. CASE \E w \in Workers : ReceiveFound(w)
  BY <1>2, ReceiveFoundInv
<1>3. CASE SeeCancel
  BY <1>3, SeeCancelInv
<1>4. CASE CloseJobs \/ RunReturns \/ Cancel \/ Tick \/ UNCHANGED crawlVars
  BY <1>4, QuietInv
<1>5. CASE \E w \in Workers : WorkerReturns(w)
  BY <1>5, WorkerReturnsInv
<1>6. ASSUME NEW w \in Workers, VisitStep(w) PROVE CrawlInv'
  <2>1. CASE \/ RobotsIgnored(w) \/ RobotsGet(w) \/ RobotsAnswer(w) \/ RobotsAllow(w)
             \/ Request(w) \/ Retry(w)
    BY <2>1, RobotsInv
  <2>2. CASE \/ RobotsDisallow(w) \/ PassGate(w) \/ VisitCanceled(w)
             \/ VisitFailed(w) \/ VisitFetched(w)
    BY <2>2, EndsInv
  <2> QED BY <1>6, <2>1, <2>2 DEF VisitStep
<1>7. CASE Finished
  BY <1>7, QuietInv DEF Finished
<1> QED BY <1>1, <1>2, <1>3, <1>4, <1>5, <1>6, <1>7 DEF Next, Coordinate

\* The invariant holds in every reachable state.
LEMMA CrawlInvariant == Spec => []CrawlInv
  BY CrawlInit, CrawlStep, PTL DEF Spec
-----------------------------------------------------------------------------
(***************************************************************************)
(* Every variable keeps its type; the frontier stays within MaxPages and   *)
(* MaxDepth, and inFlight is the number of visits under way, on every site *)
(* (crawler.go:86-166).                                                    *)
(***************************************************************************)
THEOREM CrawlTypeCorrect == Spec => []CrawlTypeOK
<1>1. CrawlInv => CrawlTypeOK
  BY DEF CrawlInv
<1> QED BY <1>1, CrawlInvariant, PTL

(***************************************************************************)
(* No page is visited or counted twice, and without cancellation none is   *)
(* lost between queue, workers and counters (crawler.go:107-166, 170-259). *)
(***************************************************************************)
THEOREM PagesAreCounted == Spec => []EveryPageCounted
<1>1. CrawlInv => EveryPageCounted
  BY DEF CrawlInv
<1> QED BY <1>1, CrawlInvariant, PTL

(***************************************************************************)
(* A crawl that returns without cancellation and without BudgetExhausted   *)
(* has seen every link of every page it fetched above MaxDepth             *)
(* (crawler.go:86-87, 107-118, 140-162).                                   *)
(***************************************************************************)
THEOREM CrawlMissesNothing == Spec => []NothingMissed
<1>1. ASSUME CrawlInv PROVE NothingMissed
  <2> SUFFICES ASSUME coord = "returned", ~ctxDone, ~frontier.exhausted, NEW p \in fetched,
                      frontier.depth[p] < MaxDepth
               PROVE  ToSet(LinksOf(p)) \subseteq Seen(frontier)
    BY DEF NothingMissed, LinksOf
  <2>1. Visiting = {}
    BY <1>1 DEF CrawlInv, NobodyLeft
  <2>2. \A w \in Workers : pc[w] # "found"
    BY <2>1 DEF Visiting
  <2> QED BY <1>1, <2>2 DEF CrawlInv, LinksOnTheWay, LinksOf
<1> QED BY <1>1, CrawlInvariant, PTL
-----------------------------------------------------------------------------
(***************************************************************************)
(* What Allowed's loop computes (robots.go:125-146).                       *)
(***************************************************************************)
RuleObjects == [allow : BOOLEAN, length : Nat, matches : SUBSET Pages]

\* One turn of the loop.
Picked(rs, p, best, n) == IF p \in rs[n].matches THEN Better(best, rs[n]) ELSE best

\* g picks the best of the first n rules.
Picks(g, rs, p, n) ==
    g = [i \in 0..n |-> IF i = 0 THEN newRule(TRUE, -1, {}) ELSE Picked(rs, p, g[i - 1], i)]

\* A function that picks exists, for a prefix of any length.
LEMMA PicksExists ==
    ASSUME NEW rs, NEW p PROVE \A n \in Nat : \E g : Picks(g, rs, p, n)
<1> DEFINE S == {n \in Nat : \E g : Picks(g, rs, p, n)}
<1>1. 0 \in S
  <2> DEFINE g == [i \in 0..0 |-> newRule(TRUE, -1, {})]
  <2>1. \A i \in 0..0 : i = 0
    OBVIOUS
  <2>2. Picks(g, rs, p, 0)
    BY <2>1 DEF Picks
  <2> QED BY <2>2
<1>2. ASSUME NEW n \in Nat, n \in S PROVE n + 1 \in S
  <2>1. PICK g : Picks(g, rs, p, n)
    BY <1>2
  <2> DEFINE h == [i \in 0..(n + 1) |-> IF i = n + 1 THEN Picked(rs, p, g[n], n + 1) ELSE g[i]]
  <2>2. ASSUME NEW i \in 0..(n + 1)
        PROVE  h[i] = IF i = 0 THEN newRule(TRUE, -1, {}) ELSE Picked(rs, p, h[i - 1], i)
    <3>1. CASE i = n + 1
      <4>1. i - 1 = n /\ n \in 0..(n + 1) /\ n # n + 1 /\ i # 0
        BY <3>1
      <4>2. h[n] = g[n]
        BY <4>1
      <4> QED BY <3>1, <4>1, <4>2
    <3>2. CASE i = 0
      <4>1. i # n + 1 /\ i \in 0..n
        BY <3>2
      <4> QED BY <3>2, <4>1, <2>1 DEF Picks
    <3>3. CASE i # 0 /\ i # n + 1
      <4>1. i \in 0..n /\ i - 1 \in 0..n /\ i - 1 \in 0..(n + 1) /\ i - 1 # n + 1
        BY <3>3
      <4>2. h[i] = g[i] /\ h[i - 1] = g[i - 1]
        BY <3>3, <4>1
      <4>3. g[i] = Picked(rs, p, g[i - 1], i)
        BY <2>1, <3>3, <4>1 DEF Picks
      <4> QED BY <3>3, <4>2, <4>3
    <3> QED BY <3>1, <3>2, <3>3
  <2>3. Picks(h, rs, p, n + 1)
    BY <2>2 DEF Picks
  <2> QED BY <2>3
<1> HIDE DEF S
<1>3. \A n \in Nat : n \in S
  BY <1>1, <1>2, SetInduction
<1> QED BY <1>3 DEF S

\* Allowed is what the pick of all rules says.
LEMMA AllowedPicks ==
    ASSUME NEW r, Len(r.rules) \in Nat, NEW p
    PROVE  \E g : Picks(g, r.rules, p, Len(r.rules)) /\ Allowed(r, p) = g[Len(r.rules)].allow
<1> DEFINE g == CHOOSE g : Picks(g, r.rules, p, Len(r.rules))
<1>1. Picks(g, r.rules, p, Len(r.rules))
  BY PicksExists
<1>2. Allowed(r, p) = g[Len(r.rules)].allow
  BY DEF Allowed, Picks, Picked
<1> QED BY <1>1, <1>2

\* b is the best of the matching rules of rs up to n: none is longer; if it
\* allows, it is one of them or there is none; if not, it is one of them and
\* every Allow is shorter.
Longest(b, rs, p, n) ==
    b.length \in Int /\ \A i \in 1..n : p \in rs[i].matches => rs[i].length <= b.length
Allows(b, rs, p, n) ==
    \/ b.length = -1 /\ \A i \in 1..n : p \notin rs[i].matches
    \/ \E i \in 1..n : p \in rs[i].matches /\ rs[i].length = b.length /\ rs[i].allow
Forbids(b, rs, p, n) ==
    /\ \E i \in 1..n : p \in rs[i].matches /\ rs[i].length = b.length /\ ~rs[i].allow
    /\ \A i \in 1..n : p \in rs[i].matches /\ rs[i].allow => rs[i].length < b.length
Best(b, rs, p, n) ==
    /\ Longest(b, rs, p, n)
    /\ b.length >= -1
    /\ b.allow => Allows(b, rs, p, n)
    /\ ~b.allow => Forbids(b, rs, p, n)

\* The longest matching rule wins and Allow wins a tie: a page is allowed
\* unless a matching Disallow is longer than every matching Allow.
LEMMA AllowedMeans ==
    ASSUME NEW r, r.rules \in Seq(RuleObjects), NEW p
    PROVE  LET rs == r.rules
               M == {i \in 1..Len(rs) : p \in rs[i].matches} IN
           Allowed(r, p) <=>
              \A d \in M : ~rs[d].allow => \E a \in M : rs[a].allow /\ rs[a].length >= rs[d].length
<1> DEFINE rs == r.rules
<1>1. Len(rs) \in Nat /\ \A i \in 1..Len(rs) : rs[i] \in RuleObjects
  OBVIOUS
<1>2. PICK g : Picks(g, rs, p, Len(rs)) /\ Allowed(r, p) = g[Len(rs)].allow
  BY <1>1, AllowedPicks
<1>3. \A i \in 1..Len(rs) : rs[i].allow \in BOOLEAN /\ rs[i].length \in Nat
  BY <1>1 DEF RuleObjects
<1> HIDE DEF rs
<1> DEFINE S == {n \in Nat : n <= Len(rs) => Best(g[n], rs, p, n)}
<1>4. 0 \in S
  <2>1. g[0] = newRule(TRUE, -1, {})
    <3>1. 0 \in 0..Len(rs)
      BY <1>1
    <3> QED BY <1>2, <3>1 DEF Picks
  <2>2. g[0].allow = TRUE /\ g[0].length = -1
    BY <2>1 DEF newRule
  <2>3. \A i : i \notin 1..0
    OBVIOUS
  <2>4. Longest(g[0], rs, p, 0) /\ g[0].length >= -1
    BY <2>2, <2>3 DEF Longest
  <2>5. Best(g[0], rs, p, 0)
    <3>1. Allows(g[0], rs, p, 0)
      BY <2>2, <2>3, Zenon DEF Allows
    <3> QED BY <2>2, <2>4, <3>1, Zenon DEF Best
  <2> QED BY <2>5
<1>5. ASSUME NEW n \in Nat, n \in S PROVE n + 1 \in S
  <2> SUFFICES ASSUME n + 1 <= Len(rs) PROVE Best(g[n + 1], rs, p, n + 1)
    OBVIOUS
  <2> DEFINE b == g[n]
             ru == rs[n + 1]
  <2>1. Best(b, rs, p, n)
    BY <1>1, <1>5
  <2>2. g[n + 1] = Picked(rs, p, b, n + 1)
    <3>1. n + 1 \in 0..Len(rs) /\ n + 1 # 0 /\ (n + 1) - 1 = n
      BY <1>1
    <3> QED BY <1>2, <3>1 DEF Picks
  <2>3. ru.allow \in BOOLEAN /\ ru.length \in Nat
    BY <1>1, <1>3
  <2>4. \A i : i \in 1..(n + 1) <=> i \in 1..n \/ i = n + 1
    OBVIOUS
  <2>5. \A i \in 1..n : rs[i].allow \in BOOLEAN /\ rs[i].length \in Nat
    BY <1>1, <1>3
  <2>6. CASE p \notin ru.matches
    <3>1. g[n + 1] = b
      BY <2>2, <2>6 DEF Picked
    <3> HIDE DEF b
    <3> QED BY <2>1, <2>4, <2>6, <3>1 DEF Best, Longest, Allows, Forbids
  <2>7. CASE p \in ru.matches /\ (ru.length > b.length \/ (ru.length = b.length /\ ru.allow))
    <3>1. g[n + 1] = ru
      BY <2>2, <2>7 DEF Picked, Better
    <3> HIDE DEF b
    <3>2. Longest(ru, rs, p, n + 1) /\ ru.length >= -1
      BY <2>1, <2>3, <2>4, <2>5, <2>7 DEF Best, Longest
    <3>3. ru.allow => Allows(ru, rs, p, n + 1)
      BY <2>4, <2>7 DEF Allows
    <3>4. ASSUME ~ru.allow PROVE Forbids(ru, rs, p, n + 1)
      BY <2>1, <2>3, <2>4, <2>5, <2>7, <3>4 DEF Best, Longest, Forbids
    <3> QED BY <3>1, <3>2, <3>3, <3>4 DEF Best
  <2>8. CASE p \in ru.matches /\ ~(ru.length > b.length \/ (ru.length = b.length /\ ru.allow))
    <3>1. g[n + 1] = b
      BY <2>2, <2>8 DEF Picked, Better
    <3> HIDE DEF b
    <3>2. Longest(b, rs, p, n + 1) /\ b.length >= -1
      BY <2>1, <2>3, <2>4, <2>5, <2>8 DEF Best, Longest
    <3>3. ASSUME b.allow PROVE Allows(b, rs, p, n + 1)
      <4>1. ru.length >= 0 /\ ru.length <= b.length
        BY <2>1, <2>3, <2>8 DEF Best, Longest
      <4>2. b.length # -1
        BY <2>1, <2>3, <4>1 DEF Best, Longest
      <4> QED BY <2>1, <2>4, <3>3, <4>2 DEF Best, Allows
    <3>4. ASSUME ~b.allow PROVE Forbids(b, rs, p, n + 1)
      <4>1. ru.allow => ru.length < b.length
        BY <2>1, <2>3, <2>8 DEF Best, Longest
      <4> QED BY <2>1, <2>4, <3>4, <4>1 DEF Best, Forbids
    <3> QED BY <3>1, <3>2, <3>3, <3>4 DEF Best
  <2> QED BY <2>6, <2>7, <2>8
<1> HIDE DEF S
<1>6. Len(rs) \in S
  BY <1>1, <1>4, <1>5, SetInduction
<1>7. Best(g[Len(rs)], rs, p, Len(rs))
  BY <1>1, <1>6 DEF S
<1> DEFINE M == {i \in 1..Len(rs) : p \in rs[i].matches}
<1>8. Allowed(r, p) <=>
        \A d \in M : ~rs[d].allow => \E a \in M : rs[a].allow /\ rs[a].length >= rs[d].length
  <2> DEFINE b == g[Len(rs)]
  <2>1. CASE b.allow
    BY <1>2, <1>3, <1>7, <2>1 DEF Best, Longest, Allows
  <2>2. CASE ~b.allow
    BY <1>2, <1>3, <1>7, <2>2 DEF Best, Longest, Forbids
  <2> QED BY <2>1, <2>2
<1> QED BY <1>8 DEF rs

-----------------------------------------------------------------------------
(***************************************************************************)
(* What Parse's loop over the lines computes (robots.go:63-97).            *)
(***************************************************************************)
Names == Ours \cup {"*", "other"}
GroupObjects == [agents : SUBSET Names, rules : Seq(RuleObjects), delay : Nat]

IsRule(line) == line.key \in {"allow", "disallow"} /\ line.length > 0
RuleOf(line) == newRule(line.key = "allow", line.length, line.matches)

\* The values a line may have, by its key.
LEMMA LineTypes ==
    ASSUME NEW l \in Lines
    PROVE  /\ l.key = "user-agent" => l.name \in Names
           /\ l.key \in {"allow", "disallow"} => l.length \in Nat /\ RuleOf(l) \in RuleObjects
           /\ l.key = "crawl-delay" => l.delay \in Nat
           /\ IsRule(l) => RuleOf(l).length = l.length /\ RuleOf(l).matches = l.matches
           /\ IsRule(l) => (RuleOf(l).allow <=> l.key = "allow")
<1>1. CASE l \in [key : {"user-agent"}, name : Names]
  BY <1>1 DEF IsRule
<1>2. CASE l \in [key : {"allow", "disallow"}, length : Nat, matches : SUBSET Pages]
  <2>1. l.key \in {"allow", "disallow"} /\ l.length \in Nat /\ l.matches \in SUBSET Pages
    BY <1>2
  <2>2. (l.key = "allow") \in BOOLEAN
    OBVIOUS
  <2>3. RuleOf(l) \in RuleObjects
    BY <2>1, <2>2, Zenon DEF RuleOf, newRule, RuleObjects
  <2>4. /\ RuleOf(l).length = l.length /\ RuleOf(l).matches = l.matches
        /\ RuleOf(l).allow = (l.key = "allow")
    BY Zenon DEF RuleOf, newRule
  <2> QED BY <2>1, <2>3, <2>4
<1>3. CASE l \in [key : {"crawl-delay"}, delay : Nat]
  BY <1>3 DEF IsRule
<1>4. CASE l \in [key : {"sitemap", "blank"}]
  BY <1>4 DEF IsRule
<1> QED BY <1>1, <1>2, <1>3, <1>4 DEF Lines, Names

\* A list of groups with its last one replaced.
LEMMA LastReplaced ==
    ASSUME NEW gs \in Seq(GroupObjects), gs # <<>>, NEW g \in GroupObjects
    PROVE  LET hs == [gs EXCEPT ![Len(gs)] = g] IN
           /\ hs \in Seq(GroupObjects) /\ Len(hs) = Len(gs)
           /\ \A k \in 1..Len(gs) : hs[k] = IF k = Len(gs) THEN g ELSE gs[k]
OBVIOUS

\* A list of groups with one more.
LEMMA GroupAppended ==
    ASSUME NEW gs \in Seq(GroupObjects), NEW g \in GroupObjects
    PROVE  LET hs == Append(gs, g) IN
           /\ hs \in Seq(GroupObjects) /\ Len(hs) = Len(gs) + 1
           /\ \A k \in 1..Len(gs) : hs[k] = gs[k]
           /\ hs[Len(gs) + 1] = g
OBVIOUS

\* What a list of rules holds after one was appended.
LEMMA AppendRule ==
    ASSUME NEW rs \in Seq(RuleObjects), NEW ru \in RuleObjects
    PROVE  /\ Append(rs, ru) \in Seq(RuleObjects)
           /\ ToSet(Append(rs, ru)) = ToSet(rs) \cup {ru}
<1>1. /\ Append(rs, ru) \in Seq(RuleObjects) /\ Len(rs) \in Nat
      /\ DOMAIN rs = 1..Len(rs) /\ DOMAIN Append(rs, ru) = 1..(Len(rs) + 1)
  OBVIOUS
<1>2. \A i \in 1..Len(rs) : Append(rs, ru)[i] = rs[i]
  OBVIOUS
<1>3. Append(rs, ru)[Len(rs) + 1] = ru
  OBVIOUS
<1>4. \A i : i \in 1..(Len(rs) + 1) <=> i \in 1..Len(rs) \/ i = Len(rs) + 1
  BY <1>1
<1> QED BY <1>1, <1>2, <1>3, <1>4 DEF ToSet

\* A state of the loop: cur is nil only before the first agent.
IsReading(st) ==
    /\ st.groups \in Seq(GroupObjects) /\ st.lastWasAgent \in BOOLEAN
    /\ st.lastWasAgent => st.groups # <<>>

\* What one line does: to is the state after it.
LineRead(st, to, l) ==
    LET n == Len(st.groups)
        m == Len(to.groups)
        starts == l.key = "user-agent" /\ ~st.lastWasAgent IN
    /\ IsReading(to)
    /\ m = IF starts THEN n + 1 ELSE n
    /\ to.lastWasAgent <=> l.key = "user-agent" \/ (l.key = "blank" /\ st.lastWasAgent)
    /\ \A k \in 1..m : \A x :
          /\ x \in to.groups[k].agents <=>
                \/ k <= n /\ x \in st.groups[k].agents
                \/ l.key = "user-agent" /\ k = m /\ x = l.name
          /\ x \in ToSet(to.groups[k].rules) <=>
                \/ k <= n /\ x \in ToSet(st.groups[k].rules)
                \/ IsRule(l) /\ k = m /\ x = RuleOf(l)

\* The fields of a group.
LEMMA GroupFields ==
    ASSUME NEW agents \in SUBSET Names, NEW rs \in Seq(RuleObjects), NEW delay \in Nat
    PROVE  /\ Group(agents, rs, delay) \in GroupObjects
           /\ Group(agents, rs, delay).agents = agents /\ Group(agents, rs, delay).rules = rs
BY DEF Group, GroupObjects

\* A state of the loop after its last group was replaced.
LEMMA CurReplaced ==
    ASSUME NEW st, IsReading(st), st.groups # <<>>, NEW g \in GroupObjects, NEW to,
           to.groups = [st.groups EXCEPT ![Len(st.groups)] = g], to.lastWasAgent \in BOOLEAN
    PROVE  LET n == Len(st.groups) IN
           /\ IsReading(to) /\ Len(to.groups) = n /\ n \in 1..n
           /\ \A k \in 1..n : k <= n /\ to.groups[k] = IF k = n THEN g ELSE st.groups[k]
<1> DEFINE gs == st.groups
           n == Len(gs)
           hs == [gs EXCEPT ![n] = g]
<1>1. gs \in Seq(GroupObjects) /\ n \in Nat /\ n > 0 /\ n \in 1..n
  BY DEF IsReading
<1>2. hs \in Seq(GroupObjects) /\ Len(hs) = n /\ \A k \in 1..n : hs[k] = IF k = n THEN g ELSE gs[k]
  BY <1>1, LastReplaced
<1>3. to.groups = hs
  OBVIOUS
<1> HIDE DEF hs
<1>4. hs # <<>>
  BY <1>1, <1>2
<1>5. IsReading(to)
  BY <1>2, <1>3, <1>4 DEF IsReading
<1>6. \A k \in 1..n : k <= n
  BY <1>1
<1> QED BY <1>1, <1>2, <1>3, <1>5, <1>6

\* One line (robots.go:64-96).
LEMMA ReadLineReads ==
    ASSUME NEW st, IsReading(st), NEW l \in Lines
    PROVE  LineRead(st, ReadLine(st, l), l)
<1> DEFINE gs == st.groups
           n == Len(gs)
           cur == gs[n]
           to == ReadLine(st, l)
<1>1. gs \in Seq(GroupObjects) /\ n \in Nat /\ st.lastWasAgent \in BOOLEAN
  BY DEF IsReading
<1>2. \A k \in 1..n : gs[k].agents \in SUBSET Names /\ gs[k].rules \in Seq(RuleObjects) /\ gs[k].delay \in Nat
  <2>1. \A k \in 1..n : gs[k] \in GroupObjects
    BY <1>1
  <2> QED BY <2>1 DEF GroupObjects
<1>3. gs # <<>> => n \in 1..n
  BY <1>1
<1>4. \A k \in 1..n : k <= n
  BY <1>1
<1>5. CASE l.key = "blank"
  <2>1. to = st
    BY <1>5 DEF ReadLine
  <2>2. ~IsRule(l) /\ l.key # "user-agent"
    BY <1>5 DEF IsRule
  <2> HIDE DEF to
  <2> QED BY <1>1, <1>4, <1>5, <2>1, <2>2 DEF LineRead, to
<1>6. CASE l.key = "user-agent" /\ st.lastWasAgent
  <2> DEFINE g == Group(cur.agents \cup {l.name}, cur.rules, cur.delay)
  <2>1. to = Reading([gs EXCEPT ![n] = g], TRUE)
    BY <1>6 DEF ReadLine
  <2>2. gs # <<>> /\ ~IsRule(l)
    BY <1>6 DEF IsReading, IsRule
  <2>3. cur.agents \cup {l.name} \in SUBSET Names
    BY <1>2, <1>3, <1>6, <2>2, LineTypes
  <2>4. g \in GroupObjects /\ g.agents = cur.agents \cup {l.name} /\ g.rules = cur.rules
    BY <1>2, <1>3, <2>2, <2>3, GroupFields
  <2> HIDE DEF g, to
  <2>5. /\ IsReading(to) /\ to.lastWasAgent = TRUE /\ Len(to.groups) = n /\ n \in 1..n /\ cur = gs[n]
        /\ \A k \in 1..n : k <= n /\ to.groups[k] = IF k = n THEN g ELSE gs[k]
    <3>1. to.groups = [gs EXCEPT ![n] = g] /\ to.lastWasAgent = TRUE
      BY <2>1, Zenon DEF Reading
    <3>2. to.lastWasAgent \in BOOLEAN
      BY <3>1, Zenon
    <3> QED BY <2>2, <2>4, <3>1, <3>2, CurReplaced
  <2>6. ASSUME NEW k \in 1..n, NEW x
        PROVE  /\ x \in to.groups[k].agents <=> x \in gs[k].agents \/ (k = n /\ x = l.name)
               /\ to.groups[k].rules = gs[k].rules
    BY <2>4, <2>5
  <2> HIDE DEF gs, n, cur
  <2> QED BY <1>4, <1>6, <2>2, <2>5, <2>6, Zenon DEF LineRead, to, gs, n
<1>7. CASE l.key = "user-agent" /\ ~st.lastWasAgent
  <2> DEFINE g == Group({l.name}, <<>>, 0)
  <2>1. to = Reading(Append(gs, g), TRUE)
    BY <1>7 DEF ReadLine
  <2>2. {l.name} \in SUBSET Names /\ <<>> \in Seq(RuleObjects) /\ ~IsRule(l) /\ 0 \in Nat
    BY <1>7, LineTypes DEF IsRule
  <2>3. g \in GroupObjects /\ g.agents = {l.name} /\ g.rules = <<>>
    BY <2>2, GroupFields
  <2> HIDE DEF g, to
  <2>4. /\ Append(gs, g) \in Seq(GroupObjects) /\ Len(Append(gs, g)) = n + 1
        /\ \A k \in 1..n : Append(gs, g)[k] = gs[k]
        /\ Append(gs, g)[n + 1] = g
    BY <1>1, <2>3, GroupAppended
  <2>5. to.groups = Append(gs, g) /\ to.lastWasAgent = TRUE
    BY <2>1, Zenon DEF Reading
  <2>6. Append(gs, g) # <<>>
    BY <1>1, <2>4
  <2>7. IsReading(to)
    BY <2>4, <2>5, <2>6 DEF IsReading
  <2>8. ToSet(g.rules) = {}
    BY <2>3 DEF ToSet
  <2>9. \A k \in 1..(n + 1) : (k <= n /\ k \in 1..n /\ k # n + 1) \/ (k = n + 1 /\ ~(k <= n))
    BY <1>1
  <2>10. ASSUME NEW k \in 1..(n + 1), NEW x
         PROVE  /\ x \in to.groups[k].agents <=>
                      (k <= n /\ x \in gs[k].agents) \/ (k = n + 1 /\ x = l.name)
                /\ x \in ToSet(to.groups[k].rules) <=> k <= n /\ x \in ToSet(gs[k].rules)
    <3>1. CASE k = n + 1
      BY <2>3, <2>4, <2>5, <2>8, <2>9, <3>1
    <3>2. CASE k <= n /\ k # n + 1
      BY <2>4, <2>5, <2>9, <3>2
    <3> QED BY <2>9, <3>1, <3>2
  <2>11. Len(to.groups) = n + 1
    BY <2>4, <2>5
  <2> HIDE DEF gs, n, cur
  <2> QED BY <1>7, <2>2, <2>5, <2>7, <2>10, <2>11, Zenon DEF LineRead, to, gs, n
<1>8. CASE IsRule(l) /\ gs # <<>>
  <2> DEFINE g == Group(cur.agents, Append(cur.rules, RuleOf(l)), cur.delay)
  <2>1. l.key \in {"allow", "disallow"} /\ l.key # "blank" /\ l.key # "user-agent" /\ l.length > 0
    BY <1>8 DEF IsRule
  <2>2. to = Reading([gs EXCEPT ![n] = g], FALSE)
    BY <1>8, <2>1 DEF ReadLine, RuleOf
  <2>3. /\ Append(cur.rules, RuleOf(l)) \in Seq(RuleObjects)
        /\ ToSet(Append(cur.rules, RuleOf(l))) = ToSet(cur.rules) \cup {RuleOf(l)}
    BY <1>2, <1>3, <1>8, <2>1, LineTypes, AppendRule
  <2>4. g \in GroupObjects /\ g.agents = cur.agents /\ g.rules = Append(cur.rules, RuleOf(l))
    BY <1>2, <1>3, <1>8, <2>3, GroupFields
  <2> HIDE DEF g, to
  <2>5. /\ IsReading(to) /\ to.lastWasAgent = FALSE /\ Len(to.groups) = n /\ n \in 1..n /\ cur = gs[n]
        /\ \A k \in 1..n : k <= n /\ to.groups[k] = IF k = n THEN g ELSE gs[k]
    <3>1. to.groups = [gs EXCEPT ![n] = g] /\ to.lastWasAgent = FALSE
      BY <2>2, Zenon DEF Reading
    <3>2. to.lastWasAgent \in BOOLEAN
      BY <3>1, Zenon
    <3> QED BY <1>8, <2>4, <3>1, <3>2, CurReplaced
  <2>6. ASSUME NEW k \in 1..n, NEW x
        PROVE  /\ to.groups[k].agents = gs[k].agents
               /\ x \in ToSet(to.groups[k].rules) <=> x \in ToSet(gs[k].rules) \/ (k = n /\ x = RuleOf(l))
    <3>1. CASE k = n
      <4>1. to.groups[k] = g /\ gs[k] = cur
        BY <2>5, <3>1
      <4> QED BY <2>3, <2>4, <3>1, <4>1
    <3>2. CASE k # n
      <4>1. to.groups[k] = gs[k]
        BY <2>5, <3>2
      <4> QED BY <3>2, <4>1
    <3> QED BY <3>1, <3>2
  <2> HIDE DEF gs, n, cur
  <2> QED BY <1>4, <1>8, <2>1, <2>5, <2>6, Zenon DEF LineRead, to, gs, n
<1>9. CASE l.key = "crawl-delay" /\ gs # <<>> /\ l.delay > 0
  <2> DEFINE g == Group(cur.agents, cur.rules, l.delay)
  <2>1. to = Reading([gs EXCEPT ![n] = g], FALSE)
    BY <1>9 DEF ReadLine
  <2>2. ~IsRule(l) /\ l.key # "user-agent" /\ l.key # "blank"
    BY <1>9 DEF IsRule
  <2>3. g \in GroupObjects /\ g.agents = cur.agents /\ g.rules = cur.rules
    BY <1>2, <1>3, <1>9, LineTypes, GroupFields
  <2> HIDE DEF g, to
  <2>4. /\ IsReading(to) /\ to.lastWasAgent = FALSE /\ Len(to.groups) = n /\ n \in 1..n /\ cur = gs[n]
        /\ \A k \in 1..n : k <= n /\ to.groups[k] = IF k = n THEN g ELSE gs[k]
    <3>1. to.groups = [gs EXCEPT ![n] = g] /\ to.lastWasAgent = FALSE
      BY <2>1, Zenon DEF Reading
    <3>2. to.lastWasAgent \in BOOLEAN
      BY <3>1, Zenon
    <3> QED BY <1>9, <2>3, <3>1, <3>2, CurReplaced
  <2>5. \A k \in 1..n : to.groups[k].agents = gs[k].agents /\ to.groups[k].rules = gs[k].rules
    BY <2>3, <2>4
  <2> HIDE DEF gs, n, cur
  <2> QED BY <1>4, <2>2, <2>4, <2>5, Zenon DEF LineRead, to, gs, n
<1>10. CASE /\ l.key # "blank" /\ l.key # "user-agent" /\ ~(IsRule(l) /\ gs # <<>>)
            /\ ~(l.key = "crawl-delay" /\ gs # <<>> /\ l.delay > 0)
  <2>1. to = Reading(gs, FALSE)
    BY <1>10 DEF ReadLine, IsRule
  <2> HIDE DEF to
  <2>2. to.groups = gs /\ to.lastWasAgent = FALSE
    BY <2>1, Zenon DEF Reading
  <2>3. IsReading(to)
    BY <1>1, <2>2 DEF IsReading
  <2>4. IsRule(l) => \A k : k \notin 1..n
    BY <1>10
  <2> HIDE DEF gs, n, cur
  <2> QED BY <1>4, <1>10, <2>2, <2>3, <2>4, Zenon DEF LineRead, to, gs, n
<1> QED BY <1>5, <1>6, <1>7, <1>8, <1>9, <1>10

-----------------------------------------------------------------------------
\* g reads the first n lines.
Reads(g, file, n) ==
    g = [i \in 0..n |-> IF i = 0 THEN Reading(<<>>, FALSE) ELSE ReadLine(g[i - 1], file[i])]

\* A function that reads exists, for a prefix of any length.
LEMMA ReadsExists ==
    ASSUME NEW file PROVE \A n \in Nat : \E g : Reads(g, file, n)
<1> DEFINE S == {n \in Nat : \E g : Reads(g, file, n)}
<1>1. 0 \in S
  <2> DEFINE g == [i \in 0..0 |-> Reading(<<>>, FALSE)]
  <2>1. \A i \in 0..0 : i = 0
    OBVIOUS
  <2>2. Reads(g, file, 0)
    BY <2>1 DEF Reads
  <2> QED BY <2>2
<1>2. ASSUME NEW n \in Nat, n \in S PROVE n + 1 \in S
  <2>1. PICK g : Reads(g, file, n)
    BY <1>2
  <2> DEFINE h == [i \in 0..(n + 1) |-> IF i = n + 1 THEN ReadLine(g[n], file[n + 1]) ELSE g[i]]
  <2>2. ASSUME NEW i \in 0..(n + 1)
        PROVE  h[i] = IF i = 0 THEN Reading(<<>>, FALSE) ELSE ReadLine(h[i - 1], file[i])
    <3>1. CASE i = n + 1
      <4>1. i - 1 = n /\ n \in 0..(n + 1) /\ n # n + 1 /\ i # 0
        BY <3>1
      <4>2. h[n] = g[n]
        BY <4>1
      <4> QED BY <3>1, <4>1, <4>2
    <3>2. CASE i = 0
      <4>1. i # n + 1 /\ i \in 0..n
        BY <3>2
      <4> QED BY <3>2, <4>1, <2>1 DEF Reads
    <3>3. CASE i # 0 /\ i # n + 1
      <4>1. i \in 0..n /\ i - 1 \in 0..n /\ i - 1 \in 0..(n + 1) /\ i - 1 # n + 1
        BY <3>3
      <4>2. h[i] = g[i] /\ h[i - 1] = g[i - 1]
        BY <3>3, <4>1
      <4>3. g[i] = ReadLine(g[i - 1], file[i])
        BY <2>1, <3>3, <4>1 DEF Reads
      <4> QED BY <3>3, <4>2, <4>3
    <3> QED BY <3>1, <3>2, <3>3
  <2>3. Reads(h, file, n + 1)
    BY <2>2 DEF Reads
  <2> QED BY <2>3
<1> HIDE DEF S
<1>3. \A n \in Nat : n \in S
  BY <1>1, <1>2, SetInduction
<1> QED BY <1>3 DEF S

\* The loop begins without a group.
LEMMA NothingRead ==
    Reading(<<>>, FALSE).groups = <<>> /\ Reading(<<>>, FALSE).lastWasAgent = FALSE
BY DEF Reading

\* Every state of the loop, and what each line did.
IsRun(g, file) ==
    /\ g[0] = Reading(<<>>, FALSE)
    /\ \A n \in 0..Len(file) : IsReading(g[n])
    /\ \A n \in 0..(Len(file) - 1) : LineRead(g[n], g[n + 1], file[n + 1])

\* Groups is what reading all lines gives.
LEMMA GroupsRun ==
    ASSUME NEW file \in Seq(Lines)
    PROVE  \E g : IsRun(g, file) /\ Groups(file) = g[Len(file)].groups
<1> DEFINE L == Len(file)
           g == CHOOSE g : Reads(g, file, L)
<1>1. L \in Nat /\ \A n \in 0..(L - 1) : n + 1 \in 0..L /\ n + 1 # 0 /\ (n + 1) - 1 = n /\ file[n + 1] \in Lines
  OBVIOUS
<1>2. Reads(g, file, L)
  BY <1>1, ReadsExists
<1>3. Groups(file) = g[L].groups
  BY DEF Groups, Reads
<1> HIDE DEF g, L
<1>4. g[0] = Reading(<<>>, FALSE)
  <2>1. 0 \in 0..L
    BY <1>1
  <2> QED BY <1>2, <2>1 DEF Reads
<1>5. \A n \in 0..(L - 1) : g[n + 1] = ReadLine(g[n], file[n + 1])
  BY <1>1, <1>2 DEF Reads
<1> DEFINE S == {n \in Nat : n <= L => IsReading(g[n])}
<1>6. 0 \in S
  <2>1. g[0].groups = <<>> /\ g[0].lastWasAgent = FALSE
    BY <1>4, NothingRead
  <2>2. <<>> \in Seq(GroupObjects) /\ FALSE \in BOOLEAN
    OBVIOUS
  <2>3. IsReading(g[0])
    BY <2>1, <2>2 DEF IsReading
  <2> QED BY <2>3
<1>7. ASSUME NEW n \in Nat, n \in S PROVE n + 1 \in S
  <2> SUFFICES ASSUME n + 1 <= L PROVE IsReading(g[n + 1])
    OBVIOUS
  <2>1. n \in 0..(L - 1) /\ IsReading(g[n])
    BY <1>1, <1>7
  <2>2. LineRead(g[n], g[n + 1], file[n + 1])
    BY <1>1, <1>5, <2>1, ReadLineReads
  <2> QED BY <2>2 DEF LineRead
<1> HIDE DEF S
<1>8. \A n \in Nat : n \in S
  BY <1>6, <1>7, SetInduction
<1>9. \A n \in 0..L : IsReading(g[n])
  BY <1>1, <1>8 DEF S
<1>10. \A n \in 0..(L - 1) : LineRead(g[n], g[n + 1], file[n + 1])
  <2> SUFFICES ASSUME NEW n \in 0..(L - 1) PROVE LineRead(g[n], g[n + 1], file[n + 1])
    OBVIOUS
  <2>1. n \in 0..L
    BY <1>1
  <2> QED BY <1>1, <1>5, <1>9, <2>1, ReadLineReads
<1>11. IsRun(g, file)
  BY <1>4, <1>9, <1>10 DEF IsRun, L
<1> QED BY <1>3, <1>11 DEF L

\* The number of the group that line i is read into.
GroupAt(g, i) == Len(g[i].groups)

\* Line i names an agent and no other record follows up to line n.
Lists(file, i, n) ==
    file[i].key = "user-agent" /\ \A j \in (i + 1)..n : file[j].key \in {"user-agent", "blank"}

\* Line k starts a group in the code's reading.
Opens(file, k) ==
    file[k].key = "user-agent" /\ ~\E i \in 1..(k - 1) : Lists(file, i, k - 1)

\* lastWasAgent says that a list of agents goes on.
LEMMA LastWasAgentMeans ==
    ASSUME NEW file \in Seq(Lines), NEW g, IsRun(g, file)
    PROVE  \A n \in 0..Len(file) : g[n].lastWasAgent <=> \E i \in 1..n : Lists(file, i, n)
<1> DEFINE L == Len(file)
           S == {n \in Nat : n <= L => (g[n].lastWasAgent <=> \E i \in 1..n : Lists(file, i, n))}
<1>1. L \in Nat
  OBVIOUS
<1> HIDE DEF L
<1>2. 0 \in S
  <2>1. g[0].lastWasAgent = FALSE
    BY NothingRead DEF IsRun
  <2>2. \A i : i \notin 1..0
    OBVIOUS
  <2> QED BY <2>1, <2>2
<1>3. ASSUME NEW n \in Nat, n \in S PROVE n + 1 \in S
  <2> SUFFICES ASSUME n + 1 <= L
               PROVE  g[n + 1].lastWasAgent <=> \E i \in 1..(n + 1) : Lists(file, i, n + 1)
    OBVIOUS
  <2> DEFINE key == file[n + 1].key
  <2>1. n \in 0..(Len(file) - 1) /\ n <= L
    BY <1>1 DEF L
  <2>2. g[n + 1].lastWasAgent <=> key = "user-agent" \/ (key = "blank" /\ g[n].lastWasAgent)
    BY <2>1 DEF IsRun, LineRead
  <2>3. g[n].lastWasAgent <=> \E i \in 1..n : Lists(file, i, n)
    BY <1>3, <2>1
  <2>4. \A i \in 1..n : Lists(file, i, n + 1) <=> Lists(file, i, n) /\ key \in {"user-agent", "blank"}
    <3> SUFFICES ASSUME NEW i \in 1..n
                 PROVE  Lists(file, i, n + 1) <=> Lists(file, i, n) /\ key \in {"user-agent", "blank"}
      OBVIOUS
    <3>1. \A j : j \in (i + 1)..(n + 1) <=> j \in (i + 1)..n \/ j = n + 1
      OBVIOUS
    <3> QED BY <3>1 DEF Lists
  <2>5. Lists(file, n + 1, n + 1) <=> key = "user-agent"
    <3>1. \A j : j \notin ((n + 1) + 1)..(n + 1)
      OBVIOUS
    <3> QED BY <3>1 DEF Lists
  <2>6. \A i : i \in 1..(n + 1) <=> i \in 1..n \/ i = n + 1
    OBVIOUS
  <2> HIDE DEF key
  <2> QED BY <2>2, <2>3, <2>4, <2>5, <2>6
<1> HIDE DEF S
<1>4. \A n \in Nat : n \in S
  BY <1>2, <1>3, SetInduction
<1>5. \A n \in 0..L : n \in Nat /\ n <= L
  BY <1>1
<1> QED BY <1>4, <1>5 DEF S, L

\* The number of groups grows by one with every line that starts a group.
LEMMA AtStep ==
    ASSUME NEW file \in Seq(Lines), NEW g, IsRun(g, file)
    PROVE  /\ \A i \in 0..Len(file) : GroupAt(g, i) \in Nat
           /\ \A n \in 0..(Len(file) - 1) :
                 /\ Opens(file, n + 1) => GroupAt(g, n + 1) = GroupAt(g, n) + 1
                 /\ ~Opens(file, n + 1) => GroupAt(g, n + 1) = GroupAt(g, n)
                 /\ file[n + 1].key = "user-agent" /\ ~Opens(file, n + 1) => g[n].lastWasAgent
<1>1. \A i \in 0..Len(file) : GroupAt(g, i) \in Nat
  BY DEF IsRun, IsReading, GroupAt
<1>2. ASSUME NEW n \in 0..(Len(file) - 1)
      PROVE  /\ Opens(file, n + 1) => GroupAt(g, n + 1) = GroupAt(g, n) + 1
             /\ ~Opens(file, n + 1) => GroupAt(g, n + 1) = GroupAt(g, n)
             /\ file[n + 1].key = "user-agent" /\ ~Opens(file, n + 1) => g[n].lastWasAgent
  <2>1. n \in 0..Len(file) /\ (n + 1) - 1 = n
    OBVIOUS
  <2>2. Opens(file, n + 1) <=> file[n + 1].key = "user-agent" /\ ~g[n].lastWasAgent
    <3>1. g[n].lastWasAgent <=> \E i \in 1..n : Lists(file, i, n)
      BY <2>1, LastWasAgentMeans
    <3> QED BY <2>1, <3>1 DEF Opens
  <2>3. GroupAt(g, n + 1) = IF file[n + 1].key = "user-agent" /\ ~g[n].lastWasAgent
                       THEN GroupAt(g, n) + 1 ELSE GroupAt(g, n)
    BY DEF IsRun, LineRead, GroupAt
  <2> QED BY <2>2, <2>3
<1> QED BY <1>1, <1>2

\* Two lines are of one group if no line after the first starts another.
LEMMA SameGroup ==
    ASSUME NEW file \in Seq(Lines), NEW g, IsRun(g, file)
    PROVE  \A n \in 0..Len(file), i \in 0..Len(file) : i <= n =>
              /\ GroupAt(g, i) <= GroupAt(g, n)
              /\ GroupAt(g, i) = GroupAt(g, n) <=> \A k \in (i + 1)..n : ~Opens(file, k)
<1> DEFINE L == Len(file)
           Ordered(n) == \A i \in 0..L : i <= n =>
                            /\ GroupAt(g, i) <= GroupAt(g, n)
                            /\ GroupAt(g, i) = GroupAt(g, n) <=> \A k \in (i + 1)..n : ~Opens(file, k)
           S == {n \in Nat : n <= L => Ordered(n)}
<1>1. L \in Nat
  OBVIOUS
<1>2. /\ \A i \in 0..L : GroupAt(g, i) \in Nat
      /\ \A n \in 0..(L - 1) :
            /\ Opens(file, n + 1) => GroupAt(g, n + 1) = GroupAt(g, n) + 1
            /\ ~Opens(file, n + 1) => GroupAt(g, n + 1) = GroupAt(g, n)
  BY AtStep
<1> HIDE DEF L
<1>3. ASSUME NEW n \in 0..L PROVE GroupAt(g, n) <= GroupAt(g, n) /\ \A k : k \notin (n + 1)..n
  BY <1>1, <1>2
<1>4. 0 \in S
  <2>1. \A i \in 0..L : i <= 0 => i = 0
    BY <1>1
  <2>2. 0 \in 0..L
    BY <1>1
  <2> QED BY <1>3, <2>1, <2>2
<1>5. ASSUME NEW n \in Nat, n \in S PROVE n + 1 \in S
  <2> SUFFICES ASSUME n + 1 <= L PROVE Ordered(n + 1)
    OBVIOUS
  <2>1. n \in 0..(L - 1) /\ n \in 0..L /\ n + 1 \in 0..L /\ Ordered(n)
    BY <1>1, <1>5
  <2> SUFFICES ASSUME NEW i \in 0..L, i <= n + 1
               PROVE  /\ GroupAt(g, i) <= GroupAt(g, n + 1)
                      /\ GroupAt(g, i) = GroupAt(g, n + 1) <=> \A k \in (i + 1)..(n + 1) : ~Opens(file, k)
    OBVIOUS
  <2>2. CASE i = n + 1
    BY <1>3, <2>1, <2>2
  <2>3. CASE i # n + 1
    <3>1. i <= n /\ \A k : k \in (i + 1)..(n + 1) <=> k \in (i + 1)..n \/ k = n + 1
      BY <1>1, <2>3
    <3>2. GroupAt(g, i) <= GroupAt(g, n) /\ (GroupAt(g, i) = GroupAt(g, n) <=> \A k \in (i + 1)..n : ~Opens(file, k))
      BY <2>1, <3>1
    <3> DEFINE x == GroupAt(g, i)
               y == GroupAt(g, n)
               z == GroupAt(g, n + 1)
    <3>3. /\ x \in Nat /\ y \in Nat /\ z \in Nat /\ x <= y
          /\ (Opens(file, n + 1) => z = y + 1) /\ (~Opens(file, n + 1) => z = y)
      BY <1>2, <2>1, <3>2
    <3> HIDE DEF x, y, z
    <3>4. x <= z /\ (x = z <=> x = y /\ ~Opens(file, n + 1))
      BY <3>3
    <3> QED BY <3>1, <3>2, <3>4 DEF x, y, z
  <2> QED BY <2>2, <2>3
<1> HIDE DEF S
<1>6. \A n \in Nat : n \in S
  BY <1>4, <1>5, SetInduction
<1>7. \A n \in 0..L : n \in Nat /\ n <= L
  BY <1>1
<1> QED BY <1>6, <1>7 DEF S, L

\* One of the first n lines, read into group k, names agent x, or gives rule x.
NamedIn(g, file, n, k, x) ==
    \E i \in 1..n : file[i].key = "user-agent" /\ GroupAt(g, i) = k /\ x = file[i].name
RuleIn(g, file, n, k, x) ==
    \E i \in 1..n : IsRule(file[i]) /\ GroupAt(g, i) = k /\ x = RuleOf(file[i])

\* The agents of a group are those its lines name, its rules those its lines
\* give.
GroupsHold(g, file, n) ==
    \A k \in 1..GroupAt(g, n) : \A x :
        /\ x \in g[n].groups[k].agents <=> NamedIn(g, file, n, k, x)
        /\ x \in ToSet(g[n].groups[k].rules) <=> RuleIn(g, file, n, k, x)

\* They do after every line.
LEMMA GroupHolds ==
    ASSUME NEW file \in Seq(Lines), NEW g, IsRun(g, file)
    PROVE  \A n \in 0..Len(file) : GroupsHold(g, file, n)
<1> DEFINE L == Len(file)
           S == {n \in Nat : n <= L => GroupsHold(g, file, n)}
<1>1. L \in Nat
  OBVIOUS
<1>2. \A i \in 0..L : GroupAt(g, i) \in Nat
  BY AtStep
<1> HIDE DEF L
<1>3. 0 \in S
  <2>1. g[0].groups = <<>>
    BY NothingRead DEF IsRun
  <2>2. GroupAt(g, 0) = 0
    BY <2>1 DEF GroupAt
  <2>3. \A k : k \notin 1..0
    OBVIOUS
  <2>4. GroupsHold(g, file, 0)
    BY <2>2, <2>3, Zenon DEF GroupsHold
  <2> QED BY <2>4
<1>4. ASSUME NEW n \in Nat, n \in S PROVE n + 1 \in S
  <2> SUFFICES ASSUME n + 1 <= L PROVE GroupsHold(g, file, n + 1)
    OBVIOUS
  <2>1. n \in 0..(Len(file) - 1) /\ n \in 0..L /\ n + 1 \in 0..L
    BY <1>1 DEF L
  <2>2. GroupsHold(g, file, n)
    BY <1>1, <1>4
  <2>3. LineRead(g[n], g[n + 1], file[n + 1])
    BY <2>1 DEF IsRun
  <2>4. \A i : i \in 1..(n + 1) <=> i \in 1..n \/ i = n + 1
    OBVIOUS
  <2>5. GroupAt(g, n) \in Nat /\ \A i \in 1..n : GroupAt(g, i) \in Nat /\ GroupAt(g, i) <= GroupAt(g, n)
    BY <1>1, <1>2, <2>1, SameGroup DEF L
  <2> SUFFICES ASSUME NEW k \in 1..GroupAt(g, n + 1), NEW x
               PROVE  /\ x \in g[n + 1].groups[k].agents <=> NamedIn(g, file, n + 1, k, x)
                      /\ x \in ToSet(g[n + 1].groups[k].rules) <=> RuleIn(g, file, n + 1, k, x)
    BY DEF GroupsHold
  <2>6. /\ x \in g[n + 1].groups[k].agents <=>
              \/ k <= GroupAt(g, n) /\ x \in g[n].groups[k].agents
              \/ file[n + 1].key = "user-agent" /\ k = GroupAt(g, n + 1) /\ x = file[n + 1].name
        /\ x \in ToSet(g[n + 1].groups[k].rules) <=>
              \/ k <= GroupAt(g, n) /\ x \in ToSet(g[n].groups[k].rules)
              \/ IsRule(file[n + 1]) /\ k = GroupAt(g, n + 1) /\ x = RuleOf(file[n + 1])
    BY <2>3 DEF LineRead, GroupAt
  <2>7. /\ NamedIn(g, file, n + 1, k, x) <=>
              \/ NamedIn(g, file, n, k, x)
              \/ file[n + 1].key = "user-agent" /\ k = GroupAt(g, n + 1) /\ x = file[n + 1].name
        /\ RuleIn(g, file, n + 1, k, x) <=>
              \/ RuleIn(g, file, n, k, x)
              \/ IsRule(file[n + 1]) /\ k = GroupAt(g, n + 1) /\ x = RuleOf(file[n + 1])
    BY <2>4 DEF NamedIn, RuleIn
  <2>8. CASE k <= GroupAt(g, n)
    <3>1. k \in 1..GroupAt(g, n)
      BY <1>2, <2>1, <2>5, <2>8
    <3>2. /\ x \in g[n].groups[k].agents <=> NamedIn(g, file, n, k, x)
          /\ x \in ToSet(g[n].groups[k].rules) <=> RuleIn(g, file, n, k, x)
      BY <2>2, <3>1, Zenon DEF GroupsHold
    <3> QED BY <2>6, <2>7, <2>8, <3>2
  <2>9. CASE ~(k <= GroupAt(g, n))
    <3>1. \A i \in 1..n : GroupAt(g, i) # k
      BY <1>2, <2>1, <2>5, <2>9
    <3>2. ~NamedIn(g, file, n, k, x) /\ ~RuleIn(g, file, n, k, x)
      BY <3>1 DEF NamedIn, RuleIn
    <3> QED BY <2>6, <2>7, <2>9, <3>2
  <2> QED BY <2>8, <2>9
<1> HIDE DEF S
<1>5. \A n \in Nat : n \in S
  BY <1>3, <1>4, SetInduction
<1>6. \A n \in 0..L : n \in Nat /\ n <= L
  BY <1>1
<1> QED BY <1>5, <1>6 DEF S, L

\* The rules of a group stand after all of its agents.
LEMMA AgentsFirst ==
    ASSUME NEW file \in Seq(Lines), NEW g, IsRun(g, file),
           NEW i \in 1..Len(file), file[i].key = "user-agent",
           NEW j \in 1..Len(file), file[j].key \in {"allow", "disallow"},
           GroupAt(g, i) = GroupAt(g, j)
    PROVE  i < j
<1> SUFFICES ASSUME j < i PROVE FALSE
  <2>1. i # j
    OBVIOUS
  <2> QED BY <2>1
<1>1. j \in 0..Len(file) /\ i \in 0..Len(file) /\ j <= i /\ i \in Nat
  OBVIOUS
<1>2. \A k \in (j + 1)..i : ~Opens(file, k)
  BY <1>1, SameGroup
\* The first agent line after the rule starts a group.
<1> DEFINE T == {m \in Nat : j < m /\ m <= i /\ file[m].key = "user-agent"}
<1>3. PICK m \in T : \A l \in T : ~(l < m)
  <2>1. i \in T /\ T \subseteq Nat
    BY <1>1
  <2> HIDE DEF T
  <2> QED BY <2>1, LeastNat
<1>4. m \in (j + 1)..i
  BY <1>3
<1>5. PICK l \in 1..(m - 1) : Lists(file, l, m - 1)
  BY <1>2, <1>3, <1>4 DEF Opens
<1>6. ~(l < j) /\ l # j
  <2>1. l < j => j \in (l + 1)..(m - 1)
    BY <1>4, <1>5
  <2> QED BY <1>5, <2>1 DEF Lists
<1>7. l \in T /\ l < m
  BY <1>4, <1>5, <1>6 DEF Lists
<1> QED BY <1>3, <1>7

\* In a plain file the code and RFC 9309 agree on where a group starts.
LEMMA PlainStarts ==
    ASSUME NEW file \in Seq(Lines), PlainFile(file), NEW k \in 1..Len(file)
    PROVE  Opens(file, k) <=> StartsGroup(file, k)
<1>1. DOMAIN file = 1..Len(file) /\ Len(file) \in Nat
  OBVIOUS
<1>2. ASSUME StartsGroup(file, k), NEW i \in 1..(k - 1), Lists(file, i, k - 1) PROVE FALSE
  <2>1. i \in Agents(file) /\ i < k
    BY <1>1, <1>2 DEF Agents, Lists
  <2>2. PICK j \in (i + 1)..(k - 1) : j \in RuleLines(file)
    BY <1>2, <2>1 DEF StartsGroup
  <2> QED BY <1>2, <2>2 DEF RuleLines, Lists
<1>3. ASSUME Opens(file, k), NEW i \in Agents(file), i < k,
             \A j \in (i + 1)..(k - 1) : j \notin RuleLines(file)
      PROVE  FALSE
  <2>1. k \in Agents(file) /\ i \in 1..(k - 1) /\ file[i].key = "user-agent"
    BY <1>1, <1>3 DEF Agents, Opens
  <2>2. \A j \in (i + 1)..(k - 1) : file[j].key \in {"user-agent", "blank"}
    BY <1>3, <2>1 DEF PlainFile
  <2>3. Lists(file, i, k - 1)
    BY <2>1, <2>2 DEF Lists
  <2> QED BY <1>3, <2>1, <2>3 DEF Opens
<1>4. k \in Agents(file) <=> file[k].key = "user-agent"
  BY <1>1 DEF Agents
<1> QED BY <1>2, <1>3, <1>4 DEF Opens, StartsGroup

\* In a plain file an agent and a rule of one group are what RFC 9309 says.
LEMMA GovernsSameGroup ==
    ASSUME NEW file \in Seq(Lines), PlainFile(file), NEW g, IsRun(g, file),
           NEW i \in Agents(file), NEW j \in RuleLines(file)
    PROVE  Governs(file, i, j) <=> GroupAt(g, i) = GroupAt(g, j)
<1>1. /\ i \in 1..Len(file) /\ file[i].key = "user-agent" /\ j \in 1..Len(file)
      /\ file[j].key \in {"allow", "disallow"} /\ i \in 0..Len(file) /\ j \in 0..Len(file)
      /\ Len(file) \in Nat
  BY DEF Agents, RuleLines
<1>2. \A k \in (i + 1)..j : k \in 1..Len(file)
  BY <1>1
<1>3. i < j => (GroupAt(g, i) = GroupAt(g, j) <=> \A k \in (i + 1)..j : ~StartsGroup(file, k))
  <2> SUFFICES ASSUME i < j
               PROVE  GroupAt(g, i) = GroupAt(g, j) <=> \A k \in (i + 1)..j : ~StartsGroup(file, k)
    OBVIOUS
  <2>1. i <= j
    BY <1>1
  <2>2. GroupAt(g, i) = GroupAt(g, j) <=> \A k \in (i + 1)..j : ~Opens(file, k)
    BY <1>1, <2>1, SameGroup
  <2> QED BY <1>2, <2>2, PlainStarts
<1>4. GroupAt(g, i) = GroupAt(g, j) => i < j
  BY <1>1, AgentsFirst
<1> QED BY <1>3, <1>4 DEF Governs
-----------------------------------------------------------------------------
\* out merges the first n groups.
MergeStep(groups, names, r, n) ==
    IF groups[n].agents \cap names = {} THEN r
    ELSE Rules(r.rules \o groups[n].rules, Max({r.CrawlDelay, groups[n].delay}))
Merges(out, groups, names, n) ==
    out = [i \in 0..n |-> IF i = 0 THEN AllowAll ELSE MergeStep(groups, names, out[i - 1], i)]

\* A function that merges exists, for a prefix of any length.
LEMMA MergesExists ==
    ASSUME NEW groups, NEW names PROVE \A n \in Nat : \E out : Merges(out, groups, names, n)
<1> DEFINE S == {n \in Nat : \E out : Merges(out, groups, names, n)}
<1>1. 0 \in S
  <2> DEFINE g == [i \in 0..0 |-> AllowAll]
  <2>1. \A i \in 0..0 : i = 0
    OBVIOUS
  <2>2. Merges(g, groups, names, 0)
    BY <2>1 DEF Merges
  <2> QED BY <2>2
<1>2. ASSUME NEW n \in Nat, n \in S PROVE n + 1 \in S
  <2>1. PICK g : Merges(g, groups, names, n)
    BY <1>2
  <2> DEFINE h == [i \in 0..(n + 1) |-> IF i = n + 1 THEN MergeStep(groups, names, g[n], n + 1) ELSE g[i]]
  <2>2. ASSUME NEW i \in 0..(n + 1)
        PROVE  h[i] = IF i = 0 THEN AllowAll ELSE MergeStep(groups, names, h[i - 1], i)
    <3>1. CASE i = n + 1
      <4>1. i - 1 = n /\ n \in 0..(n + 1) /\ n # n + 1 /\ i # 0
        BY <3>1
      <4>2. h[n] = g[n]
        BY <4>1
      <4> QED BY <3>1, <4>1, <4>2
    <3>2. CASE i = 0
      <4>1. i # n + 1 /\ i \in 0..n
        BY <3>2
      <4> QED BY <3>2, <4>1, <2>1 DEF Merges
    <3>3. CASE i # 0 /\ i # n + 1
      <4>1. i \in 0..n /\ i - 1 \in 0..n /\ i - 1 \in 0..(n + 1) /\ i - 1 # n + 1
        BY <3>3
      <4>2. h[i] = g[i] /\ h[i - 1] = g[i - 1]
        BY <3>3, <4>1
      <4>3. g[i] = MergeStep(groups, names, g[i - 1], i)
        BY <2>1, <3>3, <4>1 DEF Merges
      <4> QED BY <3>3, <4>2, <4>3
    <3> QED BY <3>1, <3>2, <3>3
  <2>3. Merges(h, groups, names, n + 1)
    BY <2>2 DEF Merges
  <2> QED BY <2>3
<1> HIDE DEF S
<1>3. \A n \in Nat : n \in S
  BY <1>1, <1>2, SetInduction
<1> QED BY <1>3 DEF S

\* What two lists of rules hold when joined.
LEMMA RulesJoined ==
    ASSUME NEW rs \in Seq(RuleObjects), NEW ss \in Seq(RuleObjects)
    PROVE  rs \o ss \in Seq(RuleObjects) /\ ToSet(rs \o ss) = ToSet(rs) \cup ToSet(ss)
<1> DEFINE a == Len(rs)
           b == Len(ss)
<1>1. /\ a \in Nat /\ b \in Nat /\ rs \o ss \in Seq(RuleObjects)
      /\ DOMAIN rs = 1..a /\ DOMAIN ss = 1..b /\ DOMAIN (rs \o ss) = 1..(a + b)
  OBVIOUS
<1>2. \A i \in 1..(a + b) : (rs \o ss)[i] = IF i <= a THEN rs[i] ELSE ss[i - a]
  OBVIOUS
<1> HIDE DEF a, b
<1>3. \A i \in 1..(a + b) : i \in 1..a \/ (~(i <= a) /\ i - a \in 1..b)
  BY <1>1
<1>4. \A i \in 1..a : i <= a /\ i \in 1..(a + b)
  BY <1>1
<1>5. \A i \in 1..b : i + a \in 1..(a + b) /\ ~(i + a <= a) /\ (i + a) - a = i
  BY <1>1
<1>6. ToSet(rs \o ss) \subseteq ToSet(rs) \cup ToSet(ss)
  BY <1>1, <1>2, <1>3 DEF ToSet
<1>7. ASSUME NEW x \in ToSet(rs) PROVE x \in ToSet(rs \o ss)
  <2>1. PICK i \in 1..a : x = rs[i]
    BY <1>1 DEF ToSet
  <2>2. (rs \o ss)[i] = x /\ i \in 1..(a + b)
    BY <1>2, <1>4, <2>1
  <2> QED BY <1>1, <2>2 DEF ToSet
<1>8. ASSUME NEW x \in ToSet(ss) PROVE x \in ToSet(rs \o ss)
  <2>1. PICK i \in 1..b : x = ss[i]
    BY <1>1 DEF ToSet
  <2>2. (rs \o ss)[i + a] = x /\ i + a \in 1..(a + b)
    BY <1>2, <1>5, <2>1
  <2> QED BY <1>1, <2>2 DEF ToSet
<1> QED BY <1>1, <1>6, <1>7, <1>8

\* One of the first n groups lists one of the names and has rule x.
RuleFor(groups, names, n, x) ==
    \E k \in 1..n : groups[k].agents \cap names # {} /\ x \in ToSet(groups[k].rules)

\* The rules of a Rules.
LEMMA RulesField == \A rs, delay : Rules(rs, delay).rules = rs
BY DEF Rules

\* MergedFor has the rules of the groups that list one of the names.
LEMMA MergedHolds ==
    ASSUME NEW groups \in Seq(GroupObjects), NEW names
    PROVE  LET rs == MergedFor(groups, names).rules IN
           /\ rs \in Seq(RuleObjects)
           /\ \A x : x \in ToSet(rs) <=> RuleFor(groups, names, Len(groups), x)
<1> DEFINE L == Len(groups)
           out == CHOOSE out : Merges(out, groups, names, L)
<1>1. L \in Nat /\ \A k \in 1..L : groups[k] \in GroupObjects
  OBVIOUS
<1>2. Merges(out, groups, names, L)
  BY <1>1, MergesExists
<1>3. MergedFor(groups, names) = out[L]
  BY DEF MergedFor, Merges, MergeStep
<1>4. \A k \in 1..L : groups[k].rules \in Seq(RuleObjects)
  BY <1>1 DEF GroupObjects
<1> HIDE DEF out, L
<1> DEFINE Merged(n) == /\ out[n].rules \in Seq(RuleObjects)
                        /\ \A x : x \in ToSet(out[n].rules) <=> RuleFor(groups, names, n, x)
           S == {n \in Nat : n <= L => Merged(n)}
<1>5. 0 \in S
  <2>1. 0 \in 0..L
    BY <1>1
  <2>2. out[0] = AllowAll
    BY <1>2, <2>1 DEF Merges
  <2>3. AllowAll.rules = <<>>
    BY DEF AllowAll, Rules
  <2>4. ToSet(<<>>) = {} /\ <<>> \in Seq(RuleObjects)
    BY DEF ToSet
  <2>5. \A x : ~RuleFor(groups, names, 0, x)
    <3>1. \A k : k \notin 1..0
      OBVIOUS
    <3> QED BY <3>1 DEF RuleFor
  <2>6. Merged(0)
    BY <2>2, <2>3, <2>4, <2>5
  <2> QED BY <2>6
<1>6. ASSUME NEW n \in Nat, n \in S PROVE n + 1 \in S
  <2> SUFFICES ASSUME n + 1 <= L PROVE Merged(n + 1)
    OBVIOUS
  <2>1. n + 1 \in 0..L /\ n + 1 \in 1..L /\ n + 1 # 0 /\ (n + 1) - 1 = n /\ Merged(n)
    BY <1>1, <1>6
  <2>2. out[n + 1] = MergeStep(groups, names, out[n], n + 1)
    BY <1>2, <2>1 DEF Merges
  <2>3. \A x : RuleFor(groups, names, n + 1, x) <=>
                 \/ RuleFor(groups, names, n, x)
                 \/ groups[n + 1].agents \cap names # {} /\ x \in ToSet(groups[n + 1].rules)
    <3>1. \A i : i \in 1..(n + 1) <=> i \in 1..n \/ i = n + 1
      OBVIOUS
    <3> QED BY <3>1 DEF RuleFor
  <2>4. CASE groups[n + 1].agents \cap names = {}
    <3>1. out[n + 1] = out[n]
      BY <2>2, <2>4 DEF MergeStep
    <3> QED BY <2>1, <2>3, <2>4, <3>1
  <2>5. CASE groups[n + 1].agents \cap names # {}
    <3>1. out[n + 1].rules = out[n].rules \o groups[n + 1].rules
      <4>1. out[n + 1] = Rules(out[n].rules \o groups[n + 1].rules,
                               Max({out[n].CrawlDelay, groups[n + 1].delay}))
        BY <2>2, <2>5 DEF MergeStep
      <4> QED BY <4>1, RulesField, Zenon
    <3>2. /\ out[n + 1].rules \in Seq(RuleObjects)
          /\ ToSet(out[n + 1].rules) = ToSet(out[n].rules) \cup ToSet(groups[n + 1].rules)
      BY <1>4, <2>1, <3>1, RulesJoined
    <3> QED BY <2>1, <2>3, <2>5, <3>2
  <2> QED BY <2>4, <2>5
<1> HIDE DEF S
<1>7. L \in S
  BY <1>1, <1>5, <1>6, SetInduction
<1>8. Merged(L)
  BY <1>1, <1>7 DEF S
<1> QED BY <1>3, <1>8 DEF L

\* A list of rules allows a page unless a matching Disallow in it is longer
\* than every matching Allow.
LEMMA AllowedByRules ==
    ASSUME NEW r, r.rules \in Seq(RuleObjects), NEW p
    PROVE  LET M == {ru \in ToSet(r.rules) : p \in ru.matches} IN
           Allowed(r, p) <=> \A d \in M : ~d.allow => \E a \in M : a.allow /\ a.length >= d.length
<1> DEFINE rs == r.rules
           I == {i \in 1..Len(rs) : p \in rs[i].matches}
           M == {ru \in ToSet(rs) : p \in ru.matches}
<1>1. Allowed(r, p) <=>
        \A d \in I : ~rs[d].allow => \E a \in I : rs[a].allow /\ rs[a].length >= rs[d].length
  BY AllowedMeans
<1>2. DOMAIN rs = 1..Len(rs)
  OBVIOUS
<1>3. \A ru : ru \in M <=> \E i \in I : ru = rs[i]
  BY <1>2 DEF ToSet
<1> HIDE DEF rs, I, M
<1>4. Allowed(r, p) <=> \A d \in M : ~d.allow => \E a \in M : a.allow /\ a.length >= d.length
  BY <1>1, <1>3
<1> QED BY <1>4 DEF M, rs

(***************************************************************************)
(* What Parse and Allowed make of a plain file is what RFC 9309 says of it *)
(* (robots.go:49-146).                                                     *)
(***************************************************************************)
THEOREM PlainFilesParsed ==
    ASSUME NEW file \in Seq(Lines), PlainFile(file), NEW p
    PROVE  Allowed(Parse(file), p) <=> RFCAllows(file, p)
<1>1. DOMAIN file = 1..Len(file) /\ Len(file) \in Nat /\ Len(file) \in 0..Len(file)
      /\ \A i \in 1..Len(file) : file[i] \in Lines
  OBVIOUS
<1>2. PICK g : IsRun(g, file) /\ Groups(file) = g[Len(file)].groups
  BY GroupsRun
<1> DEFINE L == Len(file)
           groups == Groups(file)
           K == Len(groups)
           matched == \E n \in 1..Len(groups) : groups[n].agents \cap Ours # {}
           names == IF matched THEN Ours ELSE {"*"}
<1>3. groups \in Seq(GroupObjects) /\ K = GroupAt(g, L)
  BY <1>1, <1>2 DEF IsRun, IsReading, GroupAt
<1>4. \A k \in 1..K : \A x : /\ x \in groups[k].agents <=> NamedIn(g, file, L, k, x)
                             /\ x \in ToSet(groups[k].rules) <=> RuleIn(g, file, L, k, x)
  <2>1. GroupsHold(g, file, L)
    BY <1>1, <1>2, GroupHolds
  <2> QED BY <1>2, <1>3, <2>1, Zenon DEF GroupsHold
<1>5. \A i \in 0..L : GroupAt(g, i) \in Nat /\ GroupAt(g, i) <= GroupAt(g, L)
  BY <1>1, <1>2, AtStep, SameGroup
<1>6. Parse(file) = MergedFor(groups, names)
  BY DEF Parse
<1> DEFINE rs == Parse(file).rules
<1>7. rs \in Seq(RuleObjects) /\ \A x : x \in ToSet(rs) <=> RuleFor(groups, names, K, x)
  BY <1>3, <1>6, MergedHolds
<1> HIDE DEF L, groups, K, rs, names, matched
\* The group of an agent line is there, with its name.
<1>8. ASSUME NEW i \in Agents(file)
      PROVE  GroupAt(g, i) \in 1..K /\ file[i].name \in groups[GroupAt(g, i)].agents
  <2>1. i \in 1..L /\ i \in 0..L /\ file[i].key = "user-agent"
    BY <1>1 DEF Agents, L
  <2>2. GroupAt(g, i) > 0
    <3>1. i - 1 \in 0..(Len(file) - 1) /\ (i - 1) + 1 = i
      BY <1>1, <2>1 DEF L
    <3>2. LineRead(g[i - 1], g[i], file[i])
      BY <1>2, <3>1 DEF IsRun
    <3>3. g[i].groups \in Seq(GroupObjects) /\ g[i].groups # <<>>
      BY <2>1, <3>2 DEF LineRead, IsReading
    <3> QED BY <3>3 DEF GroupAt
  <2>3. GroupAt(g, i) \in 1..K
    BY <1>1, <1>3, <1>5, <2>1, <2>2
  <2>4. NamedIn(g, file, L, GroupAt(g, i), file[i].name)
    BY <2>1 DEF NamedIn
  <2> QED BY <1>4, <2>3, <2>4
<1>9. \A i \in Agents(file) : file[i].name \in names <=> i \in ForUs(file)
  <2>1. matched <=> \E i \in Agents(file) : file[i].name \in Ours
    <3>1. ASSUME NEW i \in Agents(file), file[i].name \in Ours PROVE matched
      BY <1>8, <3>1 DEF matched, K
    <3>2. ASSUME matched PROVE \E i \in Agents(file) : file[i].name \in Ours
      <4>1. PICK k \in 1..K : groups[k].agents \cap Ours # {}
        BY <3>2 DEF matched, K
      <4>2. PICK x : x \in Ours /\ x \in groups[k].agents
        BY <4>1
      <4>3. NamedIn(g, file, L, k, x)
        BY <1>4, <4>2
      <4>4. PICK i \in 1..L : file[i].key = "user-agent" /\ x = file[i].name
        BY <4>3 DEF NamedIn
      <4> QED BY <1>1, <4>2, <4>4 DEF Agents, L
    <3> QED BY <3>1, <3>2
  <2>2. \A i \in Agents(file) : file[i].name \in Ours <=> file[i].name = Token
    BY TokenAssumption DEF PlainFile
  <2> QED BY <2>1, <2>2 DEF ForUs, names
<1>10. \A x : x \in ToSet(rs) <=>
          \E j \in RuleLines(file) : /\ IsRule(file[j]) /\ x = RuleOf(file[j])
                                     /\ \E i \in ForUs(file) : Governs(file, i, j)
  <2> SUFFICES ASSUME NEW x
               PROVE  x \in ToSet(rs) <=>
                        \E j \in RuleLines(file) : /\ IsRule(file[j]) /\ x = RuleOf(file[j])
                                                   /\ \E i \in ForUs(file) : Governs(file, i, j)
    OBVIOUS
  <2>1. ASSUME NEW j \in RuleLines(file), IsRule(file[j]), x = RuleOf(file[j]),
               NEW i \in ForUs(file), Governs(file, i, j)
        PROVE  x \in ToSet(rs)
    <3>1. i \in Agents(file) /\ file[i].name \in names
      <4>1. i \in Agents(file)
        BY DEF ForUs
      <4> QED BY <1>9, <4>1
    <3>2. GroupAt(g, i) = GroupAt(g, j)
      BY <1>2, <2>1, <3>1, GovernsSameGroup
    <3>3. GroupAt(g, i) \in 1..K /\ groups[GroupAt(g, i)].agents \cap names # {}
      BY <1>8, <3>1
    <3>4. j \in 1..L
      BY <1>1 DEF RuleLines, L
    <3>5. RuleIn(g, file, L, GroupAt(g, i), x)
      BY <2>1, <3>2, <3>4 DEF RuleIn
    <3>6. RuleFor(groups, names, K, x)
      BY <1>4, <3>3, <3>5 DEF RuleFor
    <3> QED BY <1>7, <3>6
  <2>2. ASSUME x \in ToSet(rs)
        PROVE  \E j \in RuleLines(file) : /\ IsRule(file[j]) /\ x = RuleOf(file[j])
                                          /\ \E i \in ForUs(file) : Governs(file, i, j)
    <3>1. PICK k \in 1..K : groups[k].agents \cap names # {} /\ x \in ToSet(groups[k].rules)
      BY <1>7, <2>2 DEF RuleFor
    <3>2. PICK y : y \in names /\ y \in groups[k].agents
      BY <3>1
    <3>3. NamedIn(g, file, L, k, y) /\ RuleIn(g, file, L, k, x)
      BY <1>4, <3>1, <3>2
    <3>4. PICK i \in 1..L : file[i].key = "user-agent" /\ GroupAt(g, i) = k /\ y = file[i].name
      BY <3>3 DEF NamedIn
    <3>5. PICK j \in 1..L : IsRule(file[j]) /\ GroupAt(g, j) = k /\ x = RuleOf(file[j])
      BY <3>3 DEF RuleIn
    <3>6. i \in Agents(file) /\ j \in RuleLines(file)
      BY <1>1, <3>4, <3>5 DEF Agents, RuleLines, IsRule, L
    <3>7. Governs(file, i, j)
      BY <1>2, <3>4, <3>5, <3>6, GovernsSameGroup
    <3> QED BY <1>9, <3>2, <3>4, <3>5, <3>6, <3>7
  <2> QED BY <2>1, <2>2
<1> DEFINE M == {ru \in ToSet(rs) : p \in ru.matches}
<1>11. Allowed(Parse(file), p) <=>
         \A d \in M : ~d.allow => \E a \in M : a.allow /\ a.length >= d.length
  BY <1>7, AllowedByRules DEF rs
<1>12. \A j \in RuleLines(file) : IsRule(file[j]) =>
          /\ RuleOf(file[j]).length = file[j].length /\ RuleOf(file[j]).matches = file[j].matches
          /\ RuleOf(file[j]).allow <=> file[j].key = "allow"
  BY <1>1, LineTypes DEF RuleLines
<1>13. \A x : x \in M /\ ~x.allow <=>
          \E j \in Matching(file, "disallow", p) : x = RuleOf(file[j])
  BY <1>10, <1>12 DEF Matching, RuleLines, IsRule
<1>14. \A x : x \in M /\ x.allow <=>
          \E j \in Matching(file, "allow", p) : x = RuleOf(file[j])
  BY <1>10, <1>12 DEF Matching, RuleLines, IsRule
<1>15. \A j : j \in Matching(file, "allow", p) \/ j \in Matching(file, "disallow", p) =>
          RuleOf(file[j]).length = file[j].length
  BY <1>12 DEF Matching, RuleLines, IsRule
<1> HIDE DEF M
<1> QED BY <1>11, <1>13, <1>14, <1>15 DEF RFCAllows
-----------------------------------------------------------------------------
\* What stands for a file that could not be read forbids every page.
LEMMA DisallowAllForbids == \A p \in Pages : ~Allowed(DisallowAll, p)
<1> SUFFICES ASSUME NEW p \in Pages PROVE ~Allowed(DisallowAll, p)
  OBVIOUS
<1> DEFINE rs == DisallowAll.rules
<1>1. rs = <<newRule(FALSE, 1, Pages)>>
  BY DEF DisallowAll, Rules
<1>2. newRule(FALSE, 1, Pages) \in RuleObjects
  BY DEF newRule, RuleObjects
<1>3. rs \in Seq(RuleObjects) /\ Len(rs) = 1 /\ rs[1] = newRule(FALSE, 1, Pages)
  <2> DEFINE d == newRule(FALSE, 1, Pages)
  <2>1. d \in RuleObjects /\ rs = <<d>>
    BY <1>1, <1>2
  <2> HIDE DEF d, rs
  <2>2. rs \in Seq(RuleObjects) /\ Len(rs) = 1 /\ rs[1] = d
    BY <2>1
  <2> QED BY <2>2 DEF d
<1>4. p \in rs[1].matches /\ rs[1].allow = FALSE
  BY <1>3 DEF newRule
<1> DEFINE M == {i \in 1..Len(rs) : p \in rs[i].matches}
<1>5. Allowed(DisallowAll, p) <=>
        \A d \in M : ~rs[d].allow => \E a \in M : rs[a].allow /\ rs[a].length >= rs[d].length
  BY <1>3, AllowedMeans
<1> HIDE DEF rs
<1>6. 1 \in M /\ \A a \in M : a = 1
  <2>1. Len(rs) = 1 /\ \A i : i \in 1..1 <=> i = 1
    BY <1>3
  <2> QED BY <1>4, <2>1
<1> HIDE DEF M
<1> QED BY <1>4, <1>5, <1>6

(***************************************************************************)
(* RobotsObeyed: what visits share of the one answer they wait for is      *)
(* enough to keep every page asked for to what RFC 9309 says of a plain    *)
(* file, and an answer that could not be read forbids them all             *)
(* (crawler.go:175-185, robots.go:49-146, 195-222).                        *)
(***************************************************************************)
THEOREM NoForbiddenRequest == Spec => []RobotsObeyed
<1>1. ASSUME CrawlInv PROVE RobotsObeyed
  <2> SUFFICES ASSUME target.respectRobots, NEW w \in Workers,
                      pc[w] \in {"gate", "request", "fetch"}
               PROVE  /\ robots = "ready" /\ ~answer.err
                      /\ \/ /\ answer.status \in 200..299
                            /\ PlainFile(target.file) => RFCAllows(target.file, page[w])
                         \/ answer.status = 404
    BY DEF RobotsObeyed
  <2>1. /\ robots = "ready" /\ answer \in RobotsGetter
        /\ rules = RulesFor(answer, target.file) /\ Allowed(rules, page[w])
    BY <1>1 DEF CrawlInv, RulesKept
  <2>2. page[w] \in Pages /\ target.file \in Files
    <3>1. page \in [Workers -> Pages]
      BY <1>1 DEF CrawlInv, CrawlTypeOK
    <3>2. target.file \in Files
      BY <1>1 DEF CrawlInv, Shapes
    <3> QED BY <3>1, <3>2
  <2>3. rules # DisallowAll
    BY <2>1, <2>2, DisallowAllForbids
  <2>4. ~answer.err
    BY <2>1, <2>3 DEF RulesFor
  <2>5. answer.status \in {200, 304, 404, 429, 503}
    <3>1. CASE answer = [err |-> TRUE, status |-> 0]
      BY <2>4, <3>1
    <3>2. CASE answer \in [err : {FALSE}, status : {200, 304, 404, 429, 503}]
      BY <3>2
    <3> QED BY <2>1, <3>1, <3>2 DEF RobotsGetter
  <2>6. answer.status \in {200, 404}
    BY <2>1, <2>3, <2>4, <2>5 DEF RulesFor
  <2>7. CASE answer.status = 200
    <3>1. rules = Parse(target.file)
      BY <2>1, <2>4, <2>7 DEF RulesFor
    <3>2. PlainFile(target.file) => RFCAllows(target.file, page[w])
      BY <2>1, <2>2, <3>1, PlainFilesParsed, CrawlAssumption
    <3> QED BY <2>1, <2>4, <2>7, <3>2
  <2> QED BY <2>1, <2>4, <2>6, <2>7
<1> QED BY <1>1, CrawlInvariant, PTL
=============================================================================
