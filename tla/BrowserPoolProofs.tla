------------------------- MODULE BrowserPoolProofs -------------------------
(***************************************************************************)
(* Proofs about BrowserPool, for any number of fetches, sessions, profiles *)
(* and launches and every pool size.                                       *)
(***************************************************************************)
EXTENDS BrowserPool, FiniteSetTheorems, WellFoundedInduction, TLAPS

-----------------------------------------------------------------------------
(***************************************************************************)
(* Induction over the naturals, stated with a set instead of a predicate.  *)
(***************************************************************************)
\* A non-empty set of naturals has a least element.
LEMMA LeastNat ==
    ASSUME NEW T, T \subseteq Nat, T # {}
    PROVE  \E n \in T : \A m \in T : ~(m < n)
<1> DEFINE R == OpToRel(<, Nat)
<1>1. IsWellFoundedOn(R, Nat)
  BY NatLessThanWellFounded, Zenon
<1>2. \A x, y \in Nat : x < y => <<x, y>> \in R
  BY DEF OpToRel
<1> HIDE DEF R
<1>3. \E x \in T : \A y \in T : ~(<<y, x>> \in R)
  BY <1>1, WFMin, Zenon
<1> QED BY <1>2, <1>3

\* A set with 0 and with every successor has all naturals.
LEMMA SetInduction ==
    ASSUME NEW S, 0 \in S, \A n \in Nat : n \in S => n + 1 \in S
    PROVE  \A n \in Nat : n \in S
<1> SUFFICES ASSUME {n \in Nat : n \notin S} # {} PROVE FALSE
  OBVIOUS
<1>1. PICK n \in {n \in Nat : n \notin S} : \A m \in {m \in Nat : m \notin S} : ~(m < n)
  BY LeastNat
<1>2. n # 0 /\ n - 1 \in Nat /\ n - 1 < n /\ (n - 1) + 1 = n
  BY <1>1
<1> QED BY <1>1, <1>2

-----------------------------------------------------------------------------
\* One entry of a list filtered by ss.
Filtered(list, ss, kept, n) == IF list[n] \in ss THEN Append(kept, list[n]) ELSE kept

\* g filters the first n entries of the list.
Filters(g, list, ss, n) ==
    g = [i \in 0..n |-> IF i = 0 THEN <<>> ELSE Filtered(list, ss, g[i - 1], i)]

\* A function that filters exists, for a prefix of any length.
LEMMA FilterExists ==
    ASSUME NEW list, NEW ss
    PROVE  \A n \in Nat : \E g : Filters(g, list, ss, n)
<1> DEFINE S == {n \in Nat : \E g : Filters(g, list, ss, n)}
<1>1. 0 \in S
  <2> DEFINE g == [i \in 0..0 |-> <<>>]
  <2>1. \A i \in 0..0 : i = 0
    OBVIOUS
  <2>2. Filters(g, list, ss, 0)
    BY <2>1 DEF Filters
  <2> QED BY <2>2
<1>2. ASSUME NEW n \in Nat, n \in S PROVE n + 1 \in S
  <2>1. PICK g : Filters(g, list, ss, n)
    BY <1>2
  <2> DEFINE h == [i \in 0..(n + 1) |-> IF i = n + 1 THEN Filtered(list, ss, g[n], n + 1) ELSE g[i]]
  <2>2. ASSUME NEW i \in 0..(n + 1)
        PROVE  h[i] = IF i = 0 THEN <<>> ELSE Filtered(list, ss, h[i - 1], i)
    <3>1. CASE i = n + 1
      <4>1. i - 1 = n /\ n \in 0..(n + 1) /\ n # n + 1 /\ i # 0
        BY <3>1
      <4>2. h[n] = g[n]
        BY <4>1
      <4> QED BY <3>1, <4>1, <4>2
    <3>2. CASE i = 0
      <4>1. i # n + 1 /\ i \in 0..n
        BY <3>2
      <4> QED BY <3>2, <4>1, <2>1 DEF Filters
    <3>3. CASE i # 0 /\ i # n + 1
      <4>1. i \in 0..n /\ i - 1 \in 0..n /\ i - 1 \in 0..(n + 1) /\ i - 1 # n + 1
        BY <3>3
      <4>2. h[i] = g[i] /\ h[i - 1] = g[i - 1]
        BY <3>3, <4>1
      <4>3. g[i] = Filtered(list, ss, g[i - 1], i)
        BY <2>1, <3>3, <4>1 DEF Filters
      <4> QED BY <3>3, <4>2, <4>3
    <3> QED BY <3>1, <3>2, <3>3
  <2>3. Filters(h, list, ss, n + 1)
    BY <2>2 DEF Filters
  <2> QED BY <2>3
<1> HIDE DEF S
<1>3. \A n \in Nat : n \in S
  BY <1>1, <1>2, SetInduction
<1> QED BY <1>3 DEF S

\* Kept is what filtering the whole list gives.
LEMMA KeptFilters ==
    ASSUME NEW list, Len(list) \in Nat, NEW ss
    PROVE  \E g : Filters(g, list, ss, Len(list)) /\ Kept(list, ss) = g[Len(list)]
<1> DEFINE g == CHOOSE g : Filters(g, list, ss, Len(list))
<1>1. Filters(g, list, ss, Len(list))
  BY FilterExists
<1>2. Kept(list, ss) = g[Len(list)]
  BY DEF Kept, Filters, Filtered
<1> QED BY <1>1, <1>2

\* No entry is listed twice.
NoDup(list) == \A i, j \in 1..Len(list) : list[i] = list[j] => i = j

\* What a list holds after an entry was appended.
LEMMA AppendFacts ==
    ASSUME NEW X, NEW list \in Seq(X), NEW e \in X
    PROVE  /\ Append(list, e) \in Seq(X)
           /\ Range(Append(list, e)) = Range(list) \cup {e}
           /\ NoDup(list) /\ e \notin Range(list) => NoDup(Append(list, e))
<1>1. /\ Append(list, e) \in Seq(X) /\ Len(Append(list, e)) = Len(list) + 1
      /\ Len(list) \in Nat /\ DOMAIN list = 1..Len(list)
      /\ DOMAIN Append(list, e) = 1..(Len(list) + 1)
  OBVIOUS
<1>2. \A i \in 1..Len(list) : Append(list, e)[i] = list[i]
  OBVIOUS
<1>3. Append(list, e)[Len(list) + 1] = e
  OBVIOUS
<1>4. \A i : i \in 1..(Len(list) + 1) <=> i \in 1..Len(list) \/ i = Len(list) + 1
  BY <1>1
<1>5. Range(Append(list, e)) = Range(list) \cup {e}
  BY <1>1, <1>2, <1>3, <1>4 DEF Range
<1>6. ASSUME NoDup(list), e \notin Range(list) PROVE NoDup(Append(list, e))
  <2>1. \A i \in 1..Len(list) : list[i] # e
    BY <1>1, <1>6 DEF Range
  <2> QED BY <1>1, <1>2, <1>3, <1>4, <1>6, <2>1 DEF NoDup
<1> QED BY <1>1, <1>5, <1>6

\* Kept keeps exactly the entries in ss, each once (playwright.go:350-363).
LEMMA KeptFacts ==
    ASSUME NEW X, NEW list \in Seq(X), NEW ss
    PROVE  /\ Kept(list, ss) \in Seq(X)
           /\ Range(Kept(list, ss)) = Range(list) \cap ss
           /\ NoDup(list) => NoDup(Kept(list, ss))
<1>1. Len(list) \in Nat /\ DOMAIN list = 1..Len(list) /\ \A i \in 1..Len(list) : list[i] \in X
  OBVIOUS
<1>2. PICK g : Filters(g, list, ss, Len(list)) /\ Kept(list, ss) = g[Len(list)]
  BY <1>1, KeptFilters
<1> DEFINE Prefix(n) == {list[i] : i \in 1..n}
           Good(n) == /\ g[n] \in Seq(X) /\ Range(g[n]) = Prefix(n) \cap ss
                      /\ NoDup(list) => NoDup(g[n])
           S == {n \in Nat : n <= Len(list) => Good(n)}
<1>3. 0 \in S
  <2>1. g[0] = <<>>
    <3>1. 0 \in 0..Len(list)
      BY <1>1
    <3> QED BY <1>2, <3>1 DEF Filters
  <2>2. 1..0 = {}
    OBVIOUS
  <2>3. Range(<<>>) = {} /\ Prefix(0) = {} /\ NoDup(<<>>)
    BY <2>2 DEF Range, NoDup
  <2>4. <<>> \in Seq(X)
    OBVIOUS
  <2> HIDE DEF Prefix
  <2>5. Good(0)
    BY <2>1, <2>3, <2>4, Zenon
  <2> QED BY <2>5
<1>4. ASSUME NEW n \in Nat, n \in S PROVE n + 1 \in S
  <2> SUFFICES ASSUME n + 1 <= Len(list) PROVE Good(n + 1)
    OBVIOUS
  <2>1. Good(n)
    BY <1>1, <1>4
  <2>2. g[n + 1] = Filtered(list, ss, g[n], n + 1)
    <3>1. n + 1 \in 0..Len(list) /\ n + 1 # 0 /\ (n + 1) - 1 = n
      BY <1>1
    <3> QED BY <1>2, <3>1 DEF Filters
  <2>3. n + 1 \in 1..Len(list) /\ list[n + 1] \in X
    BY <1>1
  <2>4. Prefix(n + 1) = Prefix(n) \cup {list[n + 1]}
    <3>1. 1..(n + 1) = 1..n \cup {n + 1}
      OBVIOUS
    <3> QED BY <3>1
  <2>5. NoDup(list) => list[n + 1] \notin Prefix(n)
    BY <1>1, <2>3 DEF NoDup
  <2> HIDE DEF Prefix
  <2>6. CASE list[n + 1] \in ss
    <3>1. g[n + 1] = Append(g[n], list[n + 1])
      BY <2>2, <2>6 DEF Filtered
    <3>2. Range(g[n + 1]) = Range(g[n]) \cup {list[n + 1]}
      BY <2>1, <2>3, <3>1, AppendFacts
    <3>3. NoDup(list) => list[n + 1] \notin Range(g[n])
      BY <2>1, <2>5
    <3>4. g[n + 1] \in Seq(X) /\ (NoDup(list) => NoDup(g[n + 1]))
      BY <2>1, <2>3, <3>1, <3>3, AppendFacts
    <3> QED BY <2>1, <2>4, <2>6, <3>2, <3>4
  <2>7. CASE list[n + 1] \notin ss
    <3>1. g[n + 1] = g[n]
      BY <2>2, <2>7 DEF Filtered
    <3> QED BY <2>1, <2>4, <2>7, <3>1
  <2> QED BY <2>6, <2>7
<1> HIDE DEF S
<1>5. Len(list) \in S
  BY <1>1, <1>3, <1>4, SetInduction
<1>6. Good(Len(list))
  BY <1>1, <1>5 DEF S
<1>7. Prefix(Len(list)) = Range(list)
  BY <1>1 DEF Range
<1> QED BY <1>2, <1>6, <1>7

\* A list without duplicates is as long as the set of its entries.
LEMMA NoDupLength ==
    ASSUME NEW X, NEW list \in Seq(X), NoDup(list)
    PROVE  IsFiniteSet(Range(list)) /\ Cardinality(Range(list)) = Len(list)
<1>1. Len(list) \in Nat /\ DOMAIN list = 1..Len(list)
  OBVIOUS
<1>2. list \in Bijection(1..Len(list), Range(list))
  BY <1>1 DEF NoDup, Bijection, Injection, Surjection, IsInjective, Range
<1>3. IsFiniteSet(1..Len(list)) /\ Cardinality(1..Len(list)) = Len(list)
  <2>1. 1 \in Int /\ Len(list) \in Int
    BY <1>1
  <2>2. IsFiniteSet(1..Len(list))
        /\ Cardinality(1..Len(list)) = IF 1 > Len(list) THEN 0 ELSE Len(list) - 1 + 1
    BY <2>1, FS_Interval, Zenon
  <2> QED BY <1>1, <2>2
<1>4. ExistsBijection(1..Len(list), Range(list))
  BY <1>2, Zenon DEF ExistsBijection
<1> QED BY <1>3, <1>4, FS_Bijection

-----------------------------------------------------------------------------
(***************************************************************************)
(* The inductive invariant.                                                *)
(***************************************************************************)
\* At most one browser runs, the current one.  It is down after Close, and
\* may be relaunched as long as the bound on launches allows.  A session is
\* up only on a browser that runs.
BrowserRuns ==
    /\ alive \subseteq {browser}
    /\ browser \notin alive /\ closer # "done" => browser < MaxLaunches
    /\ closer = "done" => alive = {}
    /\ \A s \in Sessions : sess[s].up => sess[s].browser \in alive

\* While a fetch launches with f.mu held, no browser runs, no session is
\* idle and Close has not stopped anything.
Launching ==
    /\ mu # None => browser \notin alive /\ idle = <<>> /\ closer # "done"
    /\ \A f \in Fetches : pc[f] = "launch" <=> mu = f

\* How far Close has come with the idle sessions.
Closing ==
    /\ closed <=> closer # "none"
    /\ closer \in {"none", "take"} => doomed = {}
    /\ closer \notin {"none", "take"} => idle = <<>>

\* OneOwner, with the browser of idle sessions.
Owned ==
    /\ \A f, g \in Fetches : f # g /\ cur[f] # None => cur[f] # cur[g]
    /\ \A f \in Fetches : cur[f] \notin Range(idle) /\ cur[f] \notin doomed
    /\ \A f, g \in Fetches : cur[f] \notin discard[g]
    /\ \A f \in Fetches : \A s \in discard[f] : s \notin Range(idle) /\ s \notin doomed
    /\ NoDup(idle)
    /\ \A s \in Range(idle) : sess[s].browser = browser

\* A fetch that renders has a session.
Rendering == \A f \in Fetches : pc[f] \in {"render", "healthy", "failed"} => cur[f] # None

Counts == CountsExact /\ Cardinality(Holders) <= slots

PoolInv ==
    /\ BrowserTypeOK /\ BrowserRuns /\ Launching /\ Closing /\ Owned /\ Rendering /\ Counts
-----------------------------------------------------------------------------
\* The fetches at one of the places in Q.
At(Q) == {f \in Fetches : pc[f] \in Q}

Has == {"clean", "new", "render", "healthy", "failed"}
Past == FetchLocations \ {"out", "wait"}

\* Sets of fetches can be counted.
LEMMA FetchesCounted ==
    ASSUME NEW F, F \subseteq Fetches PROVE IsFiniteSet(F) /\ Cardinality(F) \in Nat
<1>1. IsFiniteSet(F)
  BY BrowserAssumption, FS_Subset
<1> QED BY <1>1, FS_CardinalityType

\* How many fetches are at Q after one of them moved.
LEMMA MoveCounts ==
    ASSUME pc \in [Fetches -> FetchLocations], NEW f \in Fetches, NEW l,
           pc' = [pc EXCEPT ![f] = l], NEW Q
    PROVE  /\ (pc[f] \in Q) /\ (l \in Q) => Cardinality(At(Q)') = Cardinality(At(Q))
           /\ (pc[f] \notin Q) /\ (l \notin Q) => Cardinality(At(Q)') = Cardinality(At(Q))
           /\ (pc[f] \notin Q) /\ (l \in Q) => Cardinality(At(Q)') = Cardinality(At(Q)) + 1
           /\ (pc[f] \in Q) /\ (l \notin Q) => Cardinality(At(Q)') = Cardinality(At(Q)) - 1
<1>1. \A g \in Fetches : pc'[g] = IF g = f THEN l ELSE pc[g]
  OBVIOUS
<1>2. IsFiniteSet(At(Q))
  BY FetchesCounted DEF At
<1>3. CASE (pc[f] \in Q) <=> (l \in Q)
  <2>1. At(Q)' = At(Q)
    BY <1>1, <1>3 DEF At
  <2> QED BY <1>3, <2>1
<1>4. CASE pc[f] \notin Q /\ l \in Q
  <2>1. At(Q)' = At(Q) \cup {f} /\ f \notin At(Q)
    BY <1>1, <1>4 DEF At
  <2>2. Cardinality(At(Q)') = Cardinality(At(Q)) + 1
    BY <1>2, <2>1, FS_AddElement
  <2> QED BY <1>4, <2>2
<1>5. CASE pc[f] \in Q /\ l \notin Q
  <2>1. At(Q)' = At(Q) \ {f} /\ f \in At(Q)
    BY <1>1, <1>5 DEF At
  <2>2. Cardinality(At(Q)') = Cardinality(At(Q)) - 1
    BY <1>2, <2>1, FS_RemoveElement
  <2> QED BY <1>5, <2>2
<1> QED BY <1>3, <1>4, <1>5

\* The places where a fetch holds a slot and where it counts in open.
LEMMA PlacesCounted ==
    ASSUME pc \in [Fetches -> FetchLocations]
    PROVE  Holders = At(Past) /\ HasSession = At(Has)
  BY DEF Holders, HasSession, At, Past, Has

\* The effect of one fetch's move on slots taken.
LEMMA HoldersMove ==
    ASSUME pc \in [Fetches -> FetchLocations], NEW f \in Fetches, NEW l \in FetchLocations,
           pc' = [pc EXCEPT ![f] = l]
    PROVE  /\ pc[f] \in Past /\ l \in Past => Cardinality(Holders') = Cardinality(Holders)
           /\ pc[f] \notin Past /\ l \notin Past => Cardinality(Holders') = Cardinality(Holders)
           /\ pc[f] \notin Past /\ l \in Past => Cardinality(Holders') = Cardinality(Holders) + 1
           /\ pc[f] \in Past /\ l \notin Past => Cardinality(Holders') = Cardinality(Holders) - 1
<1>1. pc' \in [Fetches -> FetchLocations]
  OBVIOUS
<1>2. Holders = At(Past) /\ Holders' = At(Past)'
  BY <1>1, PlacesCounted DEF Holders, At, Past
<1> QED BY <1>2, MoveCounts

\* The effect of one fetch's move on the sessions in use.
LEMMA SessionsMove ==
    ASSUME pc \in [Fetches -> FetchLocations], NEW f \in Fetches, NEW l \in FetchLocations,
           pc' = [pc EXCEPT ![f] = l]
    PROVE  /\ pc[f] \in Has /\ l \in Has => Cardinality(HasSession') = Cardinality(HasSession)
           /\ pc[f] \notin Has /\ l \notin Has => Cardinality(HasSession') = Cardinality(HasSession)
           /\ pc[f] \notin Has /\ l \in Has => Cardinality(HasSession') = Cardinality(HasSession) + 1
           /\ pc[f] \in Has /\ l \notin Has => Cardinality(HasSession') = Cardinality(HasSession) - 1
<1>1. HasSession = At(Has) /\ HasSession' = At(Has)'
  BY DEF HasSession, At, Has
<1> QED BY <1>1, MoveCounts

\* Both counts are naturals.
LEMMA CountsNat ==
    /\ Cardinality(Holders) \in Nat /\ Cardinality(HasSession) \in Nat
    /\ IsFiniteSet(Holders) /\ IsFiniteSet(HasSession)
  BY FetchesCounted DEF Holders, HasSession

\* Who is about to take a session leaves room for it: open counts at most
\* the other holders of slots.
LEMMA RoomForOne ==
    ASSUME PoolInv, NEW f \in Fetches, pc[f] \in Past, pc[f] \notin Has
    PROVE  Cardinality(HasSession) + 1 <= PoolSize
<1>1. HasSession \subseteq Holders \ {f} /\ f \in Holders
  BY DEF HasSession, Holders, Has, Past
<1>2. Cardinality(Holders \ {f}) = Cardinality(Holders) - 1 /\ IsFiniteSet(Holders \ {f})
  BY <1>1, CountsNat, FS_RemoveElement
<1>3. Cardinality(HasSession) <= Cardinality(Holders \ {f})
  BY <1>1, <1>2, FS_Subset
<1>4. Cardinality(Holders) <= slots /\ slots \in 0..PoolSize
  BY DEF PoolInv, Counts, BrowserTypeOK
<1> QED BY <1>2, <1>3, <1>4, CountsNat, BrowserAssumption

\* A fetch that moves without a session given or taken, and gives back its
\* slot if it returns, keeps the counts.
LEMMA CountsKept ==
    ASSUME PoolInv, NEW f \in Fetches, NEW l \in FetchLocations, pc' = [pc EXCEPT ![f] = l],
           (pc[f] \in Has) <=> (l \in Has), UNCHANGED <<idle, open, closer>>,
           slots' \in 0..PoolSize,
           slots' = slots + (IF l \in Past THEN 1 ELSE 0) - (IF pc[f] \in Past THEN 1 ELSE 0)
    PROVE  Counts'
<1>1. pc \in [Fetches -> FetchLocations] /\ slots \in Nat
  BY BrowserAssumption DEF PoolInv, BrowserTypeOK
<1>2. Cardinality(HasSession') = Cardinality(HasSession)
  BY <1>1, SessionsMove
<1>3. Cardinality(Holders') - slots' = Cardinality(Holders) - slots
  <2>1. CASE pc[f] \in Past /\ l \in Past
    <3>1. Cardinality(Holders') = Cardinality(Holders)
      BY <1>1, <2>1, HoldersMove
    <3> QED BY <1>1, <2>1, <3>1, CountsNat
  <2>2. CASE pc[f] \notin Past /\ l \notin Past
    <3>1. Cardinality(Holders') = Cardinality(Holders)
      BY <1>1, <2>2, HoldersMove
    <3> QED BY <1>1, <2>2, <3>1, CountsNat
  <2>3. CASE pc[f] \notin Past /\ l \in Past
    <3>1. Cardinality(Holders') = Cardinality(Holders) + 1
      BY <1>1, <2>3, HoldersMove
    <3> QED BY <1>1, <2>3, <3>1, CountsNat
  <2>4. CASE pc[f] \in Past /\ l \notin Past
    <3>1. Cardinality(Holders') = Cardinality(Holders) - 1
      BY <1>1, <2>4, HoldersMove
    <3> QED BY <1>1, <2>4, <3>1, CountsNat
  <2> QED BY <2>1, <2>2, <2>3, <2>4
<1>4. Cardinality(Holders') \in Nat
  BY FetchesCounted DEF Holders
<1> QED BY <1>1, <1>2, <1>3, <1>4, CountsNat, BrowserAssumption
        DEF PoolInv, Counts, CountsExact
-----------------------------------------------------------------------------
\* A fetch past its wait has a slot to give back.
LEMMA SlotHeld ==
    ASSUME PoolInv, NEW f \in Fetches, pc[f] \in Past
    PROVE  slots - 1 \in 0..PoolSize
<1>1. f \in Holders
  BY DEF Holders, Past
<1>2. Cardinality(Holders) >= 1
  <2>1. Cardinality(Holders \ {f}) = Cardinality(Holders) - 1 /\ IsFiniteSet(Holders \ {f})
    BY <1>1, CountsNat, FS_RemoveElement
  <2>2. Cardinality(Holders \ {f}) \in Nat
    BY <2>1, FS_CardinalityType
  <2> QED BY <2>1, <2>2, CountsNat
<1> QED BY <1>2, CountsNat, BrowserAssumption DEF PoolInv, Counts, BrowserTypeOK

\* None is no session and no fetch.
LEMMA NoneIsNone == None \notin Sessions /\ None \notin Fetches
  BY BrowserAssumption

\* A fetch that gives its session up, or keeps it, disturbs no other owner.
LEMMA OwnedKept ==
    ASSUME PoolInv, NEW f \in Fetches, UNCHANGED <<idle, doomed, discard, browser, sess>>,
           cur' = cur \/ cur' = [cur EXCEPT ![f] = None]
    PROVE  Owned' /\ cur' \in [Fetches -> Sessions \cup {None}]
<1>1. \A g \in Fetches : cur'[g] = cur[g] \/ cur'[g] = None
  BY DEF PoolInv, BrowserTypeOK
<1>2. cur' \in [Fetches -> Sessions \cup {None}]
  BY DEF PoolInv, BrowserTypeOK
<1>3. /\ \A g \in Fetches : None \notin discard[g]
      /\ None \notin Range(idle) /\ None \notin doomed
  <2>1. \A i \in DOMAIN idle : idle[i] \in Sessions
    BY DEF PoolInv, BrowserTypeOK
  <2>2. None \notin Range(idle)
    BY <2>1, NoneIsNone DEF Range
  <2> QED BY <2>2, NoneIsNone DEF PoolInv, BrowserTypeOK
<1> QED BY <1>1, <1>2, <1>3 DEF PoolInv, Owned

\* A step of a fetch that touches neither browser, pool nor sessions.
LEMMA QuietMove ==
    ASSUME PoolInv, NEW f \in Fetches, NEW l \in FetchLocations, pc' = [pc EXCEPT ![f] = l],
           UNCHANGED <<browser, alive, idle, open, sess, mu, discard>>, UNCHANGED closeVars,
           backoff' \in BOOLEAN,
           cur' = cur \/ cur' = [cur EXCEPT ![f] = None],
           key' \in [Fetches -> Profiles \cup {None}], on' \in [Fetches -> 0..MaxLaunches],
           pc[f] # "launch", l # "launch",
           l \in {"render", "healthy", "failed"} => pc[f] \in {"render", "healthy", "failed"} /\ cur' = cur,
           slots' \in 0..PoolSize, Counts'
    PROVE  PoolInv'
<1> USE DEF closeVars
<1>1. \A g \in Fetches : pc'[g] = IF g = f THEN l ELSE pc[g]
  BY DEF PoolInv, BrowserTypeOK
<1>2. Owned' /\ cur' \in [Fetches -> Sessions \cup {None}]
  BY OwnedKept
<1>3. BrowserTypeOK'
  BY <1>2 DEF PoolInv, BrowserTypeOK
<1>4. BrowserRuns' /\ Closing'
  BY DEF PoolInv, BrowserRuns, Closing
<1>5. Launching'
  BY <1>1 DEF PoolInv, Launching
<1>6. Rendering'
  BY <1>1 DEF PoolInv, Rendering, BrowserTypeOK
<1> QED BY <1>2, <1>3, <1>4, <1>5, <1>6 DEF PoolInv

\* Return leaves a fetch without a session.
LEMMA ReturnShapes ==
    ASSUME PoolInv, NEW f \in Fetches, Return(f)
    PROVE  /\ pc' = [pc EXCEPT ![f] = "out"] /\ cur' = [cur EXCEPT ![f] = None]
           /\ key' \in [Fetches -> Profiles \cup {None}] /\ on' \in [Fetches -> 0..MaxLaunches]
<1>1. 0 \in 0..MaxLaunches
  BY BrowserAssumption
<1> QED BY <1>1 DEF Return, Goto, PoolInv, BrowserTypeOK

\* The way to a slot and back (playwright.go:327-341, 415).
LEMMA SlotInv ==
    ASSUME PoolInv, NEW f \in Fetches,
           CallFetch(f) \/ TakeSlot(f) \/ GiveUp(f) \/ CheckClosed(f) \/ NoBrowser(f) \/ FreeSlot(f)
    PROVE  PoolInv'
<1> USE DEF browserVars, poolVars
<1>1. /\ pc \in [Fetches -> FetchLocations] /\ slots \in 0..PoolSize /\ slots \in Nat
      /\ key \in [Fetches -> Profiles \cup {None}] /\ on \in [Fetches -> 0..MaxLaunches]
      /\ backoff \in BOOLEAN
  BY BrowserAssumption DEF PoolInv, BrowserTypeOK
<1>2. /\ UNCHANGED <<browser, alive, idle, open, sess, mu, discard>> /\ UNCHANGED closeVars
      /\ backoff' \in BOOLEAN /\ closer' = closer
  BY <1>1 DEF CallFetch, TakeSlot, GiveUp, CheckClosed, NoBrowser, FreeSlot, closeVars
<1>3. ASSUME NEW l \in {"wait", "check", "lock"}, pc' = [pc EXCEPT ![f] = l],
             pc[f] \in {"out", "wait", "check"}, UNCHANGED <<key, on, cur>>,
             slots' \in 0..PoolSize,
             slots' = slots + (IF l \in Past THEN 1 ELSE 0) - (IF pc[f] \in Past THEN 1 ELSE 0)
      PROVE  PoolInv'
  <2>1. l \in FetchLocations /\ pc[f] \notin Has /\ l \notin Has
    BY <1>3 DEF FetchLocations, Has
  <2>2. Counts'
    BY <1>2, <1>3, <2>1, CountsKept
  <2>3. pc[f] # "launch" /\ l # "launch" /\ l \notin {"render", "healthy", "failed"}
    BY <1>3
  <2> QED BY <1>1, <1>2, <1>3, <2>1, <2>2, <2>3, QuietMove
<1>4. ASSUME Return(f), pc[f] \in {"wait", "check", "lock", "free"},
             slots' = slots - (IF pc[f] \in Past THEN 1 ELSE 0)
      PROVE  PoolInv'
  <2>1. "out" \in FetchLocations /\ pc[f] \notin Has /\ "out" \notin Has /\ "out" \notin Past
    BY <1>4 DEF FetchLocations, Has, Past
  <2>2. slots' \in 0..PoolSize
    BY <1>1, <1>4, SlotHeld
  <2>3. slots' = slots + (IF "out" \in Past THEN 1 ELSE 0) - (IF pc[f] \in Past THEN 1 ELSE 0)
    BY <1>1, <1>4, <2>1
  <2>4. Counts'
    BY <1>2, <1>4, <2>1, <2>2, <2>3, CountsKept, ReturnShapes
  <2>5. pc[f] # "launch"
    BY <1>4
  <2> QED BY <1>1, <1>2, <1>4, <2>1, <2>2, <2>4, <2>5, QuietMove, ReturnShapes
<1>5. CASE CallFetch(f)
  BY <1>1, <1>3, <1>5 DEF CallFetch, Goto, Past, FetchLocations
<1>6. CASE TakeSlot(f)
  BY <1>1, <1>3, <1>6, BrowserAssumption DEF TakeSlot, Goto, Past, FetchLocations
<1>7. CASE GiveUp(f)
  BY <1>1, <1>4, <1>7 DEF GiveUp, Past, FetchLocations
<1>8. CASE CheckClosed(f)
  <2>1. pc[f] = "check" /\ "check" \in Past /\ "lock" \in Past
    BY <1>8 DEF CheckClosed, Past, FetchLocations
  <2>2. CASE closed
    BY <1>1, <1>4, <1>8, <2>1, <2>2 DEF CheckClosed
  <2>3. CASE ~closed
    BY <1>1, <1>3, <1>8, <2>1, <2>3 DEF CheckClosed, Goto
  <2> QED BY <2>2, <2>3
<1>9. CASE NoBrowser(f)
  BY <1>1, <1>4, <1>9 DEF NoBrowser, Past, FetchLocations
<1>10. CASE FreeSlot(f)
  BY <1>1, <1>4, <1>10 DEF FreeSlot, Past, FetchLocations
<1> QED BY <1>5, <1>6, <1>7, <1>8, <1>9, <1>10
-----------------------------------------------------------------------------
\* What is left of a list of sessions when those of d are taken out.
LEMMA KeptWithout ==
    ASSUME NEW list \in Seq(Sessions), NoDup(list), NEW d, d \subseteq Range(list)
    PROVE  LET kept == Kept(list, Sessions \ d) IN
           /\ kept \in Seq(Sessions) /\ NoDup(kept) /\ Range(kept) = Range(list) \ d
           /\ IsFiniteSet(d) /\ Cardinality(d) \in Nat /\ Len(kept) \in Nat
           /\ Len(list) = Len(kept) + Cardinality(d)
<1> DEFINE kept == Kept(list, Sessions \ d)
<1>1. Range(list) \subseteq Sessions
  BY DEF Range
<1>2. kept \in Seq(Sessions) /\ NoDup(kept) /\ Range(kept) = Range(list) \cap (Sessions \ d)
  BY KeptFacts
<1> HIDE DEF kept
<1>3. Range(kept) = Range(list) \ d
  BY <1>1, <1>2
<1>4. IsFiniteSet(Range(list)) /\ Cardinality(Range(list)) = Len(list)
  BY NoDupLength
<1>5. Cardinality(Range(kept)) = Len(kept) /\ Len(kept) \in Nat /\ Len(list) \in Nat
  <2>1. Len(kept) \in Nat /\ Len(list) \in Nat
    BY <1>2
  <2>2. Cardinality(Range(kept)) = Len(kept)
    BY <1>2, NoDupLength
  <2> QED BY <2>1, <2>2
<1>6. IsFiniteSet(d) /\ Cardinality(d) \in Nat
  BY <1>4, FS_Subset, FS_CardinalityType
<1>7. Range(list) \cap d = d
  OBVIOUS
<1>8. Cardinality(Range(list) \ d) = Cardinality(Range(list)) - Cardinality(d)
  BY <1>4, <1>7, FS_Difference
<1>9. Len(list) = Len(kept) + Cardinality(d)
  BY <1>3, <1>4, <1>5, <1>6, <1>8
<1> QED BY <1>2, <1>3, <1>5, <1>6, <1>9, Zenon DEF kept

\* A list without entries is empty.
LEMMA EmptyRange ==
    ASSUME NEW X, NEW list \in Seq(X)
    PROVE  /\ list = <<>> <=> Range(list) = {}
           /\ list # <<>> => Head(list) \in Range(list)
           /\ list = <<>> <=> Len(list) = 0
<1>1. Len(list) \in Nat /\ DOMAIN list = 1..Len(list)
  OBVIOUS
<1>2. list = <<>> <=> Len(list) = 0
  OBVIOUS
<1>3. ASSUME list # <<>> PROVE Head(list) \in Range(list)
  <2>1. Head(list) = list[1] /\ 1 \in DOMAIN list
    BY <1>1, <1>2, <1>3
  <2> QED BY <2>1 DEF Range
<1>4. ASSUME list = <<>> PROVE Range(list) = {}
  <2>1. DOMAIN list = {}
    BY <1>4
  <2> QED BY <2>1 DEF Range
<1> QED BY <1>2, <1>3, <1>4

\* The empty list of sessions.
LEMMA EmptyList ==
    <<>> \in Seq(Sessions) /\ NoDup(<<>>) /\ Range(<<>>) = {} /\ Len(<<>>) = 0
<1>1. <<>> \in Seq(Sessions) /\ Len(<<>>) = 0 /\ 1..0 = {}
  OBVIOUS
<1>2. Range(<<>>) = {}
  BY <1>1, EmptyRange
<1> QED BY <1>1, <1>2 DEF NoDup

\* What acquire's critical section takes: the session it reuses and those
\* it drops leave the idle pool, and the reservation finds room
\* (playwright.go:348-377).
Taken(f, d, c, l) ==
    /\ d \subseteq Range(idle)
    /\ discard' = [discard EXCEPT ![f] = d]
    /\ \/ c \in Range(idle) \ d /\ Range(idle') = Range(idle) \ (d \cup {c})
          /\ cur' = [cur EXCEPT ![f] = c] /\ UNCHANGED <<key, on>>
       \/ c = cur[f] /\ Range(idle') = Range(idle) \ d /\ cur' = cur /\ l # "render"
    /\ idle' \in Seq(Sessions) /\ NoDup(idle')
    /\ l \in {"render", "clean", "new"} /\ pc' = [pc EXCEPT ![f] = l]
    /\ open' = Len(idle') + Cardinality(HasSession) + 1
    /\ open' <= PoolSize

LEMMA TakeSessionTakes ==
    ASSUME PoolInv, NEW f \in Fetches, pc[f] \in {"lock", "launch"}, NEW k, NEW b,
           TakeSession(f, k, b)
    PROVE  \E d, c, l : Taken(f, d, c, l)
<1> DEFINE stale == {s \in Range(idle) : Stale(s)}
           kept == Kept(idle, Sessions \ stale)
           fits == Kept(kept, {s \in Sessions : Matches(s, k, b)})
           left == open - Cardinality(stale)
<1>1. /\ idle \in Seq(Sessions) /\ NoDup(idle) /\ open = Len(idle) + Cardinality(HasSession)
      /\ open <= PoolSize /\ Range(idle) \subseteq Sessions
  <2>1. idle \in Seq(Sessions)
    BY DEF PoolInv, BrowserTypeOK
  <2> QED BY <2>1 DEF PoolInv, Owned, Counts, CountsExact, Range
<1>2. stale \subseteq Range(idle)
  OBVIOUS
<1>3. /\ kept \in Seq(Sessions) /\ NoDup(kept) /\ Range(kept) = Range(idle) \ stale
      /\ Cardinality(stale) \in Nat /\ Len(kept) \in Nat
      /\ Len(idle) = Len(kept) + Cardinality(stale)
  <2> HIDE DEF stale
  <2> QED BY <1>1, <1>2, KeptWithout
<1>4. fits \in Seq(Sessions) /\ Range(fits) \subseteq Range(kept)
  <2> DEFINE M == {s \in Sessions : Matches(s, k, b)}
  <2> HIDE DEF kept, M
  <2>1. Kept(kept, M) \in Seq(Sessions) /\ Range(Kept(kept, M)) = Range(kept) \cap M
    BY <1>3, KeptFacts
  <2>2. fits = Kept(kept, M)
    BY DEF M
  <2> HIDE DEF fits
  <2> QED BY <2>1, <2>2
<1>5. Cardinality(HasSession) \in Nat /\ Cardinality(HasSession) + 1 <= PoolSize
  BY CountsNat, RoomForOne DEF Past, Has, FetchLocations
<1>6. left = Len(kept) + Cardinality(HasSession) /\ left <= PoolSize
  BY <1>1, <1>3, <1>5, BrowserAssumption
<1>7. CASE fits # <<>>
  <2> DEFINE c == Head(fits)
             l == IF stale = {} THEN "render" ELSE "clean"
  <2>1. /\ cur' = [cur EXCEPT ![f] = c] /\ idle' = Kept(kept, Sessions \ {c}) /\ open' = left
        /\ discard' = [discard EXCEPT ![f] = stale] /\ pc' = [pc EXCEPT ![f] = l]
        /\ UNCHANGED <<key, on>>
    BY <1>7 DEF TakeSession, Without, Goto
  <2>2. c \in Range(kept)
    BY <1>4, <1>7, EmptyRange
  <2> HIDE DEF c, kept, fits, stale
  <2>3. /\ idle' \in Seq(Sessions) /\ NoDup(idle') /\ Range(idle') = Range(kept) \ {c}
        /\ Len(kept) = Len(idle') + Cardinality({c}) /\ Len(idle') \in Nat
    BY <1>3, <2>1, <2>2, KeptWithout
  <2>4. Cardinality({c}) = 1
    BY FS_Singleton
  <2>5. open' = Len(idle') + Cardinality(HasSession) + 1 /\ open' <= PoolSize
    BY <1>3, <1>5, <1>6, <2>1, <2>3, <2>4
  <2>6. c \in Range(idle) \ stale /\ Range(idle') = Range(idle) \ (stale \cup {c})
    BY <1>3, <2>2, <2>3
  <2>7. l \in {"render", "clean", "new"}
    OBVIOUS
  <2> HIDE DEF l
  <2>8. Taken(f, stale, c, l)
    BY <1>2, <2>1, <2>3, <2>5, <2>6, <2>7 DEF Taken
  <2> QED BY <2>8
<1>8. CASE fits = <<>>
  <2> DEFINE evict == IF Room(left) \/ kept = <<>> THEN {} ELSE {Head(kept)}
             d == stale \cup evict
             l == IF d = {} THEN "new" ELSE "clean"
  <2>1. /\ idle' = Kept(kept, Sessions \ evict) /\ open' = left - Cardinality(evict) + 1
        /\ discard' = [discard EXCEPT ![f] = d] /\ pc' = [pc EXCEPT ![f] = l]
        /\ cur' = cur
    BY <1>8 DEF TakeSession, Goto
  <2>2. l \in {"render", "clean", "new"} /\ l # "render"
    OBVIOUS
  <2>3. evict \subseteq Range(kept)
    BY <1>3, EmptyRange
  <2>4. Cardinality(evict) = IF Room(left) \/ kept = <<>> THEN 0 ELSE 1
    BY FS_Singleton, FS_EmptySet
  <2>5. kept = <<>> <=> Len(kept) = 0
    BY <1>3, EmptyRange
  <2> HIDE DEF evict, kept, fits, stale
  <2>6. /\ idle' \in Seq(Sessions) /\ NoDup(idle') /\ Range(idle') = Range(kept) \ evict
        /\ Len(kept) = Len(idle') + Cardinality(evict) /\ Len(idle') \in Nat
        /\ Cardinality(evict) \in Nat
    BY <1>3, <2>1, <2>3, KeptWithout
  <2>7. open' = Len(idle') + Cardinality(HasSession) + 1
    BY <1>3, <1>5, <1>6, <2>1, <2>6
  <2>8. open' <= PoolSize
    BY <1>3, <1>5, <1>6, <2>1, <2>4, <2>5, BrowserAssumption DEF Room
  <2>9. d \subseteq Range(idle) /\ Range(idle') = Range(idle) \ d
    BY <1>2, <1>3, <2>3, <2>6
  <2> HIDE DEF d, l
  <2>10. Taken(f, d, cur[f], l)
    BY <2>1, <2>2, <2>6, <2>7, <2>8, <2>9 DEF Taken
  <2> QED BY <2>10
<1> QED BY <1>7, <1>8

\* Idle sessions are sessions, and never None.
LEMMA IdleSessions ==
    ASSUME PoolInv PROVE Range(idle) \subseteq Sessions /\ None \notin Range(idle)
<1>1. idle \in Seq(Sessions)
  BY DEF PoolInv, BrowserTypeOK
<1>2. Range(idle) \subseteq Sessions
  BY <1>1 DEF Range
<1> QED BY <1>2, NoneIsNone

\* What acquire takes keeps every session with one owner and the counts exact.
LEMMA TakenInv ==
    ASSUME PoolInv, NEW f \in Fetches, pc[f] \in {"lock", "launch"}, NEW d, NEW c, NEW l,
           Taken(f, d, c, l), UNCHANGED <<sess, slots>>, UNCHANGED closeVars,
           browser' = browser \/ idle = <<>>
    PROVE  /\ cur' \in [Fetches -> Sessions \cup {None}] /\ discard' \in [Fetches -> SUBSET Sessions]
           /\ pc' \in [Fetches -> FetchLocations] /\ idle' \in Seq(Sessions)
           /\ idle = <<>> => idle' = <<>>
           /\ Owned' /\ Rendering' /\ Counts' /\ Closing'
           /\ \A g \in Fetches : pc'[g] = IF g = f THEN l ELSE pc[g]
           /\ l # "launch"
<1> USE DEF closeVars
<1>1. /\ pc \in [Fetches -> FetchLocations] /\ cur \in [Fetches -> Sessions \cup {None}]
      /\ discard \in [Fetches -> SUBSET Sessions] /\ slots \in 0..PoolSize
      /\ idle \in Seq(Sessions)
  BY DEF PoolInv, BrowserTypeOK
<1>2. Range(idle) \subseteq Sessions /\ None \notin Range(idle)
  BY IdleSessions
<1>3. /\ d \subseteq Range(idle) /\ d \subseteq Sessions
      /\ l \in {"render", "clean", "new"} /\ l \in FetchLocations /\ l # "launch"
      /\ Range(idle') \subseteq Range(idle) /\ idle' \in Seq(Sessions) /\ NoDup(idle')
      /\ pc' = [pc EXCEPT ![f] = l] /\ discard' = [discard EXCEPT ![f] = d]
      /\ \A s \in Range(idle') : s \notin d
      /\ open' = Len(idle') + Cardinality(HasSession) + 1 /\ open' <= PoolSize
  BY <1>2 DEF Taken, FetchLocations
<1>4. \/ /\ c \in Range(idle) /\ c \notin d /\ c \notin Range(idle') /\ c \in Sessions /\ c # None
         /\ cur' = [cur EXCEPT ![f] = c]
      \/ cur' = cur /\ l # "render"
  BY <1>2 DEF Taken
<1>5. /\ \A g \in Fetches : pc'[g] = IF g = f THEN l ELSE pc[g]
      /\ \A g \in Fetches : discard'[g] = IF g = f THEN d ELSE discard[g]
      /\ pc' \in [Fetches -> FetchLocations] /\ discard' \in [Fetches -> SUBSET Sessions]
      /\ cur' \in [Fetches -> Sessions \cup {None}]
  BY <1>1, <1>3, <1>4
<1>6. \A g \in Fetches : \/ cur'[g] = cur[g]
                         \/ /\ g = f /\ cur'[g] \in Range(idle) /\ cur'[g] \notin d
                            /\ cur'[g] \notin Range(idle')
  BY <1>1, <1>4
<1>7. idle = <<>> => idle' = <<>>
  BY <1>1, <1>3, EmptyRange
<1>8. \A s \in Range(idle) : s \notin doomed
  <2>1. CASE idle = <<>>
    BY <1>1, <2>1, EmptyRange
  <2>2. CASE idle # <<>>
    BY <2>2 DEF PoolInv, Closing, BrowserTypeOK
  <2> QED BY <2>1, <2>2
<1>9. \A s \in Range(idle') : sess[s].browser = browser'
  <2>1. CASE browser' = browser
    BY <1>3, <2>1 DEF PoolInv, Owned
  <2>2. CASE idle = <<>>
    BY <1>1, <1>3, <2>2, EmptyRange
  <2> QED BY <2>1, <2>2
<1>10. Owned'
  <2>1. \A g, h \in Fetches : g # h /\ cur'[g] # None => cur'[g] # cur'[h]
    BY <1>6 DEF PoolInv, Owned
  <2>2. \A g \in Fetches : cur'[g] \notin Range(idle') /\ cur'[g] \notin doomed
    BY <1>3, <1>6, <1>8 DEF PoolInv, Owned
  <2>3. \A g, h \in Fetches : cur'[g] \notin discard'[h]
    BY <1>3, <1>5, <1>6 DEF PoolInv, Owned
  <2>4. \A g \in Fetches : \A s \in discard'[g] : s \notin Range(idle') /\ s \notin doomed
    BY <1>3, <1>5, <1>8 DEF PoolInv, Owned
  <2> QED BY <1>3, <1>9, <2>1, <2>2, <2>3, <2>4 DEF Owned
<1>11. Rendering'
  <2>1. l = "render" => cur'[f] # None
    BY <1>1, <1>4
  <2>2. \A g \in Fetches : g # f => cur'[g] = cur[g]
    BY <1>1, <1>4
  <2> QED BY <1>3, <1>5, <2>1, <2>2 DEF PoolInv, Rendering
<1>12. Closing'
  BY <1>7 DEF PoolInv, Closing
<1>13. Counts'
  <2>1. pc[f] \in Past /\ l \in Past /\ pc[f] \notin Has /\ l \in Has
    BY <1>3 DEF Past, Has, FetchLocations
  <2>2. Cardinality(Holders') = Cardinality(Holders)
    BY <1>1, <1>3, <2>1, HoldersMove
  <2>3. Cardinality(HasSession') = Cardinality(HasSession) + 1
    BY <1>1, <1>3, <2>1, SessionsMove
  <2>4. Len(idle') \in Nat
    BY <1>3
  <2>5. open' = Len(idle') + Cardinality(HasSession')
    BY <1>3, <2>3, <2>4, CountsNat
  <2> QED BY <1>3, <2>2, <2>5 DEF PoolInv, Counts, CountsExact
<1> QED BY <1>3, <1>5, <1>7, <1>10, <1>11, <1>12, <1>13

\* What a fetch asks a new session for.
LEMMA TakeSessionKeys ==
    ASSUME PoolInv, NEW f \in Fetches, NEW k \in Profiles, NEW b \in 0..MaxLaunches,
           TakeSession(f, k, b)
    PROVE  key' \in [Fetches -> Profiles \cup {None}] /\ on' \in [Fetches -> 0..MaxLaunches]
  BY DEF TakeSession, PoolInv, BrowserTypeOK

\* acquire's critical section on a browser that runs (playwright.go:341-377).
LEMMA AcquireInv ==
    ASSUME PoolInv, NEW f \in Fetches, Acquire(f) PROVE PoolInv'
<1> USE DEF browserVars, closeVars
<1>1. PICK k \in Profiles : TakeSession(f, k, browser)
  BY DEF Acquire
<1>2. pc[f] \in {"lock", "launch"} /\ pc[f] # "launch" /\ mu = None /\ browser \in alive
  BY DEF Acquire, Connected
<1>3. UNCHANGED <<browser, alive, backoff, sess, slots, mu>> /\ UNCHANGED closeVars
  BY DEF Acquire
<1>4. PICK d, c, l : Taken(f, d, c, l)
  BY <1>1, <1>2, TakeSessionTakes
<1>5. /\ cur' \in [Fetches -> Sessions \cup {None}] /\ discard' \in [Fetches -> SUBSET Sessions]
      /\ pc' \in [Fetches -> FetchLocations] /\ idle' \in Seq(Sessions)
      /\ Owned' /\ Rendering' /\ Counts' /\ Closing'
      /\ \A g \in Fetches : pc'[g] = IF g = f THEN l ELSE pc[g]
      /\ l # "launch"
  BY <1>2, <1>3, <1>4, TakenInv
<1>6. key' \in [Fetches -> Profiles \cup {None}] /\ on' \in [Fetches -> 0..MaxLaunches]
  <2>1. browser \in 0..MaxLaunches
    BY BrowserAssumption DEF PoolInv, BrowserTypeOK
  <2> QED BY <1>1, <2>1, TakeSessionKeys
<1>7. BrowserTypeOK'
  BY <1>3, <1>5, <1>6 DEF PoolInv, BrowserTypeOK
<1>8. BrowserRuns'
  BY <1>3 DEF PoolInv, BrowserRuns
<1>9. Launching'
  BY <1>2, <1>3, <1>5 DEF PoolInv, Launching
<1> QED BY <1>5, <1>7, <1>8, <1>9 DEF PoolInv

\* The same on the browser just launched (playwright.go:462-485).
LEMMA LaunchSucceedsInv ==
    ASSUME PoolInv, NEW f \in Fetches, LaunchSucceeds(f) PROVE PoolInv'
<1> USE DEF closeVars
<1>1. PICK k \in Profiles : TakeSession(f, k, browser + 1)
  BY DEF LaunchSucceeds
<1>2. pc[f] = "launch" /\ mu = f /\ mu # None /\ pc[f] \in {"lock", "launch"}
  BY NoneIsNone DEF LaunchSucceeds, PoolInv, Launching
<1>3. idle = <<>> /\ browser \notin alive /\ alive = {} /\ closer # "done"
  BY <1>2 DEF PoolInv, Launching, BrowserRuns
<1>4. /\ browser' = browser + 1 /\ alive' = {browser + 1} /\ backoff' = FALSE /\ mu' = None
      /\ UNCHANGED <<sess, slots>> /\ UNCHANGED closeVars
  BY <1>3 DEF LaunchSucceeds
<1>5. PICK d, c, l : Taken(f, d, c, l)
  BY <1>1, <1>2, TakeSessionTakes
<1>6. /\ cur' \in [Fetches -> Sessions \cup {None}] /\ discard' \in [Fetches -> SUBSET Sessions]
      /\ pc' \in [Fetches -> FetchLocations] /\ idle' \in Seq(Sessions)
      /\ Owned' /\ Rendering' /\ Counts' /\ Closing'
      /\ \A g \in Fetches : pc'[g] = IF g = f THEN l ELSE pc[g]
      /\ l # "launch"
  BY <1>2, <1>3, <1>4, <1>5, TakenInv
<1>7. browser + 1 \in 1..MaxLaunches /\ browser + 1 \in 0..MaxLaunches
  BY <1>3, BrowserAssumption DEF PoolInv, BrowserTypeOK, BrowserRuns
<1>8. key' \in [Fetches -> Profiles \cup {None}] /\ on' \in [Fetches -> 0..MaxLaunches]
  BY <1>1, <1>7, TakeSessionKeys
<1>9. BrowserTypeOK'
  BY <1>4, <1>6, <1>7, <1>8, NoneIsNone DEF PoolInv, BrowserTypeOK
<1>10. BrowserRuns'
  BY <1>3, <1>4 DEF PoolInv, BrowserRuns
<1>11. Launching'
  <2>1. \A g \in Fetches : pc'[g] # "launch" /\ g # None
    BY <1>2, <1>6, NoneIsNone DEF PoolInv, Launching
  <2> QED BY <1>4, <2>1 DEF Launching
<1> QED BY <1>6, <1>9, <1>10, <1>11 DEF PoolInv
-----------------------------------------------------------------------------
\* A launch begins: the dead browser's idle sessions are forgotten, which
\* are all idle sessions (playwright.go:430-451).
LEMMA LaunchInv ==
    ASSUME PoolInv, NEW f \in Fetches, Launch(f) PROVE PoolInv'
<1> USE DEF browserVars, closeVars
<1>1. /\ pc \in [Fetches -> FetchLocations] /\ idle \in Seq(Sessions) /\ NoDup(idle)
      /\ open = Len(idle) + Cardinality(HasSession) /\ open <= PoolSize
  BY DEF PoolInv, BrowserTypeOK, Owned, Counts, CountsExact
<1>2. /\ pc[f] = "lock" /\ mu = None /\ browser \notin alive /\ ~closed /\ mu' = f
      /\ pc' = [pc EXCEPT ![f] = "launch"] /\ "launch" \in FetchLocations
      /\ UNCHANGED <<browser, alive, backoff, sess, slots, key, on, cur, discard>>
      /\ UNCHANGED closeVars
  BY DEF Launch, Connected, MayLaunch, Goto, FetchLocations
<1>3. DeadSessions = Range(idle)
  BY DEF PoolInv, Owned, DeadSessions
<1>4. idle' = <<>> /\ open' = open - Len(idle)
  <2>1. idle' = Kept(idle, Sessions \ Range(idle)) /\ open' = open - Cardinality(Range(idle))
    BY <1>3 DEF Launch
  <2>2. idle' \in Seq(Sessions) /\ Range(idle') = {}
    <3>1. /\ Kept(idle, Sessions \ Range(idle)) \in Seq(Sessions)
          /\ Range(Kept(idle, Sessions \ Range(idle))) = Range(idle) \cap (Sessions \ Range(idle))
      BY <1>1, KeptFacts
    <3> QED BY <2>1, <3>1
  <2>3. Cardinality(Range(idle)) = Len(idle)
    BY <1>1, NoDupLength
  <2> QED BY <2>1, <2>2, <2>3, EmptyRange
<1>5. \A g \in Fetches : pc'[g] = IF g = f THEN "launch" ELSE pc[g]
  BY <1>1, <1>2
<1>6. idle' \in Seq(Sessions) /\ NoDup(idle') /\ Range(idle') = {} /\ Len(idle') = 0
  BY <1>4, EmptyList
<1>7. BrowserTypeOK'
  BY <1>2, <1>6 DEF PoolInv, BrowserTypeOK
<1>8. BrowserRuns' /\ Rendering'
  BY <1>2, <1>5 DEF PoolInv, BrowserRuns, Rendering
<1>9. closer # "done" /\ closer = "none"
  BY <1>2 DEF PoolInv, Closing
<1>10. Closing'
  BY <1>2, <1>4 DEF PoolInv, Closing
<1>11. Launching'
  BY <1>2, <1>4, <1>5, <1>9, NoneIsNone DEF PoolInv, Launching
<1>12. Owned'
  BY <1>2, <1>6 DEF PoolInv, Owned
<1>13. Counts'
  <2>1. pc[f] \in Past /\ "launch" \in Past /\ pc[f] \notin Has /\ "launch" \notin Has
    BY <1>2 DEF Past, Has, FetchLocations
  <2>2. Cardinality(Holders') = Cardinality(Holders)
    BY <1>1, <1>2, <2>1, HoldersMove
  <2>3. Cardinality(HasSession') = Cardinality(HasSession)
    BY <1>1, <1>2, <2>1, SessionsMove
  <2>4. Len(idle) \in Nat
    BY <1>1
  <2>5. open' = Len(idle') + Cardinality(HasSession') /\ open' <= PoolSize
    BY <1>1, <1>4, <1>6, <2>3, <2>4, CountsNat, BrowserAssumption
  <2> QED BY <1>2, <2>2, <2>5 DEF PoolInv, Counts, CountsExact
<1> QED BY <1>7, <1>8, <1>10, <1>11, <1>12, <1>13 DEF PoolInv

\* A launch fails: f.mu is free again (playwright.go:463-475).
LEMMA LaunchFailsInv ==
    ASSUME PoolInv, NEW f \in Fetches, LaunchFails(f) PROVE PoolInv'
<1> USE DEF poolVars, closeVars
<1>1. /\ pc \in [Fetches -> FetchLocations] /\ slots \in Nat
  BY BrowserAssumption DEF PoolInv, BrowserTypeOK
<1>2. /\ pc[f] = "launch" /\ mu' = None /\ backoff' = TRUE /\ slots' = slots - 1 /\ Return(f)
      /\ UNCHANGED <<browser, alive, idle, open, sess, discard>> /\ UNCHANGED closeVars
  BY DEF LaunchFails
<1>3. /\ pc' = [pc EXCEPT ![f] = "out"] /\ cur' = [cur EXCEPT ![f] = None]
      /\ key' \in [Fetches -> Profiles \cup {None}] /\ on' \in [Fetches -> 0..MaxLaunches]
  BY <1>2, ReturnShapes
<1>4. /\ "out" \in FetchLocations /\ pc[f] \notin Has /\ "out" \notin Has
      /\ "out" \notin Past /\ pc[f] \in Past
  BY <1>2 DEF FetchLocations, Has, Past
<1>5. slots' \in 0..PoolSize
  BY <1>2, <1>4, SlotHeld
<1>6. slots' = slots + (IF "out" \in Past THEN 1 ELSE 0) - (IF pc[f] \in Past THEN 1 ELSE 0)
  BY <1>1, <1>2, <1>4
<1>7. Counts'
  BY <1>2, <1>3, <1>4, <1>5, <1>6, CountsKept
<1>8. Owned' /\ cur' \in [Fetches -> Sessions \cup {None}]
  BY <1>2, <1>3, OwnedKept
<1>9. \A g \in Fetches : pc'[g] = IF g = f THEN "out" ELSE pc[g]
  BY <1>1, <1>3
<1>10. pc' \in [Fetches -> FetchLocations]
  BY <1>1, <1>3, <1>4
<1>11. BrowserTypeOK'
  BY <1>2, <1>3, <1>5, <1>8, <1>10 DEF PoolInv, BrowserTypeOK
<1>12. BrowserRuns' /\ Closing'
  BY <1>2 DEF PoolInv, BrowserRuns, Closing
<1>13. Launching'
  <2>1. \A g \in Fetches : pc'[g] # "launch" /\ g # None
    BY <1>2, <1>9, NoneIsNone DEF PoolInv, Launching
  <2> QED BY <1>2, <2>1 DEF Launching
<1>14. Rendering'
  <2>1. \A g \in Fetches : g # f => cur'[g] = cur[g]
    BY <1>3
  <2> QED BY <1>9, <2>1 DEF PoolInv, Rendering
<1> QED BY <1>7, <1>8, <1>11, <1>12, <1>13, <1>14 DEF PoolInv
-----------------------------------------------------------------------------
\* Session objects as the type invariant has them.
SessionObjects == [up : BOOLEAN, browser : 0..MaxLaunches, key : Profiles \cup {None},
                   uses : 0..MaxSessionUses, crashed : BOOLEAN]

\* NoSession is a session object that is not up.
LEMMA NoSessionObject == NoSession \in SessionObjects /\ NoSession.up = FALSE
<1>1. 0 \in 0..MaxLaunches /\ 0 \in 0..MaxSessionUses
  BY BrowserAssumption
<1> QED BY <1>1, Zenon DEF NoSession, SessionObjects

\* Sessions are session objects.
LEMMA SessTyped ==
    ASSUME PoolInv PROVE sess \in [Sessions -> SessionObjects]
  BY DEF PoolInv, BrowserTypeOK, SessionObjects

\* closeSession forgets sessions and leaves the others as they are.
LEMMA ClosedFacts ==
    ASSUME PoolInv, NEW ss, sess' = Closed(ss)
    PROVE  /\ sess' \in [Sessions -> SessionObjects]
           /\ \A s \in Sessions : sess'[s].up => sess[s].up /\ s \notin ss
           /\ \A s \in Sessions : s \notin ss => sess'[s] = sess[s]
<1>1. sess \in [Sessions -> SessionObjects]
  BY SessTyped
<1>2. \A s \in Sessions : sess'[s] = IF s \in ss THEN NoSession ELSE sess[s]
  BY DEF Closed
<1>3. sess' \in [Sessions -> SessionObjects]
  <2>1. sess' = [s \in Sessions |-> IF s \in ss THEN NoSession ELSE sess[s]]
    BY DEF Closed
  <2> QED BY <1>1, <2>1, NoSessionObject, Zenon
<1> QED BY <1>2, <1>3, NoSessionObject

\* A context that goes leaves the rest of the object as it is.
LEMMA DownFacts ==
    ASSUME PoolInv, NEW ss, sess' = Down(ss)
    PROVE  /\ sess' \in [Sessions -> SessionObjects]
           /\ \A s \in Sessions : sess'[s].up => sess[s].up /\ s \notin ss
           /\ \A s \in Sessions : sess'[s].browser = sess[s].browser
<1>1. sess \in [Sessions -> SessionObjects]
  BY SessTyped
<1>2. sess' = [s \in Sessions |-> IF s \in ss THEN [sess[s] EXCEPT !.up = FALSE] ELSE sess[s]]
  BY DEF Down
<1>3. ASSUME NEW s \in Sessions
      PROVE  /\ sess'[s] \in SessionObjects /\ (sess'[s].up => sess[s].up /\ s \notin ss)
             /\ sess'[s].browser = sess[s].browser
  <2>1. sess[s] \in SessionObjects
    BY <1>1
  <2>2. /\ [sess[s] EXCEPT !.up = FALSE] \in SessionObjects
        /\ [sess[s] EXCEPT !.up = FALSE].up = FALSE
        /\ [sess[s] EXCEPT !.up = FALSE].browser = sess[s].browser
    BY <2>1 DEF SessionObjects
  <2>3. sess'[s] = IF s \in ss THEN [sess[s] EXCEPT !.up = FALSE] ELSE sess[s]
    BY <1>2
  <2> QED BY <2>1, <2>2, <2>3
<1>4. sess' \in [Sessions -> SessionObjects]
  BY <1>2, <1>3
<1> QED BY <1>3, <1>4
-----------------------------------------------------------------------------
\* A session is up only on a browser that runs.
UpOnAlive == \A s \in Sessions : sess[s].up => sess[s].browser \in alive

\* A step that keeps browser, sessions, their owners and the counts in order.
GoodMove ==
    /\ UNCHANGED <<browser, alive, backoff, mu>> /\ UNCHANGED closeVars
    /\ idle' = idle \/ (idle' \in Seq(Sessions) /\ mu = None /\ closer = "none")
    /\ slots' \in 0..PoolSize /\ sess' \in [Sessions -> SessionObjects]
    /\ cur' \in [Fetches -> Sessions \cup {None}] /\ discard' \in [Fetches -> SUBSET Sessions]
    /\ key' \in [Fetches -> Profiles \cup {None}] /\ on' \in [Fetches -> 0..MaxLaunches]
    /\ UpOnAlive' /\ Owned' /\ Rendering' /\ Counts'

\* Such a step of a fetch that does not launch keeps the invariant.
LEMMA FetchMove ==
    ASSUME PoolInv, NEW f \in Fetches, NEW l \in FetchLocations, pc' = [pc EXCEPT ![f] = l],
           pc[f] # "launch", l # "launch", GoodMove
    PROVE  PoolInv'
<1> USE DEF closeVars, GoodMove
<1>1. \A g \in Fetches : pc'[g] = IF g = f THEN l ELSE pc[g]
  BY DEF PoolInv, BrowserTypeOK
<1>2. BrowserTypeOK'
  <2>1. idle' \in Seq(Sessions)
    BY DEF PoolInv, BrowserTypeOK
  <2> QED BY <2>1 DEF PoolInv, BrowserTypeOK, SessionObjects
<1>3. BrowserRuns'
  BY DEF PoolInv, BrowserRuns, UpOnAlive
<1>4. Launching'
  BY <1>1 DEF PoolInv, Launching
<1>5. Closing'
  BY DEF PoolInv, Closing
<1> QED BY <1>2, <1>3, <1>4, <1>5 DEF PoolInv

\* The types a fetch's steps start from.
LEMMA FetchTypes ==
    ASSUME PoolInv
    PROVE  /\ pc \in [Fetches -> FetchLocations] /\ slots \in 0..PoolSize /\ slots \in Nat
           /\ cur \in [Fetches -> Sessions \cup {None}] /\ discard \in [Fetches -> SUBSET Sessions]
           /\ key \in [Fetches -> Profiles \cup {None}] /\ on \in [Fetches -> 0..MaxLaunches]
           /\ idle \in Seq(Sessions) /\ doomed \subseteq Sessions
           /\ sess \in [Sessions -> SessionObjects]
           /\ \A s \in Sessions : sess[s].up => sess[s].browser \in alive
  BY BrowserAssumption DEF PoolInv, BrowserTypeOK, SessionObjects, BrowserRuns

\* The sessions a fetch dropped are closed, outside of f.mu
\* (playwright.go:366-368, 379-384, 412-414).
LEMMA CloseOwnInv ==
    ASSUME PoolInv, NEW f \in Fetches, CloseDiscarded(f) \/ CloseReleased(f) PROVE PoolInv'
<1> USE DEF browserVars, poolVars
<1>1. PICK l \in FetchLocations :
         /\ pc' = [pc EXCEPT ![f] = l] /\ pc[f] \in Past /\ l \in Past
         /\ pc[f] # "launch" /\ l # "launch" /\ ((pc[f] \in Has) <=> (l \in Has))
         /\ l \in {"render", "healthy", "failed"} => cur[f] # None
  <2>1. CASE CloseDiscarded(f)
    BY <2>1 DEF CloseDiscarded, Goto, Past, Has, FetchLocations
  <2>2. CASE CloseReleased(f)
    BY <2>2 DEF CloseReleased, Goto, Past, Has, FetchLocations
  <2> QED BY <2>1, <2>2
<1>2. /\ sess' = Closed(discard[f]) /\ discard' = [discard EXCEPT ![f] = {}]
      /\ UNCHANGED <<browser, alive, backoff, mu, idle, open, slots, cur, key, on>>
      /\ UNCHANGED closeVars /\ closer' = closer /\ doomed' = doomed
  BY DEF CloseDiscarded, CloseReleased, closeVars
<1>3. /\ pc \in [Fetches -> FetchLocations] /\ slots \in 0..PoolSize /\ slots \in Nat
      /\ cur \in [Fetches -> Sessions \cup {None}] /\ discard \in [Fetches -> SUBSET Sessions]
      /\ key \in [Fetches -> Profiles \cup {None}] /\ on \in [Fetches -> 0..MaxLaunches]
      /\ \A s \in Sessions : sess[s].up => sess[s].browser \in alive
  BY FetchTypes
<1>4. /\ sess' \in [Sessions -> SessionObjects]
      /\ \A s \in Sessions : sess'[s].up => sess[s].up /\ s \notin discard[f]
      /\ \A s \in Sessions : s \notin discard[f] => sess'[s] = sess[s]
  BY <1>2, ClosedFacts
<1>5. UpOnAlive'
  BY <1>2, <1>3, <1>4 DEF UpOnAlive
<1>6. discard' \in [Fetches -> SUBSET Sessions] /\ \A g \in Fetches : discard'[g] \subseteq discard[g]
  BY <1>2, <1>3
<1>7. \A s \in Range(idle) : sess'[s].browser = browser
  BY <1>4, IdleSessions DEF PoolInv, Owned
<1>8. Owned'
  BY <1>2, <1>6, <1>7 DEF PoolInv, Owned
<1>9. Rendering'
  <2>1. \A g \in Fetches : pc'[g] = IF g = f THEN l ELSE pc[g]
    BY <1>1, <1>3
  <2> QED BY <1>1, <1>2, <2>1 DEF PoolInv, Rendering
<1>10. slots' = slots + (IF l \in Past THEN 1 ELSE 0) - (IF pc[f] \in Past THEN 1 ELSE 0)
  BY <1>1, <1>2, <1>3
<1>11. Counts'
  BY <1>1, <1>2, <1>3, <1>10, CountsKept
<1>12. GoodMove
  BY <1>2, <1>3, <1>4, <1>5, <1>6, <1>8, <1>9, <1>11 DEF GoodMove
<1> QED BY <1>1, <1>12, FetchMove

\* newSession opens a session object that nobody has (playwright.go:385-394).
LEMMA NewSessionInv ==
    ASSUME PoolInv, NEW f \in Fetches, NewSession(f) PROVE PoolInv'
<1> USE DEF browserVars, poolVars
<1> DEFINE new(s) == [up |-> TRUE, browser |-> on[f], key |-> key[f], uses |-> 0, crashed |-> FALSE]
<1>1. PICK s \in Unused : sess' = [sess EXCEPT ![s] = new(s)] /\ cur' = [cur EXCEPT ![f] = s]
  <2>1. (CHOOSE s \in Unused : TRUE) \in Unused
    BY DEF NewSession
  <2> QED BY <2>1 DEF NewSession
<1>2. /\ pc[f] = "new" /\ pc' = [pc EXCEPT ![f] = "render"] /\ on[f] \in alive
      /\ key' = [key EXCEPT ![f] = None] /\ on' = [on EXCEPT ![f] = 0]
      /\ UNCHANGED <<browser, alive, backoff, mu, idle, open, slots, discard>>
      /\ UNCHANGED closeVars /\ closer' = closer /\ doomed' = doomed
  BY DEF NewSession, Goto, closeVars
<1>3. /\ pc \in [Fetches -> FetchLocations] /\ slots \in 0..PoolSize /\ slots \in Nat
      /\ cur \in [Fetches -> Sessions \cup {None}] /\ discard \in [Fetches -> SUBSET Sessions]
      /\ key \in [Fetches -> Profiles \cup {None}] /\ on \in [Fetches -> 0..MaxLaunches]
      /\ sess \in [Sessions -> SessionObjects]
      /\ \A t \in Sessions : sess[t].up => sess[t].browser \in alive
  BY FetchTypes
<1>4. /\ s \in Sessions /\ s # None /\ s \notin Range(idle) /\ s \notin doomed
      /\ \A g \in Fetches : s # cur[g] /\ s \notin discard[g]
  BY NoneIsNone DEF Unused
<1>5. new(s) \in SessionObjects /\ new(s).browser = on[f]
  <2>1. 0 \in 0..MaxSessionUses
    BY BrowserAssumption
  <2>2. on[f] \in 0..MaxLaunches /\ key[f] \in Profiles \cup {None}
    BY <1>3
  <2>3. new(s).browser = on[f]
    OBVIOUS
  <2>4. new(s) \in SessionObjects
    BY <2>1, <2>2, Zenon DEF SessionObjects
  <2> QED BY <2>3, <2>4
<1> HIDE DEF new
<1>6. /\ sess' \in [Sessions -> SessionObjects]
      /\ \A t \in Sessions : sess'[t] = IF t = s THEN new(s) ELSE sess[t]
  BY <1>1, <1>3, <1>4, <1>5
<1>7. UpOnAlive'
  BY <1>2, <1>3, <1>5, <1>6 DEF UpOnAlive
<1>8. /\ cur' \in [Fetches -> Sessions \cup {None}]
      /\ \A g \in Fetches : cur'[g] = IF g = f THEN s ELSE cur[g]
  BY <1>1, <1>3, <1>4
<1>9. \A t \in Range(idle) : sess'[t].browser = browser
  BY <1>4, <1>6, IdleSessions DEF PoolInv, Owned
<1>10. Owned'
  BY <1>2, <1>4, <1>8, <1>9 DEF PoolInv, Owned
<1>11. Rendering'
  <2>1. \A g \in Fetches : pc'[g] = IF g = f THEN "render" ELSE pc[g]
    BY <1>2, <1>3
  <2> QED BY <1>4, <1>8, <2>1 DEF PoolInv, Rendering
<1>12. /\ "render" \in FetchLocations /\ "render" \in Past /\ "render" \in Has
       /\ pc[f] \in Past /\ pc[f] \in Has /\ pc[f] # "launch"
  BY <1>2 DEF Past, Has, FetchLocations
<1>13. slots' = slots + (IF "render" \in Past THEN 1 ELSE 0) - (IF pc[f] \in Past THEN 1 ELSE 0)
  BY <1>2, <1>3, <1>12
<1>14. Counts'
  BY <1>2, <1>3, <1>12, <1>13, CountsKept
<1>15. key' \in [Fetches -> Profiles \cup {None}] /\ on' \in [Fetches -> 0..MaxLaunches]
  <2>1. 0 \in 0..MaxLaunches
    BY BrowserAssumption
  <2> QED BY <1>2, <1>3, <2>1
<1>16. GoodMove
  BY <1>2, <1>3, <1>6, <1>7, <1>8, <1>10, <1>11, <1>14, <1>15 DEF GoodMove
<1> QED BY <1>2, <1>12, <1>16, FetchMove

\* A render ends, well or not (playwright.go:164-193).
LEMMA RenderEndsInv ==
    ASSUME PoolInv, NEW f \in Fetches, RenderEnds(f) PROVE PoolInv'
<1> USE DEF browserVars, poolVars
<1>1. /\ pc[f] = "render"
      /\ UNCHANGED <<browser, alive, backoff, mu, idle, open, slots, key, on, cur, discard>>
      /\ UNCHANGED closeVars /\ closer' = closer /\ doomed' = doomed
  BY DEF RenderEnds, closeVars
<1>2. PICK l \in {"healthy", "failed"} : pc' = [pc EXCEPT ![f] = l]
  BY DEF RenderEnds, Goto
<1>3. sess' = sess \/ sess' = Down({cur[f]})
  BY DEF RenderEnds
<1>4. /\ pc \in [Fetches -> FetchLocations] /\ slots \in 0..PoolSize /\ slots \in Nat
      /\ cur \in [Fetches -> Sessions \cup {None}] /\ discard \in [Fetches -> SUBSET Sessions]
      /\ key \in [Fetches -> Profiles \cup {None}] /\ on \in [Fetches -> 0..MaxLaunches]
      /\ sess \in [Sessions -> SessionObjects]
      /\ \A t \in Sessions : sess[t].up => sess[t].browser \in alive
  BY FetchTypes
<1>5. /\ sess' \in [Sessions -> SessionObjects]
      /\ \A s \in Sessions : sess'[s].up => sess[s].up
      /\ \A s \in Sessions : sess'[s].browser = sess[s].browser
  <2>1. CASE sess' = sess
    BY <1>4, <2>1
  <2>2. CASE sess' = Down({cur[f]})
    BY <2>2, DownFacts
  <2> QED BY <1>3, <2>1, <2>2
<1>6. UpOnAlive'
  BY <1>1, <1>4, <1>5 DEF UpOnAlive
<1>7. Owned'
  <2>1. \A s \in Range(idle) : sess'[s].browser = browser
    BY <1>5, IdleSessions DEF PoolInv, Owned
  <2> QED BY <1>1, <2>1 DEF PoolInv, Owned
<1>8. Rendering'
  <2>1. \A g \in Fetches : pc'[g] = IF g = f THEN l ELSE pc[g]
    BY <1>2, <1>4
  <2> QED BY <1>1, <2>1 DEF PoolInv, Rendering
<1>9. /\ l \in FetchLocations /\ l \in Past /\ l \in Has /\ l # "launch"
      /\ pc[f] \in Past /\ pc[f] \in Has /\ pc[f] # "launch"
  BY <1>1, <1>2 DEF Past, Has, FetchLocations
<1>10. slots' = slots + (IF l \in Past THEN 1 ELSE 0) - (IF pc[f] \in Past THEN 1 ELSE 0)
  BY <1>1, <1>4, <1>9
<1>11. Counts'
  BY <1>1, <1>2, <1>4, <1>9, <1>10, CountsKept
<1>12. GoodMove
  BY <1>1, <1>4, <1>5, <1>6, <1>7, <1>8, <1>11 DEF GoodMove
<1> QED BY <1>2, <1>9, <1>12, FetchMove

\* A session that cannot be opened gives back its reservation and its slot
\* (playwright.go:385-394).
LEMMA NewSessionFailsInv ==
    ASSUME PoolInv, NEW f \in Fetches, NewSessionFails(f) PROVE PoolInv'
<1> USE DEF browserVars
<1>1. /\ pc[f] = "new" /\ open' = open - 1 /\ slots' = slots - 1 /\ Return(f)
      /\ UNCHANGED <<browser, alive, backoff, mu, idle, sess, discard>>
      /\ UNCHANGED closeVars /\ closer' = closer /\ doomed' = doomed
  BY DEF NewSessionFails, OpenGivenBack, SlotGivenBack, closeVars
<1>2. /\ pc' = [pc EXCEPT ![f] = "out"] /\ cur' = [cur EXCEPT ![f] = None]
      /\ key' \in [Fetches -> Profiles \cup {None}] /\ on' \in [Fetches -> 0..MaxLaunches]
  BY <1>1, ReturnShapes
<1>3. /\ pc \in [Fetches -> FetchLocations] /\ slots \in 0..PoolSize /\ slots \in Nat
      /\ cur \in [Fetches -> Sessions \cup {None}] /\ discard \in [Fetches -> SUBSET Sessions]
      /\ sess \in [Sessions -> SessionObjects] /\ idle \in Seq(Sessions)
      /\ \A t \in Sessions : sess[t].up => sess[t].browser \in alive
  BY FetchTypes
<1>4. /\ "out" \in FetchLocations /\ "out" \notin Past /\ "out" \notin Has
      /\ pc[f] \in Past /\ pc[f] \in Has /\ pc[f] # "launch" /\ "out" # "launch"
  BY <1>1 DEF Past, Has, FetchLocations
<1>5. Owned' /\ cur' \in [Fetches -> Sessions \cup {None}]
  BY <1>1, <1>2, OwnedKept
<1>6. Rendering'
  <2>1. \A g \in Fetches : pc'[g] = IF g = f THEN "out" ELSE pc[g]
    BY <1>2, <1>3
  <2>2. \A g \in Fetches : g # f => cur'[g] = cur[g]
    BY <1>2
  <2> QED BY <2>1, <2>2 DEF PoolInv, Rendering
<1>7. slots' \in 0..PoolSize
  BY <1>1, <1>4, SlotHeld
<1>8. Counts'
  <2>1. Cardinality(Holders') = Cardinality(Holders) - 1
    BY <1>2, <1>3, <1>4, HoldersMove
  <2>2. Cardinality(HasSession') = Cardinality(HasSession) - 1
    BY <1>2, <1>3, <1>4, SessionsMove
  <2>3. open = Len(idle) + Cardinality(HasSession) /\ open <= PoolSize /\ Len(idle) \in Nat
    BY <1>3 DEF PoolInv, Counts, CountsExact
  <2>4. open' = Len(idle') + Cardinality(HasSession') /\ open' <= PoolSize
    BY <1>1, <2>2, <2>3, CountsNat, BrowserAssumption
  <2>5. /\ Cardinality(Holders') <= slots'
        /\ (closer \in {"none", "take", "idle"} => slots' = Cardinality(Holders'))
    BY <1>1, <1>3, <2>1, CountsNat DEF PoolInv, Counts, CountsExact
  <2> QED BY <1>1, <2>4, <2>5 DEF Counts, CountsExact
<1>9. GoodMove
  BY <1>1, <1>2, <1>3, <1>5, <1>6, <1>7, <1>8 DEF GoodMove, UpOnAlive
<1> QED BY <1>2, <1>4, <1>9, FetchMove

\* The session object that release leaves: one use more, or only what its
\* closing needs.
LEMMA ReleasedSession ==
    ASSUME PoolInv, NEW f \in Fetches, Release(f)
    PROVE  /\ cur[f] \in Sessions /\ sess' \in [Sessions -> SessionObjects]
           /\ \A s \in Sessions : sess'[s].up = sess[s].up /\ sess'[s].browser = sess[s].browser
<1>1. sess \in [Sessions -> SessionObjects] /\ cur \in [Fetches -> Sessions \cup {None}]
  BY FetchTypes
<1>2. cur[f] \in Sessions
  <2>1. pc[f] \in {"healthy", "failed"}
    BY DEF Release
  <2> QED BY <1>1, <2>1 DEF PoolInv, Rendering
<1> DEFINE s == sess[cur[f]]
           n == IF Keep(f) THEN Used(s) ELSE Dropped(s)
<1>3. sess' = [sess EXCEPT ![cur[f]] = n]
  BY DEF Release
<1>4. s \in SessionObjects
  BY <1>1, <1>2
<1>5. n \in SessionObjects /\ n.up = s.up /\ n.browser = s.browser
  <2>1. CASE Keep(f)
    <3>1. s.uses + 1 \in 0..MaxSessionUses
      BY <1>4, <2>1, BrowserAssumption DEF Keep, SessionObjects
    <3> HIDE DEF s
    <3>2. Used(s) \in SessionObjects /\ Used(s).up = s.up /\ Used(s).browser = s.browser
      BY <1>4, <3>1 DEF SessionObjects, Used
    <3> QED BY <2>1, <3>2
  <2>2. CASE ~Keep(f)
    <3> HIDE DEF s
    <3>2. s.up \in BOOLEAN /\ s.browser \in 0..MaxLaunches
      BY <1>4 DEF SessionObjects
    <3>3. 0 \in 0..MaxSessionUses
      BY BrowserAssumption
    <3>4. Dropped(s) \in SessionObjects
      BY <3>2, <3>3, Zenon DEF SessionObjects, Dropped
    <3>5. Dropped(s).up = s.up /\ Dropped(s).browser = s.browser
      BY Zenon DEF Dropped
    <3> QED BY <2>2, <3>4, <3>5
  <2> QED BY <2>1, <2>2
<1> HIDE DEF n, s
<1>6. \A t \in Sessions : sess'[t] = IF t = cur[f] THEN n ELSE sess[t]
  BY <1>1, <1>2, <1>3
<1>7. sess' \in [Sessions -> SessionObjects]
  BY <1>1, <1>2, <1>3, <1>5
<1>8. \A t \in Sessions : sess'[t].up = sess[t].up /\ sess'[t].browser = sess[t].browser
  BY <1>5, <1>6 DEF s
<1> QED BY <1>2, <1>7, <1>8

\* release puts a session back or takes it out of the count
\* (playwright.go:397-416).
LEMMA ReleaseInv ==
    ASSUME PoolInv, NEW f \in Fetches, Release(f) PROVE PoolInv'
<1> USE DEF browserVars
<1>1. /\ pc[f] \in {"healthy", "failed"} /\ mu = None /\ cur' = [cur EXCEPT ![f] = None]
      /\ UNCHANGED <<browser, alive, backoff, mu, slots, key, on>>
      /\ UNCHANGED closeVars /\ closer' = closer /\ doomed' = doomed
  BY DEF Release, closeVars
<1>2. /\ pc \in [Fetches -> FetchLocations] /\ slots \in 0..PoolSize /\ slots \in Nat
      /\ cur \in [Fetches -> Sessions \cup {None}] /\ discard \in [Fetches -> SUBSET Sessions]
      /\ key \in [Fetches -> Profiles \cup {None}] /\ on \in [Fetches -> 0..MaxLaunches]
      /\ idle \in Seq(Sessions) /\ doomed \subseteq Sessions
      /\ \A s \in Sessions : sess[s].up => sess[s].browser \in alive
  BY FetchTypes
<1>3. /\ cur[f] \in Sessions /\ sess' \in [Sessions -> SessionObjects]
      /\ \A s \in Sessions : sess'[s].up = sess[s].up /\ sess'[s].browser = sess[s].browser
  BY ReleasedSession
<1>4. UpOnAlive'
  BY <1>1, <1>2, <1>3 DEF UpOnAlive
<1>5. /\ cur' \in [Fetches -> Sessions \cup {None}] /\ cur[f] # None
      /\ \A g \in Fetches : cur'[g] = IF g = f THEN None ELSE cur[g]
  BY <1>1, <1>2, <1>3, NoneIsNone
<1>6. \A s \in Range(idle) : sess'[s].browser = browser
  BY <1>3, IdleSessions DEF PoolInv, Owned
<1>7. pc[f] \in Past /\ pc[f] \in Has /\ pc[f] # "launch"
  BY <1>1 DEF Past, Has, FetchLocations
<1>8. /\ None \notin Range(idle) /\ None \notin doomed
      /\ \A g \in Fetches : None \notin discard[g]
  BY <1>2, NoneIsNone, IdleSessions
<1>9. /\ Len(idle) \in Nat /\ open = Len(idle) + Cardinality(HasSession) /\ open <= PoolSize
  BY <1>2 DEF PoolInv, Counts, CountsExact
<1>10. ASSUME NEW l \in {"free", "drop"}, pc' = [pc EXCEPT ![f] = l], Owned',
              open' = open + (Len(idle') - Len(idle)) - 1, open' <= open, Len(idle') \in Nat,
              idle' = idle \/ (idle' \in Seq(Sessions) /\ mu = None /\ closer = "none"),
              discard' \in [Fetches -> SUBSET Sessions]
       PROVE  PoolInv'
  <2>1. l \in FetchLocations /\ l \in Past /\ l \notin Has /\ l # "launch"
    BY DEF Past, Has, FetchLocations
  <2>2. Rendering'
    <3>1. \A g \in Fetches : pc'[g] = IF g = f THEN l ELSE pc[g]
      BY <1>2, <1>10
    <3> QED BY <1>5, <3>1 DEF PoolInv, Rendering
  <2>3. Counts'
    <3>1. Cardinality(Holders') = Cardinality(Holders)
      BY <1>2, <1>7, <1>10, <2>1, HoldersMove
    <3>2. Cardinality(HasSession') = Cardinality(HasSession) - 1
      BY <1>2, <1>7, <1>10, <2>1, SessionsMove
    <3>3. open' = Len(idle') + Cardinality(HasSession') /\ open' <= PoolSize
      BY <1>9, <1>10, <3>2, CountsNat, BrowserAssumption
    <3> QED BY <1>1, <3>1, <3>3 DEF PoolInv, Counts, CountsExact
  <2>4. GoodMove
    BY <1>1, <1>2, <1>3, <1>4, <1>5, <1>10, <2>2, <2>3 DEF GoodMove
  <2> QED BY <1>7, <1>10, <2>1, <2>4, FetchMove
<1>11. CASE Keep(f)
  <2>1. /\ idle' = Append(idle, cur[f]) /\ pc' = [pc EXCEPT ![f] = "free"]
        /\ open' = open /\ discard' = discard
    BY <1>11 DEF Release, Goto
  <2>2. sess[cur[f]].browser = browser /\ ~closed
    BY <1>11 DEF Keep
  <2>3. closer = "none" /\ doomed = {}
    BY <2>2 DEF PoolInv, Closing
  <2>4. cur[f] \notin Range(idle) /\ NoDup(idle)
    BY DEF PoolInv, Owned
  <2>5. idle' \in Seq(Sessions) /\ Range(idle') = Range(idle) \cup {cur[f]} /\ NoDup(idle')
    BY <1>2, <1>3, <2>1, <2>4, AppendFacts
  <2>6. Len(idle') = Len(idle) + 1
    BY <1>2, <1>3, <2>1
  <2>7. Owned'
    <3>1. \A g, h \in Fetches : g # h /\ cur'[g] # None => cur'[g] # cur'[h]
      BY <1>5 DEF PoolInv, Owned
    <3>2. \A g \in Fetches : cur'[g] \notin Range(idle') /\ cur'[g] \notin doomed
      BY <1>3, <1>5, <1>8, <2>5, NoneIsNone DEF PoolInv, Owned
    <3>3. \A g, h \in Fetches : cur'[g] \notin discard[h]
      BY <1>5, <1>8 DEF PoolInv, Owned
    <3>4. \A g \in Fetches : \A s \in discard[g] : s \notin Range(idle') /\ s \notin doomed
      BY <2>5 DEF PoolInv, Owned
    <3>5. \A s \in Range(idle') : sess'[s].browser = browser
      BY <1>3, <1>6, <2>2, <2>5
    <3> QED BY <1>1, <2>1, <2>5, <3>1, <3>2, <3>3, <3>4, <3>5 DEF Owned
  <2>8. open' = open + (Len(idle') - Len(idle)) - 1 /\ open' <= open /\ Len(idle') \in Nat
    BY <1>9, <2>1, <2>6, CountsNat
  <2> QED BY <1>1, <1>2, <1>10, <2>1, <2>3, <2>5, <2>7, <2>8
<1>12. CASE ~Keep(f)
  <2>1. /\ idle' = idle /\ pc' = [pc EXCEPT ![f] = "drop"]
        /\ open' = open - 1 /\ discard' = [discard EXCEPT ![f] = {cur[f]}]
    BY <1>12 DEF Release, Goto
  <2>2. /\ discard' \in [Fetches -> SUBSET Sessions]
        /\ \A g \in Fetches : discard'[g] = IF g = f THEN {cur[f]} ELSE discard[g]
    BY <1>2, <1>3, <2>1
  <2>3. Owned'
    <3>1. \A g, h \in Fetches : g # h /\ cur'[g] # None => cur'[g] # cur'[h]
      BY <1>5 DEF PoolInv, Owned
    <3>2. \A g \in Fetches : cur'[g] \notin Range(idle) /\ cur'[g] \notin doomed
      BY <1>5, <1>8 DEF PoolInv, Owned
    <3>3. \A g, h \in Fetches : cur'[g] \notin discard'[h]
      BY <1>5, <1>8, <2>2 DEF PoolInv, Owned
    <3>4. \A g \in Fetches : \A s \in discard'[g] : s \notin Range(idle) /\ s \notin doomed
      BY <2>2 DEF PoolInv, Owned
    <3> QED BY <1>1, <1>6, <2>1, <3>1, <3>2, <3>3, <3>4 DEF PoolInv, Owned
  <2>4. open' = open + (Len(idle') - Len(idle)) - 1 /\ open' <= open /\ Len(idle') \in Nat
    BY <1>9, <2>1, CountsNat
  <2> QED BY <1>10, <2>1, <2>2, <2>3, <2>4
<1> QED BY <1>11, <1>12
-----------------------------------------------------------------------------
\* Close, up to the idle sessions (playwright.go:541-556).
LEMMA CloseIdleInv ==
    ASSUME PoolInv, CloseBegins \/ CloseTakesIdle \/ CloseIdle PROVE PoolInv'
<1> USE DEF browserVars, poolVars, fetchVars
<1>1. /\ UNCHANGED <<browser, alive, backoff, slots, mu, pc, key, on, cur, discard>>
      /\ closer' # "done" /\ closer # "done"
  BY DEF CloseBegins, CloseTakesIdle, CloseIdle
<1>2. Holders' = Holders /\ HasSession' = HasSession
  BY <1>1 DEF Holders, HasSession
<1>3. idle \in Seq(Sessions) /\ Len(idle) \in Nat
  BY DEF PoolInv, BrowserTypeOK
<1>4. open = Len(idle) + Cardinality(HasSession) /\ open <= PoolSize
  BY DEF PoolInv, Counts, CountsExact
<1>5. Rendering'
  BY <1>1 DEF PoolInv, Rendering
<1>6. CASE CloseBegins
  <2>1. closer = "none" /\ closer' = "take" /\ closed' = TRUE /\ UNCHANGED <<idle, open, sess, doomed>>
    BY <1>6 DEF CloseBegins
  <2>2. BrowserTypeOK' /\ BrowserRuns' /\ Launching'
    BY <1>1, <2>1 DEF PoolInv, BrowserTypeOK, BrowserRuns, Launching
  <2>3. Closing' /\ Owned'
    BY <1>1, <2>1 DEF PoolInv, Closing, Owned
  <2>4. Counts'
    BY <1>1, <1>2, <2>1 DEF PoolInv, Counts, CountsExact
  <2> QED BY <1>5, <2>2, <2>3, <2>4 DEF PoolInv
<1>7. CASE CloseTakesIdle
  <2>1. /\ closer = "take" /\ closer' = "idle" /\ doomed' = Range(idle) /\ idle' = <<>>
        /\ open' = open - Len(idle) /\ UNCHANGED <<sess, closed>>
    BY <1>7 DEF CloseTakesIdle
  <2>2. idle' \in Seq(Sessions) /\ NoDup(idle') /\ Range(idle') = {} /\ Len(idle') = 0
    BY <2>1, EmptyList
  <2>3. BrowserTypeOK' /\ BrowserRuns' /\ Launching'
    BY <1>1, <2>1, <2>2, IdleSessions DEF PoolInv, BrowserTypeOK, BrowserRuns, Launching
  <2>4. Closing'
    BY <1>1, <2>1 DEF PoolInv, Closing
  <2>5. Owned'
    BY <1>1, <2>1, <2>2 DEF PoolInv, Owned
  <2>6. open' = Len(idle') + Cardinality(HasSession') /\ open' <= PoolSize
    BY <1>2, <1>3, <1>4, <2>1, <2>2, CountsNat, BrowserAssumption
  <2>7. Counts'
    BY <1>1, <1>2, <2>1, <2>6 DEF PoolInv, Counts, CountsExact
  <2> QED BY <1>5, <2>3, <2>4, <2>5, <2>7 DEF PoolInv
<1>8. CASE CloseIdle
  <2>1. /\ closer = "idle" /\ closer' = "drain" /\ doomed' = {} /\ sess' = Closed(doomed)
        /\ UNCHANGED <<idle, open, closed>>
    BY <1>8 DEF CloseIdle
  <2>2. /\ sess' \in [Sessions -> SessionObjects]
        /\ \A s \in Sessions : sess'[s].up => sess[s].up /\ s \notin doomed
        /\ \A s \in Sessions : s \notin doomed => sess'[s] = sess[s]
    BY <2>1, ClosedFacts
  <2>3. idle = <<>> /\ Range(idle) = {}
    BY <2>1, <1>3, EmptyRange DEF PoolInv, Closing
  <2>4. BrowserTypeOK' /\ Launching'
    BY <1>1, <2>1, <2>2 DEF PoolInv, BrowserTypeOK, SessionObjects, Launching
  <2>5. BrowserRuns'
    BY <1>1, <2>1, <2>2 DEF PoolInv, BrowserRuns
  <2>6. Closing' /\ Owned'
    BY <1>1, <2>1, <2>3 DEF PoolInv, Closing, Owned
  <2>7. Counts'
    BY <1>1, <1>2, <2>1 DEF PoolInv, Counts, CountsExact
  <2> QED BY <1>5, <2>4, <2>5, <2>6, <2>7 DEF PoolInv
<1> QED BY <1>6, <1>7, <1>8

\* Close drains the slots, or stops waiting for them (playwright.go:558-567).
LEMMA DrainInv ==
    ASSUME PoolInv, CloseDrains \/ DrainTimesOut PROVE PoolInv'
<1> USE DEF browserVars, poolVars, fetchVars
<1>1. /\ UNCHANGED <<browser, alive, backoff, idle, open, sess, mu, pc, key, on, cur, discard>>
      /\ UNCHANGED <<closed, doomed>>
      /\ closer = "drain" /\ closer' \in {"drain", "stop"}
  BY DEF CloseDrains, DrainTimesOut
<1>2. Holders' = Holders /\ HasSession' = HasSession
  BY <1>1 DEF Holders, HasSession
<1>3. slots' \in 0..PoolSize /\ slots <= slots' /\ slots \in Nat
  BY BrowserAssumption DEF CloseDrains, DrainTimesOut, PoolInv, BrowserTypeOK
<1>4. BrowserTypeOK'
  BY <1>1, <1>3 DEF PoolInv, BrowserTypeOK
<1>5. BrowserRuns' /\ Launching' /\ Closing'
  BY <1>1 DEF PoolInv, BrowserRuns, Launching, Closing
<1>6. Owned' /\ Rendering'
  BY <1>1 DEF PoolInv, Owned, Rendering
<1>7. Counts'
  <2>1. Cardinality(Holders) <= slots'
    BY <1>3, CountsNat DEF PoolInv, Counts
  <2> QED BY <1>1, <1>2, <2>1 DEF PoolInv, Counts, CountsExact
<1> QED BY <1>4, <1>5, <1>6, <1>7 DEF PoolInv

\* The browser is stopped, or dies: its sessions go with it
\* (playwright.go:569-582).
LEMMA BrowserEndsInv ==
    ASSUME PoolInv, CloseStops \/ BrowserDies PROVE PoolInv'
<1> USE DEF poolVars, fetchVars, closeVars
<1>1. /\ UNCHANGED <<browser, backoff, idle, open, slots, mu, pc, key, on, cur, discard>>
      /\ UNCHANGED <<closed, doomed>>
      /\ alive' = alive \ {browser} /\ sess' = Down({s \in Sessions : sess[s].browser = browser})
  BY DEF CloseStops, BrowserDies
<1>2. mu = None
  BY DEF CloseStops, BrowserDies, PoolInv, Launching, Connected
<1>3. alive' = {}
  BY <1>1 DEF PoolInv, BrowserRuns
<1>4. /\ sess' \in [Sessions -> SessionObjects]
      /\ \A s \in Sessions : sess'[s].up => sess[s].up /\ sess[s].browser # browser
      /\ \A s \in Sessions : sess'[s].browser = sess[s].browser
  BY <1>1, DownFacts
<1>5. \A s \in Sessions : ~sess'[s].up
  BY <1>4 DEF PoolInv, BrowserRuns
<1>6. \/ closer = "stop" /\ closer' = "done"
      \/ closer' = closer /\ browser < MaxLaunches
  BY DEF CloseStops, BrowserDies
<1>7. Holders' = Holders /\ HasSession' = HasSession
  BY <1>1 DEF Holders, HasSession
<1>8. BrowserTypeOK'
  BY <1>1, <1>3, <1>4, <1>6 DEF PoolInv, BrowserTypeOK, SessionObjects
<1>9. BrowserRuns'
  BY <1>1, <1>3, <1>5, <1>6 DEF PoolInv, BrowserRuns
<1>10. Launching' /\ Closing'
  BY <1>1, <1>2, <1>6 DEF PoolInv, Launching, Closing
<1>11. Owned' /\ Rendering'
  <2>1. \A s \in Range(idle) : sess'[s].browser = browser
    BY <1>4, IdleSessions DEF PoolInv, Owned
  <2> QED BY <1>1, <2>1 DEF PoolInv, Owned, Rendering
<1>12. Counts'
  BY <1>1, <1>6, <1>7 DEF PoolInv, Counts, CountsExact
<1> QED BY <1>8, <1>9, <1>10, <1>11, <1>12 DEF PoolInv

\* A page crashes, or a backoff ends (playwright.go:436-438, 529-539).
LEMMA PageCrashInv ==
    ASSUME PoolInv, BackoffEnds \/ \E s \in Sessions : PageCrash(s) PROVE PoolInv'
<1> USE DEF browserVars, poolVars, fetchVars, closeVars
<1>1. /\ UNCHANGED <<browser, alive, idle, open, slots, mu, pc, key, on, cur, discard>>
      /\ UNCHANGED <<closed, closer, doomed>> /\ backoff' \in BOOLEAN
  BY DEF BackoffEnds, PageCrash, PoolInv, BrowserTypeOK
<1>2. /\ sess' \in [Sessions -> SessionObjects]
      /\ \A t \in Sessions : sess'[t].up = sess[t].up /\ sess'[t].browser = sess[t].browser
  <2>1. CASE BackoffEnds
    BY <2>1, SessTyped DEF BackoffEnds
  <2>2. CASE \E s \in Sessions : PageCrash(s)
    <3>1. PICK s \in Sessions : sess' = [sess EXCEPT ![s].crashed = TRUE]
      BY <2>2 DEF PageCrash
    <3> DEFINE o == sess[s]
               n == [o EXCEPT !.crashed = TRUE]
    <3>2. o \in SessionObjects
      BY SessTyped
    <3>3. sess' = [sess EXCEPT ![s] = n]
      BY <3>1
    <3> HIDE DEF o
    <3>4. n \in SessionObjects /\ n.up = o.up /\ n.browser = o.browser
      BY <3>2 DEF SessionObjects
    <3> HIDE DEF n
    <3>5. \A t \in Sessions : sess'[t] = IF t = s THEN n ELSE sess[t]
      BY <3>3, SessTyped
    <3>6. sess' \in [Sessions -> SessionObjects]
      BY <3>3, <3>4, SessTyped
    <3> QED BY <3>4, <3>5, <3>6 DEF o
  <2> QED BY <2>1, <2>2
<1>3. Holders' = Holders /\ HasSession' = HasSession
  BY <1>1 DEF Holders, HasSession
<1>4. BrowserTypeOK'
  BY <1>1, <1>2 DEF PoolInv, BrowserTypeOK, SessionObjects
<1>5. BrowserRuns' /\ Launching' /\ Closing'
  BY <1>1, <1>2 DEF PoolInv, BrowserRuns, Launching, Closing
<1>6. Owned' /\ Rendering'
  <2>1. \A s \in Range(idle) : sess'[s].browser = browser
    BY <1>2, IdleSessions DEF PoolInv, Owned
  <2> QED BY <1>1, <2>1 DEF PoolInv, Owned, Rendering
<1>7. Counts'
  BY <1>1, <1>3 DEF PoolInv, Counts, CountsExact
<1> QED BY <1>4, <1>5, <1>6, <1>7 DEF PoolInv
-----------------------------------------------------------------------------
\* The invariant holds of a new fetcher (playwright.go:120-160).
LEMMA PoolInit == Init => PoolInv
<1> SUFFICES ASSUME Init PROVE PoolInv
  OBVIOUS
<1> USE DEF Init
<1>1. idle \in Seq(Sessions) /\ NoDup(idle) /\ Range(idle) = {} /\ Len(idle) = 0
  BY EmptyList
<1>2. \A s \in Sessions : sess[s] = NoSession
  OBVIOUS
<1>3. sess \in [Sessions -> SessionObjects] /\ \A s \in Sessions : sess[s].up = FALSE
  BY <1>2, NoSessionObject
<1>4. BrowserTypeOK
  <2>1. browser \in 1..MaxLaunches /\ alive \subseteq 1..MaxLaunches /\ slots \in 0..PoolSize
    BY BrowserAssumption
  <2>2. sess \in [Sessions -> [up : BOOLEAN, browser : 0..MaxLaunches, key : Profiles \cup {None},
                              uses : 0..MaxSessionUses, crashed : BOOLEAN]]
    BY <1>3, Zenon DEF SessionObjects
  <2>3. /\ pc \in [Fetches -> FetchLocations] /\ key \in [Fetches -> Profiles \cup {None}]
        /\ on \in [Fetches -> 0..MaxLaunches] /\ cur \in [Fetches -> Sessions \cup {None}]
        /\ discard \in [Fetches -> SUBSET Sessions]
    BY BrowserAssumption DEF FetchLocations
  <2>4. backoff \in BOOLEAN /\ closed \in BOOLEAN /\ mu \in Fetches \cup {None}
        /\ closer \in {"none", "take", "idle", "drain", "stop", "done"} /\ doomed \subseteq Sessions
    OBVIOUS
  <2> QED BY <1>1, <2>1, <2>2, <2>3, <2>4, Zenon DEF BrowserTypeOK
<1>5. BrowserRuns /\ Launching /\ Closing
  BY <1>3, NoneIsNone DEF BrowserRuns, Launching, Closing
<1>6. Owned /\ Rendering
  BY <1>1 DEF Owned, Rendering
<1>7. Holders = {} /\ HasSession = {}
  BY DEF Holders, HasSession
<1>8. Counts
  BY <1>1, <1>7, FS_EmptySet, BrowserAssumption DEF Counts, CountsExact
<1> QED BY <1>4, <1>5, <1>6, <1>8 DEF PoolInv

\* Every step keeps it.
LEMMA PoolStep == PoolInv /\ [Next]_vars => PoolInv'
<1> SUFFICES ASSUME PoolInv, [Next]_vars PROVE PoolInv'
  OBVIOUS
<1>1. ASSUME NEW f \in Fetches, CallFetch(f) \/ GiveUp(f) \/ FetchStep(f) PROVE PoolInv'
  <2>1. CASE CallFetch(f) \/ TakeSlot(f) \/ GiveUp(f) \/ CheckClosed(f) \/ NoBrowser(f) \/ FreeSlot(f)
    BY <2>1, SlotInv
  <2>2. CASE Launch(f)
    BY <2>2, LaunchInv
  <2>3. CASE LaunchFails(f)
    BY <2>3, LaunchFailsInv
  <2>4. CASE LaunchSucceeds(f)
    BY <2>4, LaunchSucceedsInv
  <2>5. CASE Acquire(f)
    BY <2>5, AcquireInv
  <2>6. CASE CloseDiscarded(f) \/ CloseReleased(f)
    BY <2>6, CloseOwnInv
  <2>7. CASE NewSession(f)
    BY <2>7, NewSessionInv
  <2>8. CASE NewSessionFails(f)
    BY <2>8, NewSessionFailsInv
  <2>9. CASE RenderEnds(f)
    BY <2>9, RenderEndsInv
  <2>10. CASE Release(f)
    BY <2>10, ReleaseInv
  <2> QED BY <1>1, <2>1, <2>2, <2>3, <2>4, <2>5, <2>6, <2>7, <2>8, <2>9, <2>10 DEF FetchStep
<1>2. CASE CloseBegins \/ CloseTakesIdle \/ CloseIdle
  BY <1>2, CloseIdleInv
<1>3. CASE CloseDrains \/ DrainTimesOut
  BY <1>3, DrainInv
<1>4. CASE CloseStops \/ BrowserDies
  BY <1>4, BrowserEndsInv
<1>5. CASE BackoffEnds \/ \E s \in Sessions : PageCrash(s)
  BY <1>5, PageCrashInv
<1>6. CASE UNCHANGED vars
  <2>1. /\ UNCHANGED <<browser, alive, backoff, idle, open, sess, slots, mu>>
        /\ UNCHANGED <<pc, key, on, cur, discard, closed, closer, doomed>>
    BY <1>6 DEF vars, browserVars, poolVars, fetchVars, closeVars
  <2>2. Holders' = Holders /\ HasSession' = HasSession
    BY <2>1 DEF Holders, HasSession
  <2>3. BrowserTypeOK' /\ BrowserRuns' /\ Launching' /\ Closing'
    BY <2>1 DEF PoolInv, BrowserTypeOK, BrowserRuns, Launching, Closing
  <2>4. Owned' /\ Rendering' /\ Counts'
    BY <2>1, <2>2 DEF PoolInv, Owned, Rendering, Counts, CountsExact
  <2> QED BY <2>3, <2>4 DEF PoolInv
<1> QED BY <1>1, <1>2, <1>3, <1>4, <1>5, <1>6 DEF Next, CloseStep

\* The invariant holds in every reachable state.
LEMMA PoolInvariant == Spec => []PoolInv
  BY PoolInit, PoolStep, PTL DEF Spec
-----------------------------------------------------------------------------
(***************************************************************************)
(* Every variable keeps its type: no slot count leaves 0..PoolSize and no  *)
(* session is used more often than MaxSessionUses (playwright.go:51-75).   *)
(***************************************************************************)
THEOREM BrowserTypeCorrect == Spec => []BrowserTypeOK
<1>1. PoolInv => BrowserTypeOK
  BY DEF PoolInv
<1> QED BY <1>1, PoolInvariant, PTL

(***************************************************************************)
(* slots and open are exact on every path of acquire, release and Close,   *)
(* for every pool size (playwright.go:327-416, 541-570).                   *)
(***************************************************************************)
THEOREM CountsStayExact == Spec => []CountsExact
<1>1. PoolInv => CountsExact
  BY DEF PoolInv, Counts
<1> QED BY <1>1, PoolInvariant, PTL

(***************************************************************************)
(* No session has two owners: acquire, release, eviction and Close hand    *)
(* each one on or close it, never both (playwright.go:346-421, 544-556).   *)
(***************************************************************************)
THEOREM SessionsHaveOneOwner == Spec => []OneOwner
<1>1. ASSUME PoolInv PROVE OneOwner
  <2>1. Cardinality(Range(idle)) = Len(idle)
    BY <1>1, NoDupLength DEF PoolInv, BrowserTypeOK, Owned
  <2> QED BY <1>1, <2>1 DEF PoolInv, Owned, OneOwner
<1> QED BY <1>1, PoolInvariant, PTL

(***************************************************************************)
(* Every idle session is on the current browser (playwright.go:403-404,    *)
(* 439-450).                                                               *)
(***************************************************************************)
THEOREM IdleSessionsAreCurrent == Spec => []IdleOnCurrentBrowser
<1>1. PoolInv => IdleOnCurrentBrowser
  BY DEF PoolInv, Owned, IdleOnCurrentBrowser
<1> QED BY <1>1, PoolInvariant, PTL

(***************************************************************************)
(* When Close has returned no browser runs and no session is open or idle, *)
(* whatever fetches and launches it overtook (playwright.go:541-582).      *)
(***************************************************************************)
THEOREM CloseStopsEverything == Spec => []CloseLeavesNothing
<1>1. PoolInv => CloseLeavesNothing
  BY DEF PoolInv, BrowserRuns, Closing, CloseLeavesNothing
<1> QED BY <1>1, PoolInvariant, PTL
=============================================================================
