-------------------------- MODULE ProxyPoolProofs --------------------------
(***************************************************************************)
(* Proofs about ProxyPool for every set of workers and proxies, every      *)
(* list, both strategies and every cooldown configuration.                 *)
(***************************************************************************)
EXTENDS ProxyPool, TLAPS

\* Nobody scans while pl.mu is free, so Reload never changes the list under
\* a running Next.
ScanIdle == mu = None => scan = NoScan

\* The index by URL points into the list, so Reload never recycles an object
\* that it keeps.
IndexInPool == \A u \in URLs : byURL[u] # None => InPool(byURL[u])

PoolInv ==
    PoolTypeOK /\ ScanIdle /\ IndexInPool /\ CooldownBounded /\ FailsBelowThreshold

\* The cap is a duration (pool.go:394-397).
LEMMA MaxCooldownNat == MaxCooldown \in Nat
  BY BanAssumption DEF MaxCooldown

\* An escalated cooldown never exceeds the cap (pool.go:398-404).
LEMMA EscalatedRange ==
    ASSUME NEW s PROVE Escalated(s) \in 0..MaxCooldown
  BY MaxCooldownNat DEF Escalated

\* OrDirect never returns an empty list (pool.go:203-205, 224-226).
LEMMA OrDirectNonEmpty ==
    ASSUME NEW urls \in Seq(URLs)
    PROVE  OrDirect(urls) \in Seq(URLs) /\ Len(OrDirect(urls)) \in Nat \ {0}
  BY ListsAssumption DEF OrDirect

\* What the index holds is an entry of the list (pool.go:210, 233, 238).
LEMMA IndexEntry ==
    ASSUME NEW list \in Seq(URLs), NEW entries,
           NEW f \in IndexByURL(list, entries), NEW u \in URLs, f[u] # None
    PROVE  \E i \in 1..Len(list) : list[i] = u /\ f[u] = entries[i]
  BY DEF IndexByURL

\* The index maps URLs to objects.
LEMMA IndexType ==
    ASSUME NEW list, NEW entries, NEW f \in IndexByURL(list, entries)
    PROVE  f \in [URLs -> Objects \cup {None}]
  BY DEF IndexByURL

\* NewPool starts with nothing cooling (pool.go:192-212).
LEMMA PoolInitInv == PoolInit => PoolInv
  <1> SUFFICES ASSUME PoolInit PROVE PoolInv
    OBVIOUS
  <1>1. PICK urls \in FirstLists :
           LET list == OrDirect(urls) IN
           /\ proxies \in Injection(1..Len(list), Objects)
           /\ url = [o \in Objects |->
                    IF InPool(o) THEN list[CHOOSE i \in 1..Len(list) : proxies[i] = o]
                                 ELSE Direct]
           /\ byURL \in IndexByURL(list, proxies)
    BY DEF PoolInit
  <1> DEFINE list == OrDirect(urls)
  <1>2. list \in Seq(URLs) /\ Len(list) \in Nat \ {0}
    BY OrDirectNonEmpty, ListsAssumption
  <1> HIDE DEF list
  <1>3. proxies \in [1..Len(list) -> Objects]
    BY <1>1 DEF Injection, list
  <1>4. proxies \in Seq(Objects) /\ Len(proxies) = Len(list)
    BY <1>2, <1>3
  <1>5. \A o \in Objects : InPool(o) =>
            list[CHOOSE i \in 1..Len(list) : proxies[i] = o] \in URLs
    BY <1>2, <1>4 DEF InPool
  <1>6. url \in [Objects -> URLs]
    BY <1>1, <1>5, ListsAssumption DEF list
  <1>7. byURL \in IndexByURL(list, proxies)
    BY <1>1 DEF list
  <1>8. PoolTypeOK
    BY <1>2, <1>4, <1>6, <1>7, IndexType, MaxStreakAssumption
    DEF PoolInit, PoolTypeOK, NoScan
  <1>9. IndexInPool
    BY <1>2, <1>4, <1>7, IndexEntry DEF IndexInPool, InPool
  <1> QED
    BY <1>8, <1>9, MaxCooldownNat, BanAssumption
    DEF PoolInit, PoolInv, ScanIdle, CooldownBounded, FailsBelowThreshold

-----------------------------------------------------------------------------
\* Next, up to the lock, keeps the invariant (pool.go:247-249).
LEMMA NextCallInv ==
    ASSUME PoolInv, NEW w \in Workers, NextCall(w) PROVE PoolInv'
  BY NoneAssumption
  DEF PoolInv, PoolTypeOK, ScanIdle, IndexInPool, InPool, CooldownBounded,
      FailsBelowThreshold, NextCall, NoScan

\* An inspection stays inside the list and keeps the invariant
\* (pool.go:261-330).
LEMMA NextInspectInv ==
    ASSUME PoolInv, NEW w \in Workers, NextInspect(w) PROVE PoolInv'
  <1> USE DEF PoolInv
  <1>1. mu = w /\ mu # None
    BY NoneAssumption DEF NextInspect, InspectRoundRobin, InspectHealthy
  <1>2. Len(proxies) \in Nat /\ idx \in 0..Len(proxies) - 1
        /\ scan.inspected \in 0..Len(proxies) - 1 /\ scan.healthy \subseteq Objects
    BY DEF PoolTypeOK
  <1>3. proxies[idx + 1] \in Objects /\ proxies[scan.inspected + 1] \in Objects
    <2>1. \A i \in 1..Len(proxies) : proxies[i] \in Objects
      BY DEF PoolTypeOK
    <2>2. idx + 1 \in 1..Len(proxies) /\ scan.inspected + 1 \in 1..Len(proxies)
      BY <1>2
    <2> QED BY <2>1, <2>2
  <1>4. UNCHANGED <<url, proxies, byURL, fails, cool, streak>>
    BY DEF NextInspect, InspectRoundRobin, InspectHealthy
  <1>5. idx' \in 0..Len(proxies) - 1
    BY <1>2 DEF NextInspect, InspectRoundRobin, InspectHealthy, IdxAfter
  <1>6. \/ \E o \in Objects : HandOut(w, o)
        \/ ErrAllBanned(w)
        \/ \E o \in Objects : ~LastInspection /\ InspectMore(o)
    BY <1>2, <1>3
    DEF NextInspect, InspectRoundRobin, InspectHealthy
  <1>7. /\ mu' \in Workers \cup {None}
        /\ scan' \in [inspected : 0..Len(proxies) - 1, healthy : SUBSET Objects]
        /\ got' \in [Workers -> Objects \cup {None}]
        /\ ScanIdle'
    <2>1. CASE \E o \in Objects : HandOut(w, o)
      BY <2>1, <1>2 DEF HandOut, ScanIdle, NoScan, PoolTypeOK
    <2>2. CASE ErrAllBanned(w)
      BY <2>2, <1>2 DEF ErrAllBanned, ScanIdle, NoScan, PoolTypeOK
    <2>3. CASE \E o \in Objects : ~LastInspection /\ InspectMore(o)
      <3> PICK o \in Objects : ~LastInspection /\ InspectMore(o)
        BY <2>3
      <3>1. scan.inspected + 1 \in 0..Len(proxies) - 1
        BY <1>2 DEF LastInspection
      <3>2. scan.healthy \in SUBSET Objects /\ scan.healthy \cup {o} \in SUBSET Objects
        BY <1>2
      <3>3. scan' \in [inspected : 0..Len(proxies) - 1, healthy : SUBSET Objects]
        BY <3>1, <3>2 DEF InspectMore
      <3> QED BY <1>1, <3>3 DEF InspectMore, ScanIdle, PoolTypeOK
    <2> QED BY <1>6, <2>1, <2>2, <2>3
  <1>8. PoolTypeOK'
    BY <1>4, <1>5, <1>7 DEF PoolTypeOK
  <1> QED
    BY <1>4, <1>7, <1>8
    DEF IndexInPool, InPool, CooldownBounded, FailsBelowThreshold

\* Time keeps the invariant.
LEMMA TickInv ==
    ASSUME PoolInv, Tick PROVE PoolInv'
  <1> USE DEF PoolInv
  <1>1. \A o \in Objects : cool'[o] \in Nat /\ cool'[o] <= cool[o]
    BY DEF Tick, PoolTypeOK
  <1>2. PoolTypeOK'
    <2>1. cool' \in [Objects -> Nat]
      BY <1>1 DEF Tick
    <2> QED BY <2>1 DEF Tick, PoolTypeOK
  <1>3. CooldownBounded'
    <2> SUFFICES ASSUME NEW o \in Objects
                 PROVE  \/ cool'[o] <= MaxCooldown
                        \/ \E ra \in RetryAfters : cool'[o] <= ra
      BY DEF CooldownBounded, MaxCooldown
    <2>1. cool[o] \in Nat /\ cool'[o] \in Nat /\ cool'[o] <= cool[o]
      BY <1>1 DEF PoolTypeOK
    <2>2. CASE cool[o] <= MaxCooldown
      BY <2>1, <2>2, MaxCooldownNat
    <2>3. CASE \E ra \in RetryAfters : cool[o] <= ra
      BY <2>1, <2>3, BanAssumption
    <2> QED BY <2>2, <2>3 DEF CooldownBounded
  <1> QED
    BY <1>2, <1>3 DEF Tick, ScanIdle, IndexInPool, InPool, FailsBelowThreshold

-----------------------------------------------------------------------------
\* A duration that the cooldown bound allows.
Allowed(d) == d <= MaxCooldown \/ \E ra \in RetryAfters : d <= ra

\* Cooling a proxy for an allowed duration keeps the bound and starts the
\* failure count again (pool.go:413-421).
LEMMA CoolForFacts ==
    ASSUME PoolInv, NEW o \in Objects, NEW d \in Nat, Allowed(d), CoolFor(o, d)
    PROVE  /\ cool' \in [Objects -> Nat]
           /\ fails' \in [Objects -> Nat]
           /\ CooldownBounded'
           /\ FailsBelowThreshold'
  <1> USE DEF PoolInv
  <1>1. cool \in [Objects -> Nat] /\ fails \in [Objects -> Nat]
    BY DEF PoolTypeOK
  <1>2. cool' \in [Objects -> Nat] /\ fails' \in [Objects -> Nat]
    BY <1>1 DEF CoolFor, Extended
  <1>3. \A p \in Objects : Allowed(cool'[p])
    <2> SUFFICES ASSUME NEW p \in Objects PROVE Allowed(cool'[p])
      OBVIOUS
    <2>1. cool'[p] = cool[p] \/ cool'[p] = d
      BY <1>1 DEF CoolFor, Extended
    <2>2. Allowed(cool[p])
      BY DEF CooldownBounded, Allowed
    <2> QED BY <2>1, <2>2
  <1>4. CooldownBounded'
    BY <1>3 DEF CooldownBounded, Allowed, MaxCooldown
  <1>5. FailsBelowThreshold'
    BY <1>1, BanAssumption DEF CoolFor, FailsBelowThreshold
  <1> QED BY <1>2, <1>4, <1>5

\* So does an escalated cooldown, which advances the streak (pool.go:393-407).
LEMMA CoolEscalatedFacts ==
    ASSUME PoolInv, NEW o \in Objects, CoolEscalated(o)
    PROVE  /\ cool' \in [Objects -> Nat]
           /\ fails' \in [Objects -> Nat]
           /\ streak' \in [Objects -> 0..MaxStreak]
           /\ CooldownBounded'
           /\ FailsBelowThreshold'
  <1> DEFINE d == Escalated(streak[o])
  <1>1. d \in Nat /\ d <= MaxCooldown
    BY EscalatedRange, MaxCooldownNat
  <1>2. CoolFor(o, d)
    BY DEF CoolEscalated
  <1> HIDE DEF d
  <1>3. Allowed(d)
    BY <1>1 DEF Allowed
  <1>4. streak' \in [Objects -> 0..MaxStreak]
    <2>1. streak \in [Objects -> 0..MaxStreak]
      BY DEF PoolInv, PoolTypeOK
    <2>2. streak[o] + 1 \in 0..MaxStreak
      BY <2>1, MaxStreakAssumption DEF CoolEscalated
    <2>3. streak' = [streak EXCEPT ![o] = streak[o] + 1]
      BY <2>1 DEF CoolEscalated
    <2> QED BY <2>1, <2>2, <2>3
  <1> QED BY <1>1, <1>2, <1>3, <1>4, CoolForFacts

\* What a report leaves: the pool's list and lock, and the reporter without
\* a proxy.
LEMMA ReportsFrame ==
    ASSUME PoolInv, NEW w \in Workers, Reports(w),
           cool' \in [Objects -> Nat],
           fails' \in [Objects -> Nat],
           streak' \in [Objects -> 0..MaxStreak],
           CooldownBounded', FailsBelowThreshold'
    PROVE  PoolInv'
  BY DEF PoolInv, PoolTypeOK, Reports, ScanIdle, IndexInPool, InPool

\* Every outcome keeps the invariant (pool.go:357-389).
LEMMA ReportOutcomeInv ==
    ASSUME PoolInv, NEW w \in Workers, ReportOutcome(w) PROVE PoolInv'
  <1>1. Reports(w)
    BY DEF ReportOutcome, ReportSuccess, ReportNeutral, ReportFailure,
           ReportBlocked, ReportRateLimited
  <1>2. got[w] \in Objects
    BY <1>1 DEF Reports, PoolInv, PoolTypeOK
  <1>3. /\ cool \in [Objects -> Nat] /\ fails \in [Objects -> Nat]
        /\ streak \in [Objects -> 0..MaxStreak]
    BY DEF PoolInv, PoolTypeOK
  <1>4. CASE ReportSuccess(w)
    <2>1. /\ cool' \in [Objects -> Nat] /\ fails' \in [Objects -> Nat]
          /\ streak' \in [Objects -> 0..MaxStreak]
      <3>1. 0 \in 0..MaxStreak /\ 0 \in Nat
        BY MaxStreakAssumption
      <3> QED BY <1>2, <1>3, <1>4, <3>1 DEF ReportSuccess
    <2>2. CooldownBounded'
      BY <1>4 DEF ReportSuccess, PoolInv, CooldownBounded, MaxCooldown
    <2>3. FailsBelowThreshold'
      BY <1>3, <1>4, BanAssumption DEF ReportSuccess, PoolInv, FailsBelowThreshold
    <2> QED BY <1>1, <2>1, <2>2, <2>3, ReportsFrame
  <1>5. CASE ReportNeutral(w)
    <2>1. CooldownBounded' /\ FailsBelowThreshold'
      BY <1>5 DEF ReportNeutral, PoolInv, CooldownBounded, FailsBelowThreshold, MaxCooldown
    <2> QED BY <1>1, <1>3, <1>5, <2>1, ReportsFrame DEF ReportNeutral
  <1>6. CASE CoolEscalated(got[w])
    BY <1>1, <1>2, <1>6, CoolEscalatedFacts, ReportsFrame
  <1>7. ASSUME NEW ra \in RetryAfters, ra > 0, CoolFor(got[w], ra), UNCHANGED streak
        PROVE  PoolInv'
    <2>1. ra \in Nat /\ Allowed(ra)
      BY BanAssumption DEF Allowed
    <2> QED BY <1>1, <1>2, <1>3, <1>7, <2>1, CoolForFacts, ReportsFrame
  <1>8. ASSUME ~ThresholdReached(fails[got[w]] + 1),
               fails' = [fails EXCEPT ![got[w]] = fails[got[w]] + 1],
               UNCHANGED <<cool, streak>>
        PROVE  PoolInv'
    <2>1. fails[got[w]] + 1 \in Nat /\ fails' \in [Objects -> Nat]
      BY <1>2, <1>3, <1>8
    <2>2. FailsBelowThreshold'
      BY <1>2, <1>3, <1>8, <2>1, BanAssumption
      DEF ThresholdReached, PoolInv, FailsBelowThreshold
    <2>3. CooldownBounded'
      BY <1>8 DEF PoolInv, CooldownBounded, MaxCooldown
    <2> QED BY <1>1, <1>3, <1>8, <2>1, <2>2, <2>3, ReportsFrame
  <1> QED
    BY <1>4, <1>5, <1>6, <1>7, <1>8
    DEF ReportOutcome, ReportFailure, ReportBlocked, ReportRateLimited

-----------------------------------------------------------------------------
(***************************************************************************)
(* Reload replaces the list by kept and newly created objects.  What it    *)
(* keeps it keeps with its cooldown, because a created object is never one *)
(* that is in the pool or in a worker's hands (pool.go:220-244).           *)
(***************************************************************************)
LEMMA ReloadFacts ==
    ASSUME PoolInv, NEW urls \in ReloadLists, Reload(urls)
    PROVE  /\ PoolInv'
           /\ \A u \in URLs : byURL[u] # None /\ byURL'[u] # None
                 => byURL'[u] = byURL[u] /\ cool'[byURL[u]] = cool[byURL[u]]
  <1> DEFINE list == OrDirect(urls)
             new == {i \in 1..Len(list) : ~Kept(list[i])}
             Created(f, o) == \E i \in new : f[i] = o
  <1>1. list \in Seq(URLs) /\ Len(list) \in Nat \ {0}
    BY OrDirectNonEmpty, ListsAssumption
  <1>2. PICK f \in Injection(new, Free) :
          /\ proxies' = [i \in 1..Len(list) |->
                           IF i \in new THEN f[i] ELSE byURL[list[i]]]
          /\ byURL' \in IndexByURL(list, proxies')
          /\ url' = [o \in Objects |->
                       IF Created(f, o) THEN list[CHOOSE i \in new : f[i] = o] ELSE url[o]]
          /\ fails' = [o \in Objects |-> IF Created(f, o) THEN 0 ELSE fails[o]]
          /\ cool' = [o \in Objects |-> IF Created(f, o) THEN 0 ELSE cool[o]]
          /\ streak' = [o \in Objects |-> IF Created(f, o) THEN 0 ELSE streak[o]]
    BY DEF Reload
  <1>3. mu = None /\ idx' = 0 /\ UNCHANGED <<mu, scan, got>>
    BY DEF Reload, ReloadIdx
  <1>4. new \subseteq 1..Len(list) /\ \A i \in 1..Len(list) : i \notin new => byURL[list[i]] # None
    BY DEF Kept
  <1>5. f \in [new -> Free]
    BY <1>2 DEF Injection
  <1> HIDE DEF list, new
  <1>6. \A i \in 1..Len(list) : list[i] \in URLs
    BY <1>1
  <1>7. \A i \in 1..Len(list) : proxies'[i] \in Objects
    <2> SUFFICES ASSUME NEW i \in 1..Len(list) PROVE proxies'[i] \in Objects
      OBVIOUS
    <2>1. CASE i \in new
      BY <1>2, <1>5, <2>1 DEF Free
    <2>2. CASE i \notin new
      BY <1>2, <1>4, <1>6, <2>2 DEF PoolInv, PoolTypeOK
    <2> QED BY <2>1, <2>2
  <1>8. proxies' \in Seq(Objects) /\ Len(proxies') = Len(list)
    BY <1>1, <1>2, <1>7
  <1>9. url' \in [Objects -> URLs]
    <2>1. \A o \in Objects : Created(f, o) => list[CHOOSE i \in new : f[i] = o] \in URLs
      BY <1>4, <1>6
    <2> QED BY <1>2, <2>1 DEF PoolInv, PoolTypeOK
  <1>10. byURL' \in [URLs -> Objects \cup {None}]
    BY <1>2, IndexType
  <1> HIDE DEF Created
  <1>11. /\ fails' \in [Objects -> Nat] /\ cool' \in [Objects -> Nat]
         /\ streak' \in [Objects -> 0..MaxStreak]
    <2>1. 0 \in 0..MaxStreak /\ 0 \in Nat
      BY MaxStreakAssumption
    <2> QED BY <1>2, <2>1 DEF PoolInv, PoolTypeOK
  <1>12. PoolTypeOK'
    <2>1. scan = NoScan
      BY <1>3 DEF PoolInv, ScanIdle
    <2>2. idx' \in 0..Len(proxies') - 1
      BY <1>1, <1>3, <1>8
    <2>3. scan' \in [inspected : 0..Len(proxies') - 1, healthy : SUBSET Objects]
      BY <1>1, <1>3, <1>8, <2>1 DEF NoScan
    <2> QED BY <1>3, <1>8, <1>9, <1>10, <1>11, <2>2, <2>3 DEF PoolInv, PoolTypeOK
  <1>13. ScanIdle'
    BY <1>3 DEF PoolInv, ScanIdle
  <1>14. IndexInPool'
    <2> SUFFICES ASSUME NEW u \in URLs, byURL'[u] # None
                 PROVE  \E i \in 1..Len(proxies') : proxies'[i] = byURL'[u]
      BY DEF IndexInPool, InPool
    <2>1. \E i \in 1..Len(list) : list[i] = u /\ byURL'[u] = proxies'[i]
      BY <1>1, <1>2, IndexEntry
    <2> QED BY <1>8, <2>1
  <1>15. CooldownBounded'
    <2> SUFFICES ASSUME NEW o \in Objects
                 PROVE  \/ cool'[o] <= MaxCooldown
                        \/ \E ra \in RetryAfters : cool'[o] <= ra
      BY DEF CooldownBounded, MaxCooldown
    <2>1. cool'[o] = 0 \/ cool'[o] = cool[o]
      BY <1>2
    <2> QED BY <2>1, MaxCooldownNat DEF PoolInv, CooldownBounded
  <1>16. FailsBelowThreshold'
    BY <1>2, BanAssumption DEF PoolInv, FailsBelowThreshold
  <1>17. ASSUME NEW u \in URLs, byURL[u] # None, byURL'[u] # None
         PROVE  byURL'[u] = byURL[u] /\ cool'[byURL[u]] = cool[byURL[u]]
    <2>1. PICK i \in 1..Len(list) : list[i] = u /\ byURL'[u] = proxies'[i]
      BY <1>1, <1>2, <1>17, IndexEntry
    <2>2. i \notin new
      BY <1>17, <2>1 DEF new, Kept
    <2>3. byURL'[u] = byURL[u]
      BY <1>2, <2>1, <2>2
    <2>4. byURL[u] \in Objects /\ byURL[u] \notin Free
      BY <1>17 DEF PoolInv, PoolTypeOK, IndexInPool, Free
    <2>5. ~Created(f, byURL[u])
      BY <1>5, <2>4 DEF Created
    <2> QED BY <1>2, <2>3, <2>4, <2>5
  <1> QED
    BY <1>12, <1>13, <1>14, <1>15, <1>16, <1>17 DEF PoolInv

-----------------------------------------------------------------------------
\* Every step of the pool keeps the inductive invariant.
LEMMA PoolStep == PoolInv /\ [PoolNext]_poolVars => PoolInv'
  <1> SUFFICES ASSUME PoolInv, [PoolNext]_poolVars PROVE PoolInv'
    OBVIOUS
  <1>1. CASE UNCHANGED poolVars
    BY <1>1
    DEF poolVars, PoolInv, PoolTypeOK, ScanIdle, IndexInPool, InPool,
        CooldownBounded, MaxCooldown, FailsBelowThreshold
  <1>2. CASE PoolNext
    BY <1>2, NextCallInv, NextInspectInv, ReportOutcomeInv, ReloadFacts, TickInv
    DEF PoolNext
  <1> QED BY <1>1, <1>2

\* The inductive invariant holds throughout.
LEMMA PoolInvariant == PoolSpec => []PoolInv
  BY PoolInitInv, PoolStep, PTL DEF PoolSpec

(***************************************************************************)
(* The pool's state is typed, and neither Next nor Reload ever leaves idx  *)
(* or a running scan outside the list (pool.go:220-272).                   *)
(***************************************************************************)
THEOREM PoolTypeCorrect == PoolSpec => []PoolTypeOK
  <1>1. PoolInv => PoolTypeOK
    BY DEF PoolInv
  <1> QED BY <1>1, PoolInvariant, PTL

(***************************************************************************)
(* For every configuration cooldowns are bounded by MaxCooldown or the     *)
(* longest Retry-After (pool.go:393-421).                                  *)
(***************************************************************************)
THEOREM PoolCooldownBounded == PoolSpec => []CooldownBounded
  <1>1. PoolInv => CooldownBounded
    BY DEF PoolInv
  <1> QED BY <1>1, PoolInvariant, PTL

(***************************************************************************)
(* For every positive threshold the failure count stays below it, so a     *)
(* proxy that keeps failing is banned again and again (pool.go:383-387).   *)
(***************************************************************************)
THEOREM PoolFailsBelowThreshold == PoolSpec => []FailsBelowThreshold
  <1>1. PoolInv => FailsBelowThreshold
    BY DEF PoolInv
  <1> QED BY <1>1, PoolInvariant, PTL

\* Cooling never shortens a cooldown (pool.go:416-418).
LEMMA CoolForExtends ==
    ASSUME PoolInv, NEW o, NEW d \in Nat, CoolFor(o, d), NEW p \in Objects
    PROVE  cool'[p] >= cool[p]
  BY DEF CoolFor, Extended, PoolInv, PoolTypeOK

\* No report shortens a cooldown, a late success included (pool.go:362-367).
LEMMA ReportExtends ==
    ASSUME PoolInv, NEW w \in Workers, ReportOutcome(w), NEW p \in Objects
    PROVE  cool'[p] >= cool[p]
  <1>1. cool[p] \in Nat
    BY DEF PoolInv, PoolTypeOK
  <1>2. CASE UNCHANGED cool
    BY <1>1, <1>2
  <1>3. CASE CoolEscalated(got[w])
    <2>1. Escalated(streak[got[w]]) \in Nat
      BY EscalatedRange, MaxCooldownNat
    <2> QED BY <1>3, <2>1, CoolForExtends DEF CoolEscalated
  <1>4. ASSUME NEW ra \in RetryAfters, CoolFor(got[w], ra)
        PROVE  cool'[p] >= cool[p]
    BY <1>4, BanAssumption, CoolForExtends
  <1> QED
    BY <1>2, <1>3, <1>4
    DEF ReportOutcome, ReportSuccess, ReportNeutral, ReportFailure,
        ReportBlocked, ReportRateLimited

(***************************************************************************)
(* Only time lets a listed URL out of its cooldown: no report and no       *)
(* Reload shortens it (pool.go:214-219, 409-417).                          *)
(***************************************************************************)
THEOREM PoolCooldownKept == PoolSpec => CooldownKept
  <1> DEFINE Keeps == \A u \in URLs :
                         byURL[u] # None /\ byURL'[u] # None
                            => cool'[byURL'[u]] >= cool[byURL[u]] \/ Tick
  <1>1. PoolInv /\ [PoolNext]_poolVars => [Keeps]_poolVars
    <2> SUFFICES ASSUME PoolInv, PoolNext, NEW u \in URLs,
                        byURL[u] # None, byURL'[u] # None
                 PROVE  cool'[byURL'[u]] >= cool[byURL[u]] \/ Tick
      OBVIOUS
    <2>1. byURL[u] \in Objects /\ cool[byURL[u]] \in Nat
      BY DEF PoolInv, PoolTypeOK
    <2>2. ASSUME NEW w \in Workers, NextCall(w) \/ NextInspect(w)
          PROVE  cool'[byURL'[u]] >= cool[byURL[u]]
      BY <2>1, <2>2 DEF NextCall, NextInspect, InspectRoundRobin, InspectHealthy
    <2>3. ASSUME NEW w \in Workers, ReportOutcome(w)
          PROVE  cool'[byURL'[u]] >= cool[byURL[u]]
      <3>1. byURL' = byURL
        BY <2>3 DEF ReportOutcome, ReportSuccess, ReportNeutral, ReportFailure,
                    ReportBlocked, ReportRateLimited, Reports
      <3> QED BY <2>1, <2>3, <3>1, ReportExtends
    <2>4. ASSUME NEW urls \in ReloadLists, Reload(urls)
          PROVE  cool'[byURL'[u]] >= cool[byURL[u]]
      BY <2>1, <2>4, ReloadFacts
    <2> QED BY <2>2, <2>3, <2>4 DEF PoolNext
  <1> QED BY <1>1, PoolInvariant, PTL DEF PoolSpec, CooldownKept
=============================================================================
