----------------------------- MODULE ProxyPool -----------------------------
(***************************************************************************)
(* The proxy pool of internal/proxy/pool.go: rotation over a list of       *)
(* proxies that skips the ones in cooldown, and the bookkeeping that puts  *)
(* a proxy into cooldown.                                                  *)
(*                                                                         *)
(* Locks.  Next and Reload hold pl.mu for their whole duration (mu), but   *)
(* look at one proxy at a time under that proxy's own p.mu.  ReportOutcome *)
(* takes only p.mu.  So a Next is a series of inspections, one step each,  *)
(* and outcomes reported by other workers come between them; Reload and    *)
(* ReportOutcome are one step each.                                        *)
(*                                                                         *)
(* Time.  What the code compares is always bannedUntil with the current    *)
(* time, so a proxy's state is the rest of its cooldown, cool = max(0,     *)
(* bannedUntil - now), which Tick counts down.                             *)
(*                                                                         *)
(* Objects.  A worker keeps the *Proxy it was given across a Reload, and   *)
(* Reload may drop that object and later create another one for the same   *)
(* URL, so proxies are objects with a URL, not URLs.                       *)
(*                                                                         *)
(* Left out: totals, lastUsedAt and the health average, which only feed    *)
(* statistics and the weights of WeightedSuccessRate.  Every weight is at  *)
(* least the floor, so that strategy may pick any healthy proxy, as Random *)
(* does.                                                                   *)
(***************************************************************************)
EXTENDS Integers, Sequences, FiniteSets, Functions

CONSTANTS
    Workers,
    Objects,         \* identities of Proxy objects
    URLs,
    Direct,          \* the empty URL: no proxy
    FirstLists,      \* url lists NewPool may be given
    ReloadLists,     \* url lists Reload may be given
    Strategy,        \* "RoundRobin" or "Random"
    BanThreshold,
    BanCooldown,
    ConfigMaxCooldown,
    RetryAfters,     \* Retry-After values of rate-limited answers; 0: none
    MaxStreak,       \* bound on banStreak
    None

ASSUME ListsAssumption ==
    /\ FirstLists \subseteq Seq(URLs)
    /\ ReloadLists \subseteq Seq(URLs)
    /\ Direct \in URLs
ASSUME StrategyAssumption == Strategy \in {"RoundRobin", "Random"}
ASSUME BanAssumption ==
    /\ BanThreshold \in Int
    /\ BanCooldown \in Nat
    /\ ConfigMaxCooldown \in Int
    /\ RetryAfters \subseteq Nat
ASSUME MaxStreakAssumption == MaxStreak \in Nat
ASSUME NoneAssumption == None \notin Objects \cup Workers

VARIABLES
    url,         \* url[o]: the object's URL
    proxies,     \* the pool's list, a sequence of objects
    byURL,       \* byURL[u]: the object listed for u, or None
    idx,         \* round-robin position, 0-based as in the code
    fails,       \* fails[o]: consecutiveFails
    cool,        \* cool[o]: the rest of the cooldown
    streak,      \* streak[o]: banStreak
    mu,          \* the worker inside Next, which holds pl.mu, or None
    scan,        \* what that worker's Next has seen so far
    got          \* got[w]: the object worker w was handed and has not reported

poolVars == <<url, proxies, byURL, idx, fails, cool, streak, mu, scan, got>>

NoScan == [inspected |-> 0, healthy |-> {}]

InPool(o) == \E i \in 1..Len(proxies) : proxies[i] = o

\* Index of a list of entries by URL; of a URL listed twice the later wins.
IndexByURL(list, entries) ==
    {f \in [URLs -> Objects \cup {None}] :
        \A u \in URLs :
            IF \E i \in 1..Len(list) : list[i] = u
            THEN \E i \in 1..Len(list) :
                    /\ list[i] = u /\ f[u] = entries[i]
                    /\ \A j \in i+1..Len(list) : list[j] # u
            ELSE f[u] = None}

Free == {o \in Objects : ~InPool(o) /\ \A w \in Workers : got[w] # o}

IsBanned(o) == cool[o] > 0

\* Counts: the available proxies; the others are cooling.
Available == {o \in Range(proxies) : ~IsBanned(o)}

\* NextAvailableAt, as the time from now; 0 stands for the zero time.
NextAvailableIn ==
    IF Available # {} THEN 0
    ELSE CHOOSE c \in {cool[o] : o \in Range(proxies)} :
            \A o \in Range(proxies) : c <= cool[o]
-----------------------------------------------------------------------------
\* An empty list means one direct identity.
OrDirect(urls) == IF urls = <<>> THEN <<Direct>> ELSE urls

\* NewPool with setProxies: a new object for every entry of the list.
PoolInit ==
    \E urls \in FirstLists :
        LET list == OrDirect(urls) IN
        /\ proxies \in Injection(1..Len(list), Objects)
        /\ url = [o \in Objects |->
                    IF InPool(o) THEN list[CHOOSE i \in 1..Len(list) : proxies[i] = o]
                                 ELSE Direct]
        /\ byURL \in IndexByURL(list, proxies)
        /\ idx = 0
        /\ fails = [o \in Objects |-> 0]
        /\ cool = [o \in Objects |-> 0]
        /\ streak = [o \in Objects |-> 0]
        /\ mu = None
        /\ scan = NoScan
        /\ got = [w \in Workers |-> None]

\* Entries of a reloaded list whose object is kept, with its state.
Kept(u) == byURL[u] # None

ReloadIdxKept == idx
ReloadIdx == 0

Reload(urls) ==
    LET list == OrDirect(urls)
        new == {i \in 1..Len(list) : ~Kept(list[i])}
    IN
    /\ mu = None
    /\ \E f \in Injection(new, Free) :
          LET Created(o) == \E i \in new : f[i] = o
              Zeroed(g) == [o \in Objects |-> IF Created(o) THEN 0 ELSE g[o]]
          IN
          /\ proxies' = [i \in 1..Len(list) |->
                           IF i \in new THEN f[i] ELSE byURL[list[i]]]
          /\ byURL' \in IndexByURL(list, proxies')
          /\ url' = [o \in Objects |->
                       IF Created(o) THEN list[CHOOSE i \in new : f[i] = o] ELSE url[o]]
          /\ fails' = Zeroed(fails)
          /\ cool' = Zeroed(cool)
          /\ streak' = Zeroed(streak)
    /\ idx' = ReloadIdx
    /\ UNCHANGED <<mu, scan, got>>
-----------------------------------------------------------------------------
\* Next takes pl.mu.
NextCall(w) ==
    /\ mu = None
    /\ got[w] = None
    /\ mu' = w
    /\ scan' = NoScan
    /\ UNCHANGED <<url, proxies, byURL, idx, fails, cool, streak, got>>

HandOut(w, o) ==
    /\ got' = [got EXCEPT ![w] = o]
    /\ mu' = None
    /\ scan' = NoScan

\* Next returns ErrAllBanned: the lock is free again, got[w] is still None.
ErrAllBanned(w) ==
    /\ mu' = None
    /\ scan' = NoScan
    /\ UNCHANGED got

InspectMore(o) ==
    /\ scan' = [inspected |-> scan.inspected + 1,
                healthy |-> IF ~IsBanned(o) THEN scan.healthy \cup {o} ELSE scan.healthy]
    /\ UNCHANGED <<mu, got>>

LastInspection == scan.inspected + 1 = Len(proxies)

IdxAfterStuck == idx
IdxAfter == (idx + 1) % Len(proxies)

\* The last proxy is handed out although it is cooling.
InspectRoundRobinAnyway(w) ==
    LET o == proxies[idx + 1] IN
    /\ idx' = IdxAfter
    /\ IF ~IsBanned(o) \/ LastInspection THEN HandOut(w, o) ELSE InspectMore(o)
    /\ UNCHANGED <<url, proxies, byURL, fails, cool, streak>>

\* One iteration of nextRoundRobinLocked: idx moves past every proxy it
\* looks at, and the first one that is not cooling is handed out.
InspectRoundRobin(w) ==
    LET o == proxies[idx + 1] IN
    /\ idx' = IdxAfter
    /\ CASE ~IsBanned(o) -> HandOut(w, o)
         [] IsBanned(o) /\ LastInspection -> ErrAllBanned(w)
         [] OTHER -> InspectMore(o)
    /\ UNCHANGED <<url, proxies, byURL, fails, cool, streak>>

\* One iteration of healthyLocked, and after the last one the pick of
\* nextRandomLocked or nextWeightedLocked among the proxies seen healthy.
InspectHealthy(w) ==
    LET o == proxies[scan.inspected + 1]
        healthy == IF ~IsBanned(o) THEN scan.healthy \cup {o} ELSE scan.healthy
    IN
    /\ \/ ~LastInspection /\ InspectMore(o)
       \/ LastInspection /\ healthy = {} /\ ErrAllBanned(w)
       \/ LastInspection /\ \E h \in healthy : HandOut(w, h)
    /\ UNCHANGED <<url, proxies, byURL, idx, fails, cool, streak>>

NextInspect(w) ==
    /\ mu = w
    /\ IF Strategy = "RoundRobin" THEN InspectRoundRobin(w) ELSE InspectHealthy(w)
-----------------------------------------------------------------------------
MaxCooldown == IF ConfigMaxCooldown <= 0 THEN 16 * BanCooldown ELSE ConfigMaxCooldown

\* escalatedCooldownLocked: banCooldown doubled once per streak, capped.
EscalatedUncapped(s) == BanCooldown * 2^s
Escalated(s) ==
    LET d == BanCooldown * 2^s IN IF d \in 0..MaxCooldown THEN d ELSE MaxCooldown

\* coolLocked extends a cooldown, it never shortens one.
ExtendedAnyway(c, d) == d
Extended(c, d) == IF d > c THEN d ELSE c

\* coolLocked.  It returns true, a new cooldown, when o was not cooling.
CoolFor(o, d) ==
    /\ cool' = [cool EXCEPT ![o] = Extended(@, d)]
    /\ fails' = [fails EXCEPT ![o] = 0]

CoolEscalated(o) ==
    /\ streak[o] < MaxStreak
    /\ CoolFor(o, Escalated(streak[o]))
    /\ streak' = [streak EXCEPT ![o] = @ + 1]

\* A worker reports on the proxy it holds and is done with it.
Reports(w) ==
    /\ got[w] # None
    /\ got' = [got EXCEPT ![w] = None]
    /\ UNCHANGED <<url, proxies, byURL, idx, mu, scan>>

ReportSuccess(w) ==
    /\ Reports(w)
    /\ fails' = [fails EXCEPT ![got[w]] = 0]
    /\ streak' = [streak EXCEPT ![got[w]] = 0]
    /\ UNCHANGED cool

ReportNeutral(w) ==
    /\ Reports(w)
    /\ UNCHANGED <<fails, cool, streak>>

ReportRateLimited(w, retryAfter) ==
    /\ Reports(w)
    /\ IF retryAfter > 0
       THEN CoolFor(got[w], retryAfter) /\ UNCHANGED streak
       ELSE CoolEscalated(got[w])

ReportBlocked(w) ==
    /\ Reports(w)
    /\ CoolEscalated(got[w])

ThresholdPassed(n) == BanThreshold > 0 /\ n > BanThreshold
ThresholdReached(n) == BanThreshold > 0 /\ n >= BanThreshold

ReportFailure(w) ==
    LET n == fails[got[w]] + 1 IN
    /\ Reports(w)
    /\ IF ThresholdReached(n)
       THEN CoolEscalated(got[w])
       ELSE fails' = [fails EXCEPT ![got[w]] = n] /\ UNCHANGED <<cool, streak>>

ReportOutcome(w) ==
    \/ ReportSuccess(w)
    \/ ReportNeutral(w)
    \/ ReportFailure(w)
    \/ ReportBlocked(w)
    \/ \E ra \in RetryAfters : ReportRateLimited(w, ra)

\* One unit of time passes.
Tick ==
    /\ \E o \in Objects : cool[o] > 0
    /\ cool' = [o \in Objects |-> IF cool[o] > 0 THEN cool[o] - 1 ELSE 0]
    /\ UNCHANGED <<url, proxies, byURL, idx, fails, streak, mu, scan, got>>

PoolNext ==
    \/ \E w \in Workers : NextCall(w) \/ NextInspect(w) \/ ReportOutcome(w)
    \/ \E urls \in ReloadLists : Reload(urls)
    \/ Tick

PoolSpec == PoolInit /\ [][PoolNext]_poolVars

\* Time passes, and a goroutine inside Next is not stopped there: it waits
\* for nothing but the short critical sections of the proxies' locks.
PoolFairSpec ==
    /\ PoolSpec
    /\ WF_poolVars(Tick)
    /\ \A w \in Workers : WF_poolVars(NextInspect(w))
-----------------------------------------------------------------------------
(***************************************************************************)
(* Type invariant.  idx and the number of inspections stay inside the list *)
(* (pool.go:264), also after Reload installed a shorter one.               *)
(***************************************************************************)
PoolTypeOK ==
    /\ url \in [Objects -> URLs]
    /\ proxies \in Seq(Objects)
    /\ byURL \in [URLs -> Objects \cup {None}]
    /\ idx \in 0..Len(proxies) - 1
    /\ fails \in [Objects -> Nat]
    /\ cool \in [Objects -> Nat]
    /\ streak \in [Objects -> 0..MaxStreak]
    /\ mu \in Workers \cup {None}
    /\ scan \in [inspected : 0..Len(proxies) - 1, healthy : SUBSET Objects]
    /\ got \in [Workers -> Objects \cup {None}]

(***************************************************************************)
(* No cooldown is longer than MaxCooldown or, for a rate-limited proxy,    *)
(* the longest Retry-After the target sent, however long the streak and    *)
(* however many reports on the same proxy overlap (pool.go:393-421).       *)
(***************************************************************************)
CooldownBounded ==
    \A o \in Objects :
        cool[o] <= MaxCooldown \/ \E ra \in RetryAfters : cool[o] <= ra

(***************************************************************************)
(* With a threshold set, consecutiveFails never reaches it: the failure    *)
(* that would is turned into a cooldown and the count starts again, so a   *)
(* proxy that goes on failing after its cooldown is banned again           *)
(* (pool.go:383-387, 409-412).                                             *)
(***************************************************************************)
FailsBelowThreshold ==
    BanThreshold > 0 => \A o \in Objects : fails[o] < BanThreshold

(***************************************************************************)
(* A URL that stays in the pool is not let out of its cooldown early: not  *)
(* by a late report with a shorter Retry-After, not by a success that was  *)
(* in flight, not by a Reload.  Only time shortens a cooldown              *)
(* (pool.go:214-219, 409-417).                                             *)
(***************************************************************************)
CooldownKept ==
    [][\A u \in URLs :
          byURL[u] # None /\ byURL'[u] # None
             => cool'[byURL'[u]] >= cool[byURL[u]] \/ Tick]_poolVars

(***************************************************************************)
(* When every proxy is cooling the pool recovers: workers that still hold  *)
(* a proxy may extend cooldowns, but nothing is handed out meanwhile, so   *)
(* the extensions end and time brings a proxy back (pool.go:261-272).      *)
(***************************************************************************)
PoolRecovers == (Available = {}) ~> (Available # {})

(***************************************************************************)
(* Round robin starves no proxy: if calls of Next go on, the list is no    *)
(* longer reloaded and from some time on a listed proxy is never cooling,  *)
(* it is handed out again and again, whatever the state of the others      *)
(* (pool.go:261-272).                                                      *)
(***************************************************************************)
CallsGoOn ==
    /\ WF_poolVars(\E w \in Workers : NextCall(w))
    /\ \A w \in Workers : WF_poolVars(ReportOutcome(w))

ReloadsStop == <>[][\A urls \in ReloadLists : ~Reload(urls)]_poolVars

RoundRobinStarvesNone ==
    \A o \in Objects :
        CallsGoOn /\ ReloadsStop /\ <>[](o \in Available)
            => []<>(\E w \in Workers : got[w] = o)
=============================================================================
