---------------------------- MODULE BrowserPool ----------------------------
(***************************************************************************)
(* The browser sessions of internal/fetcher/playwright.go: one Chromium    *)
(* shared by all fetches and relaunched when it dies, a pool of sessions   *)
(* on it, and Close, which drains the fetches before it stops the browser. *)
(*                                                                         *)
(* A fetch holds one of PoolSize slots from the start of acquire to the    *)
(* end of release.  f.mu protects browser, idle and open; it is held       *)
(* across a launch (mu), every other critical section is one step.         *)
(* Sessions are closed outside of it.  closed is read without it.          *)
(*                                                                         *)
(* Chromium and its driver are external: a page or the browser may crash   *)
(* at any time, opening a session or a launch may fail, and a render ends  *)
(* well or not.  What a render does is left out; a profile is what has to  *)
(* match for a session to be reused.  The launch backoff is on or off.     *)
(***************************************************************************)
EXTENDS Integers, Sequences, FiniteSets, SequencesExt

CONSTANTS
    Fetches,           \* goroutines that call Fetch
    Sessions,          \* identities of browserSession objects
    Profiles,          \* session keys
    PoolSize,
    MaxSessionUses,
    MaxLaunches,       \* bound on browsers: the last one does not die
    None

ASSUME BrowserAssumption ==
    /\ IsFiniteSet(Fetches)
    /\ PoolSize \in Nat \ {0}
    /\ MaxSessionUses \in Nat \ {0}
    /\ MaxLaunches \in Nat \ {0}
    /\ None \notin Fetches \cup Sessions

VARIABLES
    browser,     \* the current browser, numbered by launch
    alive,       \* browsers that run
    backoff,     \* a failed launch keeps others from trying
    idle,        \* idle sessions, a sequence
    open,        \* the count of sessions open or reserved
    sess,        \* sess[s]: the session object
    slots,       \* slots taken
    mu,          \* the fetch that launches with f.mu held, or None
    pc,          \* pc[f]: where fetch f is
    key,         \* key[f]: the profile of the session f opens, or None
    on,          \* on[f]: the browser f opens a session on
    cur,         \* cur[f]: the session f has, or None
    discard,     \* discard[f]: sessions f still has to close
    closed,
    closer,      \* where Close is
    doomed       \* sessions Close still has to close

browserVars == <<browser, alive, backoff>>
poolVars == <<idle, open>>
fetchVars == <<pc, key, on, cur, discard>>
closeVars == <<closed, closer, doomed>>
vars == <<browserVars, poolVars, sess, slots, mu, fetchVars, closeVars>>

NoSession == [up |-> FALSE, browser |-> 0, key |-> None, uses |-> 0, crashed |-> FALSE]

Init ==
    /\ browser = 1
    /\ alive = {1}
    /\ backoff = FALSE
    /\ idle = <<>>
    /\ open = 0
    /\ sess = [s \in Sessions |-> NoSession]
    /\ slots = 0
    /\ mu = None
    /\ pc = [f \in Fetches |-> "out"]
    /\ key = [f \in Fetches |-> None]
    /\ on = [f \in Fetches |-> 0]
    /\ cur = [f \in Fetches |-> None]
    /\ discard = [f \in Fetches |-> {}]
    /\ closed = FALSE
    /\ closer = "none"
    /\ doomed = {}

Goto(f, l) == pc' = [pc EXCEPT ![f] = l]

\* Fetch returns: f has no session and no slot.
Return(f) ==
    /\ Goto(f, "out")
    /\ key' = [key EXCEPT ![f] = None]
    /\ on' = [on EXCEPT ![f] = 0]
    /\ cur' = [cur EXCEPT ![f] = None]

\* closeSession: nobody refers to the objects any more.
Closed(ss) == [s \in Sessions |-> IF s \in ss THEN NoSession ELSE sess[s]]

\* The contexts are gone, the objects are not.
Down(ss) == [s \in Sessions |-> IF s \in ss THEN [sess[s] EXCEPT !.up = FALSE] ELSE sess[s]]

\* The entries of a list of sessions that are in ss, in the list's order.
Kept(list, ss) ==
    LET upTo[n \in 0..Len(list)] ==
          IF n = 0 THEN <<>>
          ELSE IF list[n] \in ss THEN Append(upTo[n - 1], list[n]) ELSE upTo[n - 1]
    IN upTo[Len(list)]

\* Session objects nobody refers to.
Unused ==
    {s \in Sessions :
        /\ s \notin Range(idle) \cup doomed
        /\ \A f \in Fetches : s # cur[f] /\ s \notin discard[f]}
-----------------------------------------------------------------------------
\* acquire: wait for a slot, the end of the fetcher or the end of ctx.
CallFetch(f) ==
    /\ pc[f] = "out"
    /\ Goto(f, "wait")
    /\ UNCHANGED <<browserVars, poolVars, sess, slots, mu, key, on, cur, discard, closeVars>>

TakeSlot(f) ==
    /\ pc[f] = "wait"
    /\ slots < PoolSize
    /\ slots' = slots + 1
    /\ Goto(f, "check")
    /\ UNCHANGED <<browserVars, poolVars, sess, mu, key, on, cur, discard, closeVars>>

\* ctx may end while f waits; once Close has begun, done wakes f up.
GiveUp(f) ==
    /\ pc[f] = "wait"
    /\ Return(f)
    /\ UNCHANGED <<browserVars, poolVars, sess, slots, mu, discard, closeVars>>

\* f has a slot: fail if the fetcher is closed, else lock f.mu.
CheckClosed(f) ==
    /\ pc[f] = "check"
    /\ IF closed THEN Return(f) /\ slots' = slots - 1
                 ELSE Goto(f, "lock") /\ UNCHANGED <<key, on, cur, slots>>
    /\ UNCHANGED <<browserVars, poolVars, sess, mu, discard, closeVars>>
-----------------------------------------------------------------------------
Connected == browser \in alive

\* browserLocked without a usable browser: an error after Close, so that
\* nothing is launched any more, and in the backoff.
MayLaunch == ~closed /\ ~backoff

NoBrowser(f) ==
    /\ pc[f] = "lock"
    /\ mu = None
    /\ ~Connected /\ ~MayLaunch
    /\ Return(f)
    /\ slots' = slots - 1
    /\ UNCHANGED <<browserVars, poolVars, sess, mu, discard, closeVars>>

\* browserLocked drops the idle sessions of the dead browser and launches.
DeadSessions == {s \in Range(idle) : sess[s].browser = browser}

Launch(f) ==
    /\ pc[f] = "lock"
    /\ mu = None
    /\ ~Connected /\ MayLaunch
    /\ idle' = Kept(idle, Sessions \ DeadSessions)
    /\ open' = open - Cardinality(DeadSessions)
    /\ mu' = f
    /\ Goto(f, "launch")
    /\ UNCHANGED <<browserVars, sess, slots, key, on, cur, discard, closeVars>>

LaunchFails(f) ==
    /\ pc[f] = "launch"
    /\ backoff' = TRUE
    /\ mu' = None
    /\ Return(f)
    /\ slots' = slots - 1
    /\ UNCHANGED <<browser, alive, poolVars, sess, discard, closeVars>>

\* The rest of acquire's critical section, on browser b, for a request with
\* profile k (which matters from here on): drop the idle
\* sessions that died, reuse the first idle one that matches, or reserve
\* room for a new one, evicting the oldest idle one if there is none.
Stale(s) == sess[s].crashed \/ ~sess[s].up
Matches(s, k, b) == sess[s].key = k /\ sess[s].browser = b

Room(n) == n < PoolSize

\* The idle sessions left when s is taken.
StillListed(kept, s) == kept
Without(kept, s) == Kept(kept, Sessions \ {s})

TakeSession(f, k, b) ==
    LET stale == {s \in Range(idle) : Stale(s)}
        kept == Kept(idle, Sessions \ stale)
        fits == Kept(kept, {s \in Sessions : Matches(s, k, b)})
        left == open - Cardinality(stale)
    IN
    IF fits # <<>>
    THEN /\ cur' = [cur EXCEPT ![f] = Head(fits)]
         /\ idle' = Without(kept, Head(fits))
         /\ open' = left
         /\ discard' = [discard EXCEPT ![f] = stale]
         /\ Goto(f, IF stale = {} THEN "render" ELSE "clean")
         /\ UNCHANGED <<key, on>>
    ELSE LET evict == IF Room(left) \/ kept = <<>> THEN {} ELSE {Head(kept)} IN
         /\ idle' = Kept(kept, Sessions \ evict)
         /\ open' = left - Cardinality(evict) + 1
         /\ discard' = [discard EXCEPT ![f] = stale \cup evict]
         /\ key' = [key EXCEPT ![f] = k]
         /\ on' = [on EXCEPT ![f] = b]
         /\ Goto(f, IF stale \cup evict = {} THEN "new" ELSE "clean")
         /\ UNCHANGED cur

Acquire(f) ==
    /\ pc[f] = "lock"
    /\ mu = None
    /\ Connected
    /\ \E k \in Profiles : TakeSession(f, k, browser)
    /\ UNCHANGED <<browserVars, sess, slots, mu, closeVars>>

LaunchSucceeds(f) ==
    /\ pc[f] = "launch"
    /\ browser' = browser + 1
    /\ alive' = alive \cup {browser + 1}
    /\ backoff' = FALSE
    /\ mu' = None
    /\ \E k \in Profiles : TakeSession(f, k, browser + 1)
    /\ UNCHANGED <<sess, slots, closeVars>>

\* After the critical section: close what was dropped, if anything was, then
\* use the session found or open a new one.
CloseDiscarded(f) ==
    /\ pc[f] = "clean"
    /\ sess' = Closed(discard[f])
    /\ discard' = [discard EXCEPT ![f] = {}]
    /\ Goto(f, IF cur[f] # None THEN "render" ELSE "new")
    /\ UNCHANGED <<browserVars, poolVars, slots, mu, key, on, cur, closeVars>>

\* newSession, on the browser that acquire was given, which may be gone.
NewSession(f) ==
    /\ pc[f] = "new"
    /\ on[f] \in alive
    /\ Unused # {}
    /\ LET s == CHOOSE s \in Unused : TRUE IN
          /\ sess' = [sess EXCEPT ![s] = [up |-> TRUE, browser |-> on[f], key |-> key[f],
                                          uses |-> 0, crashed |-> FALSE]]
          /\ cur' = [cur EXCEPT ![f] = s]
    /\ key' = [key EXCEPT ![f] = None]
    /\ on' = [on EXCEPT ![f] = 0]
    /\ Goto(f, "render")
    /\ UNCHANGED <<browserVars, poolVars, slots, mu, discard, closeVars>>

\* What the failed opening gives back: its reservation and its slot.
OpenKept == open
OpenGivenBack == open - 1
SlotKept == slots
SlotGivenBack == slots - 1

NewSessionFails(f) ==
    /\ pc[f] = "new"
    /\ mu = None
    /\ open' = OpenGivenBack
    /\ slots' = SlotGivenBack
    /\ Return(f)
    /\ UNCHANGED <<browserVars, idle, sess, mu, discard, closeVars>>
-----------------------------------------------------------------------------
\* render ends, or ctx does: then the context is closed, which makes render
\* fail, and the session counts as unhealthy.
RenderEnds(f) ==
    /\ pc[f] = "render"
    /\ \/ sess[cur[f]].up /\ Goto(f, "healthy") /\ UNCHANGED sess
       \/ Goto(f, "failed") /\ UNCHANGED sess
       \/ Goto(f, "failed") /\ sess' = Down({cur[f]})
    /\ UNCHANGED <<browserVars, poolVars, slots, mu, key, on, cur, discard, closeVars>>

\* A session about to be closed: only its context still matters.
Dropped(s) ==
    [up |-> s.up, browser |-> s.browser, key |-> None, uses |-> 0, crashed |-> FALSE]

Used(s) == [s EXCEPT !.uses = @ + 1]

\* release: which sessions go back to the idle pool.
KeepForever(f) ==
    LET s == sess[cur[f]] IN
    /\ pc[f] = "healthy" /\ ~closed /\ ~s.crashed
    /\ s.browser = browser /\ Connected
KeepAfterClose(f) ==
    LET s == sess[cur[f]] IN
    /\ pc[f] = "healthy" /\ ~s.crashed
    /\ s.uses + 1 < MaxSessionUses
    /\ s.browser = browser /\ Connected
KeepOldBrowser(f) ==
    LET s == sess[cur[f]] IN
    /\ pc[f] = "healthy" /\ ~closed /\ ~s.crashed
    /\ s.uses + 1 < MaxSessionUses
Keep(f) ==
    LET s == sess[cur[f]] IN
    /\ pc[f] = "healthy" /\ ~closed /\ ~s.crashed
    /\ s.uses + 1 < MaxSessionUses
    /\ s.browser = browser /\ Connected

Release(f) ==
    /\ pc[f] \in {"healthy", "failed"}
    /\ mu = None
    /\ sess' = [sess EXCEPT ![cur[f]] = IF Keep(f) THEN Used(@) ELSE Dropped(@)]
    /\ IF Keep(f)
       THEN /\ idle' = Append(idle, cur[f])
            /\ cur' = [cur EXCEPT ![f] = None]
            /\ Goto(f, "free")
            /\ UNCHANGED <<open, discard>>
       ELSE /\ open' = open - 1
            /\ discard' = [discard EXCEPT ![f] = {cur[f]}]
            /\ cur' = [cur EXCEPT ![f] = None]
            /\ Goto(f, "drop")
            /\ UNCHANGED idle
    /\ UNCHANGED <<browserVars, slots, mu, key, on, closeVars>>

CloseReleased(f) ==
    /\ pc[f] = "drop"
    /\ sess' = Closed(discard[f])
    /\ discard' = [discard EXCEPT ![f] = {}]
    /\ Goto(f, "free")
    /\ UNCHANGED <<browserVars, poolVars, slots, mu, key, on, cur, closeVars>>

FreeSlot(f) ==
    /\ pc[f] = "free"
    /\ slots' = slots - 1
    /\ Return(f)
    /\ UNCHANGED <<browserVars, poolVars, sess, mu, discard, closeVars>>
-----------------------------------------------------------------------------
\* Close: stop new fetches, take the idle sessions, close them, collect the
\* slots or stop waiting for them, stop the browser.
CloseBegins ==
    /\ closer = "none"
    /\ closed' = TRUE
    /\ closer' = "take"
    /\ UNCHANGED <<browserVars, poolVars, sess, slots, mu, fetchVars, doomed>>

CloseTakesIdle ==
    /\ closer = "take"
    /\ mu = None
    /\ doomed' = Range(idle)
    /\ idle' = <<>>
    /\ open' = open - Len(idle)
    /\ closer' = "idle"
    /\ UNCHANGED <<browserVars, sess, slots, mu, fetchVars, closed>>

CloseIdle ==
    /\ closer = "idle"
    /\ sess' = Closed(doomed)
    /\ doomed' = {}
    /\ closer' = "drain"
    /\ UNCHANGED <<browserVars, poolVars, slots, mu, fetchVars, closed>>

Holders == {f \in Fetches : pc[f] \notin {"out", "wait"}}

\* Close takes one slot after the other; with the last it goes on.
Drained == slots + 1 - Cardinality(Holders) = PoolSize

CloseDrains ==
    /\ closer = "drain"
    /\ slots < PoolSize
    /\ slots' = slots + 1
    /\ closer' = IF Drained THEN "stop" ELSE "drain"
    /\ UNCHANGED <<browserVars, poolVars, sess, mu, fetchVars, closed, doomed>>

DrainTimesOut ==
    /\ closer = "drain"
    /\ closer' = "stop"
    /\ UNCHANGED <<browserVars, poolVars, sess, slots, mu, fetchVars, closed, doomed>>

CloseStops ==
    /\ closer = "stop"
    /\ mu = None
    /\ alive' = alive \ {browser}
    /\ sess' = Down({s \in Sessions : sess[s].browser = browser})
    /\ closer' = "done"
    /\ UNCHANGED <<browser, backoff, poolVars, slots, mu, fetchVars, closed, doomed>>
-----------------------------------------------------------------------------
\* A page crashes; of a session about to be closed nobody would notice.
PageCrash(s) ==
    /\ sess[s].up /\ ~sess[s].crashed
    /\ s \in Range(idle) \/ \E f \in Fetches : cur[f] = s /\ pc[f] # "failed"
    /\ sess' = [sess EXCEPT ![s].crashed = TRUE]
    /\ UNCHANGED <<browserVars, poolVars, slots, mu, fetchVars, closeVars>>

BrowserDies ==
    /\ Connected
    /\ browser < MaxLaunches
    /\ alive' = alive \ {browser}
    /\ sess' = Down({s \in Sessions : sess[s].browser = browser})
    /\ UNCHANGED <<browser, backoff, poolVars, slots, mu, fetchVars, closeVars>>

BackoffEnds ==
    /\ backoff
    /\ backoff' = FALSE
    /\ UNCHANGED <<browser, alive, poolVars, sess, slots, mu, fetchVars, closeVars>>

FetchStep(f) ==
    \/ TakeSlot(f) \/ CheckClosed(f)
    \/ NoBrowser(f) \/ Launch(f) \/ LaunchFails(f) \/ LaunchSucceeds(f)
    \/ Acquire(f) \/ CloseDiscarded(f) \/ NewSession(f) \/ NewSessionFails(f)
    \/ RenderEnds(f) \/ Release(f) \/ CloseReleased(f) \/ FreeSlot(f)

CloseStep == CloseTakesIdle \/ CloseIdle \/ CloseDrains \/ DrainTimesOut \/ CloseStops

Next ==
    \/ \E f \in Fetches : CallFetch(f) \/ GiveUp(f) \/ FetchStep(f)
    \/ CloseBegins \/ CloseStep
    \/ BrowserDies \/ BackoffEnds
    \/ \E s \in Sessions : PageCrash(s)

Spec == Init /\ [][Next]_vars

\* The steps that lock f.mu, and those for which a fetch waits: a slot, the
\* lock, or the end of the fetcher.
LockStep(f) == NoBrowser(f) \/ Launch(f) \/ Acquire(f) \/ NewSessionFails(f) \/ Release(f)
Served(f) == TakeSlot(f) \/ LockStep(f) \/ (closed /\ GiveUp(f))

\* Goroutines run on, renders, launches and closings end (they have
\* timeouts), a channel serves those who wait for a slot in turn, a mutex
\* is handed to a waiter it has kept waiting (starvation mode), and done
\* wakes waiters up when Close begins.  Nothing is assumed about CloseBegins.
FairSpec ==
    /\ Spec
    /\ WF_vars(CloseStep)
    /\ \A f \in Fetches : WF_vars(FetchStep(f)) /\ SF_vars(Served(f))
-----------------------------------------------------------------------------
FetchLocations == {"out", "wait", "check", "lock", "launch", "clean", "new", "render",
                   "healthy", "failed", "drop", "free"}

(***************************************************************************)
(* Type invariant.                                                         *)
(***************************************************************************)
BrowserTypeOK ==
    /\ browser \in 1..MaxLaunches
    /\ alive \subseteq 1..MaxLaunches
    /\ backoff \in BOOLEAN /\ closed \in BOOLEAN
    /\ idle \in Seq(Sessions)
    /\ sess \in [Sessions -> [up : BOOLEAN, browser : 0..MaxLaunches,
                              key : Profiles \cup {None}, uses : 0..MaxSessionUses,
                              crashed : BOOLEAN]]
    /\ slots \in 0..PoolSize
    /\ mu \in Fetches \cup {None}
    /\ pc \in [Fetches -> FetchLocations]
    /\ key \in [Fetches -> Profiles \cup {None}]
    /\ on \in [Fetches -> 0..MaxLaunches]
    /\ cur \in [Fetches -> Sessions \cup {None}]
    /\ discard \in [Fetches -> SUBSET Sessions]
    /\ closer \in {"none", "take", "idle", "drain", "stop", "done"}
    /\ doomed \subseteq Sessions

(***************************************************************************)
(* The counts are right on every path, a launch that failed and a session  *)
(* that could not be opened included: until Close drains them, slots are   *)
(* taken by the fetches past their wait, and open is the number of idle    *)
(* sessions plus the fetches that have or have reserved one, at most       *)
(* PoolSize (playwright.go:51-55, 327-416).  A count that drifts up        *)
(* shrinks the pool for good.                                              *)
(***************************************************************************)
HasSession == {f \in Fetches : pc[f] \in {"clean", "new", "render", "healthy", "failed"}}

CountsExact ==
    /\ closer \in {"none", "take", "idle"} => slots = Cardinality(Holders)
    /\ open = Len(idle) + Cardinality(HasSession)
    /\ open <= PoolSize

(***************************************************************************)
(* A session belongs to one owner: no two fetches have it, a fetch that    *)
(* has it does not find it idle, and nobody closes a session that another  *)
(* fetch has or will find (playwright.go:327-421, 544-556).                *)
(***************************************************************************)
OneOwner ==
    /\ \A f, g \in Fetches :
          /\ f # g /\ cur[f] # None => cur[f] # cur[g]
          /\ cur[f] \notin Range(idle) \cup discard[g] \cup doomed
          /\ discard[f] \cap (Range(idle) \cup doomed) = {}
    /\ Cardinality(Range(idle)) = Len(idle)

(***************************************************************************)
(* Idle sessions are on the current browser: a relaunch forgets the old    *)
(* browser's sessions and release lets none of them back in, so no fetch   *)
(* is given a session of a browser that is gone, and open does not count   *)
(* sessions that can never be reused (playwright.go:403-404, 439-450).     *)
(***************************************************************************)
IdleOnCurrentBrowser ==
    mu = None => \A s \in Range(idle) : sess[s].browser = browser

(***************************************************************************)
(* After Close nothing is left: no browser runs, also if the drain timed   *)
(* out and a fetch outlived it or a launch was under way when Close began, *)
(* no session is open and none sits in the idle pool, where nobody would   *)
(* close it (playwright.go:400-416, 430-434, 541-582).                     *)
(***************************************************************************)
CloseLeavesNothing ==
    closer = "done" => alive = {} /\ idle = <<>> /\ \A s \in Sessions : ~sess[s].up

(***************************************************************************)
(* Every Fetch returns, with a page or an error: while the browser crashes *)
(* and is relaunched, while the pool is full, and when Close overtakes it  *)
(* (playwright.go:164-193, 327-395).                                       *)
(***************************************************************************)
EveryFetchReturns == \A f \in Fetches : (pc[f] = "wait") ~> (pc[f] = "out")
=============================================================================
