------------------------------ MODULE Crawler ------------------------------
(***************************************************************************)
(* A crawl of one target, internal/crawl/crawler.go: a coordinator that    *)
(* owns the frontier (seen, pending) and hands pages to workers over one   *)
(* unbuffered channel, workers that visit a page and send the links they   *)
(* found back over another, and what the visits share: the robots.txt      *)
(* rules fetched once (Robots) and the Crawl-delay gate of the host.       *)
(*                                                                         *)
(* The target is one host.  A page is a normalized in-scope URL; what      *)
(* links it has that pass follows() is the site, fixed but arbitrary.      *)
(* http.Client follows redirects by itself: the request for a page may end *)
(* on another (moved), which nothing checks against robots.txt or scope,   *)
(* and the links are those of the page it ends on.  A page that moves out  *)
(* of scope is one that stays and has the links found there.  Of           *)
(* worker.Pool.Acquire, modelled in Harvester, the requests it sends and   *)
(* how it ends are kept; the fetch of robots.txt does not count as a       *)
(* request to a page.  Time is counted in units of which the Crawl-delay   *)
(* is a multiple.                                                          *)
(***************************************************************************)
EXTENDS Integers, Sequences, FiniteSets, SequencesExt, Robots

CONSTANTS
    Workers,
    Sites,          \* link structures: functions from Pages to Seq(Pages)
    Moves,          \* redirects: functions from Pages to Pages
    Starts,         \* start URLs, a sequence
    Files,          \* robots.txt files of the site
    MaxDepth,
    MaxPages,
    MaxDelay,       \* the longest Crawl-delay of Files
    MaxRetries

ASSUME CrawlAssumption ==
    /\ IsFiniteSet(Workers)
    /\ Sites \subseteq [Pages -> Seq(Pages)]
    /\ Moves \subseteq [Pages -> Pages]
    /\ Files \subseteq Seq(Lines)
    /\ Starts \in Seq(Pages) \ {<<>>}
    /\ MaxDepth \in Nat
    /\ MaxPages \in Nat \ {0}
    /\ MaxDelay \in Nat
    /\ \A f \in Files : Parse(f).CrawlDelay \in 0..MaxDelay
    /\ MaxRetries \in Nat

VARIABLES
    target,      \* the target: links[p], the in-scope links of page p, moved[p],
                 \* where a request for p ends, file, its robots.txt, and
                 \* respectRobots, of its configuration
    coord,       \* coordinator: "loop", "closed" after close(jobs), "returned"
    frontier,    \* what the coordinator owns: depth (NotSeen, or the depth a
                 \* page was first seen at), pending, and exhausted
                 \* (BudgetExhausted)
    inFlight,
    ctxDone,
    sawCancel,   \* the coordinator has received from ctx.Done()
    pc,          \* pc[w]: where worker w is
    page,        \* page[w]: the page w visits or visited last
    attempt,     \* attempt[w]: retry number inside Acquire
    links,       \* links[w]: what w's visit returns
    robots,      \* the cache's entry: "none", "getting" or "ready"
    rules,       \* the cached rules
    answer,      \* history: what the request for robots.txt came to
    gate,        \* time from now to the gate's next slot
    sleep,       \* sleep[w]: time until w's slot
    since,       \* history: time since the last request, up to MaxDelay
    stats,       \* Fetched, Failed, RobotsDisallow
    fetched      \* history: pages fetched

coordVars == <<coord, frontier, inFlight, sawCancel>>
visitVars == <<page, attempt, links>>
robotsVars == <<robots, rules, answer>>
gateVars == <<gate, sleep, since>>
outVars == <<stats, fetched>>
crawlVars == <<target, coordVars, ctxDone, pc, visitVars, robotsVars, gateVars, outVars>>

NotSeen == -1
Seen(fr) == {p \in Pages : fr.depth[p] # NotSeen}

\* enqueue: a page seen before, or beyond the budget, is not queued.
EnqueueForgetsSeen(fr, p, d) ==
    IF Cardinality(Seen(fr)) >= MaxPages
    THEN [fr EXCEPT !.exhausted = TRUE]
    ELSE [fr EXCEPT !.depth[p] = d, !.pending = Append(@, p)]
EnqueueSilently(fr, p, d) ==
    IF fr.depth[p] # NotSeen \/ Cardinality(Seen(fr)) >= MaxPages
    THEN fr
    ELSE [fr EXCEPT !.depth[p] = d, !.pending = Append(@, p)]
EnqueueNoBudget(fr, p, d) ==
    IF fr.depth[p] # NotSeen
    THEN fr
    ELSE [fr EXCEPT !.depth[p] = d, !.pending = Append(@, p)]
Enqueue(fr, p, d) ==
    IF fr.depth[p] # NotSeen THEN fr
    ELSE IF Cardinality(Seen(fr)) >= MaxPages
    THEN [fr EXCEPT !.exhausted = TRUE]
    ELSE [fr EXCEPT !.depth[p] = d, !.pending = Append(@, p)]

EnqueueAll(fr, ps, d) ==
    LET upTo[n \in 0..Len(ps)] == IF n = 0 THEN fr ELSE Enqueue(upTo[n - 1], ps[n], d)
    IN upTo[Len(ps)]

EmptyFrontier ==
    [depth |-> [p \in Pages |-> NotSeen], pending |-> <<>>, exhausted |-> FALSE]

Init ==
    /\ target \in [links : Sites, moved : Moves, file : Files, respectRobots : BOOLEAN]
    /\ coord = "loop"
    /\ frontier = EnqueueAll(EmptyFrontier, Starts, 0)
    /\ inFlight = 0
    /\ ctxDone = FALSE
    /\ sawCancel = FALSE
    /\ pc = [w \in Workers |-> "idle"]
    /\ page = [w \in Workers |-> Head(Starts)]
    /\ attempt = [w \in Workers |-> 0]
    /\ links = [w \in Workers |-> <<>>]
    /\ robots = "none"
    /\ rules = AllowAll
    /\ answer = [err |-> FALSE, status |-> 0]
    /\ gate = 0
    /\ sleep = [w \in Workers |-> 0]
    /\ since = MaxDelay
    /\ stats = [Fetched |-> 0, Failed |-> 0, RobotsDisallow |-> 0]
    /\ fetched = {}

Goto(w, l) == pc' = [pc EXCEPT ![w] = l]
-----------------------------------------------------------------------------
\* The coordinator's loop: one of send, receive and cancellation.
Looping == coord = "loop" /\ (frontier.pending # <<>> \/ inFlight > 0)

SendJob(w) ==
    /\ Looping
    /\ frontier.pending # <<>>
    /\ pc[w] = "idle"
    /\ page' = [page EXCEPT ![w] = Head(frontier.pending)]
    /\ frontier' = [frontier EXCEPT !.pending = Tail(@)]
    /\ inFlight' = inFlight + 1
    /\ Goto(w, "robots")
    /\ UNCHANGED <<target, coord, ctxDone, sawCancel, attempt, links, robotsVars,
                   gateVars,
                   stats, fetched>>

\* The select always receives from found, also with a page to send.
ReadyToReceiveWhenIdle == frontier.pending = <<>>
ReadyToReceive == TRUE

\* Links found after the end of ctx are not queued any more.
ReceiveFound(w) ==
    /\ Looping
    /\ ReadyToReceive
    /\ pc[w] = "found"
    /\ inFlight' = inFlight - 1
    /\ frontier' = IF ctxDone THEN frontier
                   ELSE EnqueueAll(frontier, links[w], frontier.depth[page[w]] + 1)
    /\ links' = [links EXCEPT ![w] = <<>>]
    /\ attempt' = [attempt EXCEPT ![w] = 0]
    /\ Goto(w, "idle")
    /\ UNCHANGED <<target, coord, ctxDone, sawCancel, page, robotsVars, gateVars,
                   outVars>>

SeeCancel ==
    /\ Looping
    /\ ctxDone /\ ~sawCancel
    /\ sawCancel' = TRUE
    /\ frontier' = [frontier EXCEPT !.pending = <<>>]
    /\ UNCHANGED <<target, coord, inFlight, ctxDone, pc, visitVars, robotsVars,
                   gateVars, outVars>>

CloseJobs ==
    /\ coord = "loop" /\ ~Looping
    /\ coord' = "closed"
    /\ UNCHANGED <<target, frontier, inFlight, sawCancel, ctxDone, pc, visitVars,
                   robotsVars,
                   gateVars, outVars>>

WorkerReturns(w) ==
    /\ coord = "closed"
    /\ pc[w] = "idle"
    /\ Goto(w, "exit")
    /\ UNCHANGED <<target, coordVars, ctxDone, visitVars, robotsVars, gateVars, outVars>>

RunReturns ==
    /\ coord = "closed"
    /\ \A w \in Workers : pc[w] = "exit"
    /\ coord' = "returned"
    /\ UNCHANGED <<target, frontier, inFlight, sawCancel, ctxDone, pc, visitVars,
                   robotsVars,
                   gateVars, outVars>>

Cancel ==
    /\ ~ctxDone
    /\ coord # "returned"
    /\ ctxDone' = TRUE
    /\ UNCHANGED <<target, coordVars, pc, visitVars, robotsVars, gateVars, outVars>>
-----------------------------------------------------------------------------
\* A target may ignore robots.txt, and its Crawl-delay with it.
RobotsIgnored(w) ==
    /\ pc[w] = "robots"
    /\ ~target.respectRobots
    /\ Goto(w, "request")
    /\ UNCHANGED <<target, coordVars, ctxDone, visitVars, robotsVars, gateVars, outVars>>

\* robots.Cache.For: the first visit fetches robots.txt, the others wait.
RobotsGet(w) ==
    /\ pc[w] = "robots"
    /\ target.respectRobots
    /\ robots = "none"
    /\ robots' = "getting"
    /\ Goto(w, "getting")
    /\ UNCHANGED <<target, coordVars, ctxDone, visitVars, rules, answer, gateVars,
                   outVars>>

RobotsAnswer(w) ==
    /\ pc[w] = "getting"
    /\ answer' \in RobotsGetter
    /\ rules' = RulesFor(answer', target.file)
    /\ robots' = "ready"
    /\ Goto(w, "robots")
    /\ UNCHANGED <<target, coordVars, ctxDone, visitVars, gateVars, outVars>>

\* The visit is over: its links go to the coordinator.
VisitEnds(w, ls) ==
    /\ Goto(w, "found")
    /\ links' = [links EXCEPT ![w] = ls]

RobotsDisallow(w) ==
    /\ pc[w] = "robots"
    /\ robots = "ready"
    /\ ~Allowed(rules, page[w])
    /\ stats' = [stats EXCEPT !.RobotsDisallow = @ + 1]
    /\ VisitEnds(w, <<>>)
    /\ UNCHANGED <<target, coordVars, ctxDone, page, attempt, robotsVars, gateVars,
                   fetched>>

\* waitCrawlDelay takes the gate's next slot and reserves the one after it;
\* without a Crawl-delay there is no gate to pass.
RobotsAllow(w) ==
    /\ pc[w] = "robots"
    /\ robots = "ready"
    /\ Allowed(rules, page[w])
    /\ IF rules.CrawlDelay > 0
       THEN /\ sleep' = [sleep EXCEPT ![w] = gate]
            /\ gate' = gate + rules.CrawlDelay
            /\ Goto(w, "gate")
       ELSE Goto(w, "request") /\ UNCHANGED <<gate, sleep>>
    /\ UNCHANGED <<target, coordVars, ctxDone, visitVars, robotsVars, since, outVars>>

PassGate(w) ==
    /\ pc[w] = "gate"
    /\ UNCHANGED <<target, coordVars, ctxDone, page, attempt, robotsVars, gate, since,
                   outVars>>
    /\ \/ sleep[w] = 0 /\ Goto(w, "request") /\ UNCHANGED <<sleep, links>>
       \/ /\ ctxDone
          /\ VisitEnds(w, <<>>)
          /\ sleep' = [sleep EXCEPT ![w] = 0]

\* Acquire sends a request; before it does it may find ctx ended.
Request(w) ==
    /\ pc[w] = "request"
    /\ since' = 0
    /\ Goto(w, "fetch")
    /\ UNCHANGED <<target, coordVars, ctxDone, visitVars, robotsVars, gate, sleep,
                   outVars>>

\* Acquire ends with a Canceled DroppedError: the visit counts nowhere.
VisitCanceled(w) ==
    /\ pc[w] \in {"request", "fetch"}
    /\ ctxDone
    /\ VisitEnds(w, <<>>)
    /\ UNCHANGED <<target, coordVars, ctxDone, page, attempt, robotsVars, gateVars,
                   outVars>>

\* Acquire goes on to the next attempt.
Retry(w) ==
    /\ pc[w] = "fetch"
    /\ attempt[w] < MaxRetries
    /\ attempt' = [attempt EXCEPT ![w] = @ + 1]
    /\ Goto(w, "request")
    /\ UNCHANGED <<target, coordVars, ctxDone, page, links, robotsVars, gateVars,
                   outVars>>

\* A permanent error, or the retries are used up (by failed extractions this
\* may happen after the end of ctx too).
VisitFailed(w) ==
    /\ pc[w] = "fetch"
    /\ stats' = [stats EXCEPT !.Failed = @ + 1]
    /\ VisitEnds(w, <<>>)
    /\ UNCHANGED <<target, coordVars, ctxDone, page, attempt, robotsVars, gateVars,
                   fetched>>

\* The links of the page that the request for p ends on.
LinksOf(p) == target.links[target.moved[p]]

\* Links are followed from pages above MaxDepth only.
\* The page is fetched and written (a write error is only logged).
VisitFetched(w) ==
    /\ pc[w] = "fetch"
    /\ stats' = [stats EXCEPT !.Fetched = @ + 1]
    /\ fetched' = fetched \cup {page[w]}
    /\ VisitEnds(w, IF frontier.depth[page[w]] < MaxDepth THEN LinksOf(page[w]) ELSE <<>>)
    /\ UNCHANGED <<target, coordVars, ctxDone, page, attempt, robotsVars, gateVars>>

Less1(n) == IF n > 0 THEN n - 1 ELSE 0

Tick ==
    /\ gate > 0 \/ since < MaxDelay
    /\ gate' = Less1(gate)
    /\ sleep' = [w \in Workers |-> Less1(sleep[w])]
    /\ since' = IF since < MaxDelay THEN since + 1 ELSE since
    /\ UNCHANGED <<target, coordVars, ctxDone, pc, visitVars, robotsVars, outVars>>

VisitStep(w) ==
    \/ RobotsIgnored(w) \/ RobotsGet(w) \/ RobotsAnswer(w) \/ RobotsDisallow(w) \/ RobotsAllow(w)
    \/ PassGate(w) \/ Request(w) \/ VisitCanceled(w)
    \/ Retry(w) \/ VisitFailed(w) \/ VisitFetched(w)

Coordinate ==
    \/ \E w \in Workers : SendJob(w) \/ ReceiveFound(w)
    \/ SeeCancel \/ CloseJobs \/ RunReturns

Finished == coord = "returned" /\ UNCHANGED crawlVars

Next ==
    \/ Coordinate \/ Cancel \/ Tick
    \/ \E w \in Workers : VisitStep(w) \/ WorkerReturns(w)
    \/ Finished

Spec == Init /\ [][Next]_crawlVars

\* Goroutines run on, time passes, requests end (they have timeouts).
FairSpec ==
    /\ Spec
    /\ WF_crawlVars(Coordinate)
    /\ WF_crawlVars(Tick)
    /\ \A w \in Workers : WF_crawlVars(VisitStep(w)) /\ WF_crawlVars(WorkerReturns(w))
-----------------------------------------------------------------------------
Visiting == {w \in Workers : pc[w] \notin {"idle", "exit"}}

(***************************************************************************)
(* Type invariant.  The frontier stays within MaxPages and MaxDepth.       *)
(***************************************************************************)
CrawlTypeOK ==
    /\ coord \in {"loop", "closed", "returned"}
    /\ frontier.depth \in [Pages -> {NotSeen} \cup 0..MaxDepth]
    /\ frontier.exhausted \in BOOLEAN
    /\ Cardinality(Seen(frontier)) <= MaxPages
    /\ frontier.pending \in Seq(Pages)
    /\ ctxDone \in BOOLEAN /\ sawCancel \in BOOLEAN
    /\ pc \in [Workers -> {"idle", "robots", "getting", "gate", "request", "fetch",
                           "found", "exit"}]
    /\ page \in [Workers -> Pages]
    /\ attempt \in [Workers -> 0..MaxRetries]
    /\ robots \in {"none", "getting", "ready"}
    /\ rules \in {AllowAll, DisallowAll, Parse(target.file)}
    /\ answer \in RobotsGetter \cup {[err |-> FALSE, status |-> 0]}
    /\ gate \in Nat /\ since \in 0..MaxDelay
    /\ sleep \in [Workers -> Nat]
    /\ inFlight = Cardinality(Visiting)
    /\ stats \in [{"Fetched", "Failed", "RobotsDisallow"} -> Nat]

(***************************************************************************)
(* No page is visited twice or counted twice, and without cancellation     *)
(* none is lost: what was discovered is queued, being visited, or in one   *)
(* of Fetched, Failed and RobotsDisallow, so that the counts add up to     *)
(* Discovered when Run returns.  A visit that ctx cut short is in none of  *)
(* them (crawler.go:72-79, 107-166, 170-259).                              *)
(***************************************************************************)
Counted == stats.Fetched + stats.Failed + stats.RobotsDisallow

EveryPageCounted ==
    LET accounted == Len(frontier.pending) + Counted
                     + Cardinality({w \in Visiting : pc[w] # "found"})
    IN /\ accounted <= Cardinality(Seen(frontier))
       /\ ~ctxDone => accounted = Cardinality(Seen(frontier))

(***************************************************************************)
(* A crawl that is not canceled misses nothing without saying so: when Run *)
(* returns without BudgetExhausted, every link of every page fetched above *)
(* MaxDepth was visited, whichever worker found it and when                *)
(* (crawler.go:86-87, 107-118, 140-162).                                   *)
(***************************************************************************)
NothingMissed ==
    coord = "returned" /\ ~ctxDone /\ ~frontier.exhausted =>
        \A p \in fetched : frontier.depth[p] < MaxDepth =>
            ToSet(LinksOf(p)) \subseteq Seen(frontier)

(***************************************************************************)
(* If the target respects robots.txt, no visit asks for a page before the  *)
(* file was asked for, for one that RFC 9309 forbids by what it says, or   *)
(* for any while it could not be read, although the parser reads it line   *)
(* by line and all visits share what one of them was answered, also if the *)
(* end of ctx cut that one short (crawler.go:175-185, robots.go:49-146,    *)
(* 195-222).  It speaks of plain files, as the code departs from RFC 9309  *)
(* on others, and of the page asked for: README.md:155 says "robots.txt is *)
(* obeyed by default" and robots.go:1 names RFC 9309, but where a redirect *)
(* leads is fetched unasked (http.go:86, 207-218).                         *)
(***************************************************************************)
RobotsObeyed ==
    target.respectRobots => \A w \in Workers : pc[w] \in {"gate", "request", "fetch"} =>
        /\ robots = "ready" /\ ~answer.err
        /\ \/ /\ answer.status \in 200..299
              /\ PlainFile(target.file) => RFCAllows(target.file, page[w])
           \/ answer.status = 404

(***************************************************************************)
(* Run returns, canceled or not: coordinator and workers never wait for    *)
(* each other at once on the two unbuffered channels, and no visit waits   *)
(* for a slot or the robots.txt of another visit forever                   *)
(* (crawler.go:120-166).                                                   *)
(***************************************************************************)
CrawlReturns == <>[](coord = "returned")

(***************************************************************************)
(* What crawler.go:86-87 says of Run: it crawls until every in-scope URL   *)
(* within MaxDepth and MaxPages has been visited.  A page first reached on *)
(* a longer path is not followed as far as its shortest path allows.       *)
(***************************************************************************)
LinkedWithin ==
    LET within[d \in 0..MaxDepth] ==
          IF d = 0 THEN ToSet(Starts)
          ELSE within[d - 1] \cup UNION {ToSet(LinksOf(p)) : p \in within[d - 1]}
    IN within[MaxDepth]

AllWithinDepthVisited ==
    coord = "returned" /\ ~ctxDone /\ ~frontier.exhausted /\ fetched = Seen(frontier)
        => LinkedWithin \subseteq Seen(frontier)

(***************************************************************************)
(* What crawler.go:42 says of the gate: it spaces requests to one host at  *)
(* least delay apart.  It spaces the starts of visits; the retries inside  *)
(* Acquire do not pass it.                                                 *)
(***************************************************************************)
RequestsSpaced ==
    [][\A w \in Workers :
          Request(w) => since >= rules.CrawlDelay]_crawlVars
=============================================================================
