# TLA+ models of web-harvester

This directory models the concurrent core of web-harvester in TLA+, checks it
with TLC on small instances and proves its safety properties with TLAPS for
every value of the constants. File names below are relative to `internal/` unless they
start with `cmd/` or are documents at the root of the repository.

## 1. The system

The harvester takes search queries from a queue, fetches a result page for
each through a pool of proxies, parses it and writes the result to a sink. The
crawler walks sites with the same acquisition machinery.

| Part | State | Operations | Talks to |
|---|---|---|---|
| proxy pool, `proxy/pool.go` | list of proxies, round-robin position; per proxy: failures in a row, end of cooldown, streak | `Next`, `ReportOutcome`, `Reload`, `NextAvailableAt` | called by all workers |
| rate limiter, `ratelimit/limiter.go` | rate per key | `Wait`, `Penalize`, `Reward` | called by all workers |
| worker pool, `worker/pool.go` | one job per worker: attempt, wait for a proxy | `Run`, `process`, `Acquire` | source, proxy pool, limiter, fetcher, sink, metrics |
| job sources, `queue/` | channel; for Redis: stream, group, pending list | `Jobs`, `PushJob`, `EnsureGroup` | worker pool, API, scheduler |
| crawler, `crawl/crawler.go` | frontier (seen, pending), visits in flight, Crawl-delay gates | `Run`, `visit` | `Acquire`, robots cache, sink |
| robots.txt, `robots/robots.go` | rules per origin, fetched once | `For`, `Parse`, `Allowed` | crawler |
| browser fetcher, `fetcher/playwright.go` | browser, idle sessions, count of open ones, slots, launch backoff | `Fetch`, `Close` | Chromium, worker pool |
| HTTP fetcher, `fetcher/http.go` | one transport per proxy, cookies | `Fetch` | target, worker pool |
| failover, provider and mock fetcher, `fetcher/` | none; the mock a counter | `Fetch` | HTTP and browser fetcher, provider |
| fetch outcomes, `fetcher/classify.go`, `errors.go` | none | `Classify`, page classifiers | all fetchers, worker pool |
| job API, scheduler, `api/`, `scheduler/` | number of queries submitted per run | `POST /jobs`, `GET /jobs/{run_id}`, cron | queue, sink |
| sinks, metrics, parsers, extraction, configuration | output, counters, none | | |

What is hard to test here: workers report on proxies they were given before
others banned them or before a reload; the limiter reads and writes a rate in
two steps; shutdown can find a job in any of its waits; processes crash
between the steps of the queue's protocol and replies of Redis get lost; the
crawler's coordinator and workers talk over two unbuffered channels; the
browser dies, is relaunched and is closed while fetches hold sessions of it;
one fetch may see a consent wall, a block and an error page one after the
other, with the end of the run in between; pushes of the API fail half way,
and the process ends between two of them.
`PROJECT.json` lists these hazards with their lines and the properties that
would catch them.

## 2. Modules

| Module | Models | Run with |
|---|---|---|
| `Limiter` | `ratelimit/limiter.go` | itself |
| `LimiterProofs` | theorems about `Limiter` | tlapm |
| `ProxyPool` | `proxy/pool.go` | `MCProxyPool` |
| `ProxyPoolProofs` | theorems about `ProxyPool` | tlapm |
| `Harvester` | `worker/pool.go` and `MemorySource`, composed with `ProxyPool` and `Limiter` | `MCHarvester` |
| `HarvesterProofs` | theorems about `Harvester`, from those of its two components | tlapm |
| `JobQueue` | what the shared queue promises (abstract) | through `RedisQueue` |
| `RedisQueue` | `queue/redis_stream.go`, several processes | itself |
| `RedisQueueProofs` | theorems about `RedisQueue`, the refinement of `JobQueue` among them | tlapm |
| `Robots` | `robots/robots.go`: `Parse`, `Allowed`, and what RFC 9309 says | `MCCrawler` |
| `Crawler` | `crawl/crawler.go` with `Robots` and its cache | `MCCrawler` |
| `CrawlerProofs` | theorems about `Crawler` and about the parser and matcher of `Robots` | tlapm |
| `BrowserPool` | sessions, launch and `Close` of `fetcher/playwright.go` | itself |
| `BrowserPoolProofs` | theorems about `BrowserPool` | tlapm |
| `Fetching` | one `Fetch` in every fetcher, with the classification of pages and errors | `MCFetching` |
| `FetchingProofs` | theorems about `Fetching` | tlapm |
| `JobAPI` | `api/server.go`, `scheduler/scheduler.go` and `cmd/api`, over `JobQueue` | `MCJobAPI` |
| `JobAPIProofs` | theorems about `JobAPI` | tlapm |

How they correspond to the code:

- **Limiter.** `Penalize` and `Reward` take the bucket's lock once to read the
  rate and once to write it, so each is two actions (`PenalizeRead` or
  `RewardRead`, then `SetLimit`). Rates are integers in a unit in which `RPS`
  and the step of 5% are whole; the run uses `RPS = 40`, `Step = 2`, fine
  enough for a halved rate to miss the multiples of the step, so that the last
  `Reward` is capped.
- **ProxyPool.** `Next` holds the pool's lock and looks at one proxy at a time
  under that proxy's own lock; `ReportOutcome` takes only the latter. So a
  `Next` is one action per inspection and reports fall in between. `cool[o]`
  is the rest of a cooldown. Proxies are objects, not URLs: a worker keeps an
  object that `Reload` has dropped. `WeightedSuccessRate` gives every healthy
  proxy a positive weight and so may choose as `Random` does; the success
  average is left out.
- **Harvester.** A worker's `pc` follows `runWorker`, `process`, `Acquire`,
  `nextProxy` and `recordOutcome` from one blocking call, lock or shared write
  to the next. The pool's and limiter's actions are those of the two modules,
  instantiated. Jobs are counted, not named. Outcomes that no branch of the
  code tells apart are one: `blocked` is captcha, interstitial and challenge,
  `failure` is timeout, transport, 5xx and other. Of `backoffDuration` the sign
  of its 64-bit product is kept (`BackoffPositive`): from attempt 38 on the
  code would panic. `BackoffAssumption` says so, and TLC evaluates it.
- **RedisQueue.** Redis is external: a stream, the last delivered entry of the
  group and the pending list. `Jobs` is read, hand-off, acknowledgement. A
  process in `Unreliable` crashes, is canceled, loses replies and
  acknowledgements; it starts again with its memory empty. `Claim` is the
  operator's `XCLAIM` of `RUNBOOK.md`; `claimed` remembers the entries it moved.
- **Crawler.** The coordinator's three-way `select` is `SendJob`,
  `ReceiveFound` and `SeeCancel`; a visit goes through robots.txt, the gate,
  requests and retries. Pages are normalized in-scope URLs of one host; the
  gates and the cache keep hosts apart, so a second host would be a second
  copy. The target respects robots.txt or not. The HTTP client follows
  redirects: `moved` says on which page a request for another ends. What is
  fetched and whose links are taken is that page (`LinksOf`), while the visit,
  its count and its robots.txt check are those of the page asked for.
- **Robots.** A file is a sequence of lines; `ReadLine` is the body of `Parse`'s
  loop, `Groups` the loop and `MergedFor` the merging of the groups that apply.
  Of a pattern its length and the pages it matches are kept. `Token` is the
  agent's product token and `Ours` the names the code takes for it, which are
  those the token contains. `RFCAllows` states, line by line and without the
  parser's state, which pages RFC 9309 lets the agent fetch. The code departs
  from it in two places, and `PlainFile` describes the files that meet neither.
  `RobotsObeyed` uses both; the assumption `ParsedAsRFC9309` of `MCCrawler`
  compares parser and RFC on the plain ones among all 11111 files of up to four
  lines out of ten kinds, and `DepartsFromRFC9309` shows a file for each
  departure.
- **BrowserPool.** Each critical section under `f.mu` is one action, a launch
  is two because the lock is held across it, sessions are closed outside it.
  `open` and `slots` are the code's counts, `sess` the truth about sessions.
- **Fetching.** An answer is a status, whether it is HTML, the telling part of
  its final URL, the markers the classifiers look for and its Retry-After. A
  fetch goes from one request, navigation or shared access to the next;
  servers answer with any page, requests fail in any of the ways the code
  tells apart. `setup` is one of the fetchers that `cmd/harvester` and
  `cmd/crawl` build. The two parts of `transportFor`, `Load` and
  `LoadOrStore`, are two actions. `page` is the last answer a fetch classified,
  `held` what it returns. They differ in the browser, where scripts make
  another page (`Scripted`) of the one that was classified: after the wait for
  the selector markup and URL are read again, the status and content type are
  not. Sessions of the browser are left to `BrowserPool`.
- **JobAPI.** `POST /jobs` is one action per push, one for the bookkeeping and
  one for the answer; `GET /jobs/{run_id}` reads `submitted` and counts rows in
  two; a tick of the schedule pushes as a POST does but goes on after an
  error. A push may fail with its entry stored all the same, and the Redis
  client may store an entry twice by repeating `XADD`. On a signal
  `ListenAndServe` returns at once, the ticks are waited for and the handlers
  are cut. The queue is `JobQueue`, which `RedisQueue` implements; harvesters
  are reduced to taking an entry and writing its row or not. They may take what
  waits and need not: `JobQueue` does not promise it. They do not crash here; what their
  crashes do to entries is in `RedisQueue`.

## 3. Runs

All passing runs check for deadlock; where a run of the program ends, the
model stutters explicitly (`Finished`).

| Run | Bounds | Shows |
|---|---|---|
| `limiter` | 2 workers, 1 key, rates 0..40 | the rate stays between floor and cap in every interleaving; a key whose target stops pushing back is at full rate for good in the end |
| `proxy_pool` | 2 workers, lists of up to 2 with a URL twice, empty or shorter on reload, threshold 2, cooldown 2 escalating to 3, Retry-After 2, streak up to 2 | cooldowns are bounded and never cut short, the position stays in the list, failures stay below the threshold, the pool recovers, no healthy proxy starves |
| `harvester` | 2 workers, 1 proxy, 2 jobs, 1 retry, channel of 1, strategy Random | every job is counted once; nothing is left behind without cancellation; shutdown harms no proxy; `Run` returns |
| `redis_queue` | 1 reliable and 1 unreliable process, 3 entries, batches of 2, 1 worker each | the queue implements `JobQueue`; the stream drains; a reliable process finishes what it read |
| `crawler` | 2 workers, sites of 5 and 3 pages with cycles, 2 robots.txt files obeyed or ignored, a page that redirects to a forbidden one, budget 4, depth 2, 1 retry, Crawl-delay 1 | every page is visited and counted once, nothing is missed silently, no page is asked for that robots.txt forbids as RFC 9309 reads it, `Run` returns |
| `browser_pool` | 2 fetches, 2 profiles, 2 session objects, pool of 2, 2 uses per session, 2 browsers | counts are exact, a session has one owner, idle sessions are on the current browser, `Close` leaves nothing, every `Fetch` returns |
| `fetch` | 2 fetches, 8 fetchers, 2 proxy URLs, one of them unreadable, 13 pages, of which scripts may show 2 | one transport per proxy, blocks are left alone, shutdown starts no browser, the outcome is that of the last answer, every fetch ends |
| `job_api` | 1 POST and 1 tick of 2 queries each, 1 status client, 1 push that may be repeated, 2 starts of the process | 202 means queued, the status knows what was accepted, scheduled runs are complete, whatever is begun ends, a stop of the process too |

Why these bounds: every property is about one proxy, key, entry, page or
session and the actors that meet at it, and two actors meet in every pair of
steps. One retry makes both branches of "another attempt?" happen; a budget
below the size of one site and above the size of the other makes both ends of
a crawl happen, and more pages queued than workers make the coordinator hold
work while every worker wants to report; a batch of two with one worker makes the reader wait with an
entry in hand; two uses per session make both reuse and retirement happen.
Two session objects are as many as the pool of two may hold; a fetch that would
open another while one is still being closed waits here, which the code does
not (see below), and the theorems, for any number of session objects, do not
suppose. A fetch of `browser_pool` waits for a slot while `Close` collects them
and for the lock during a launch; with as many fetches as slots they do not
wait for each other, for which three fetches and liveness on a pool of two take
longer than a run has. With one proxy every cooldown stops both workers of
`harvester`; two proxies with liveness are beyond the time a run has, and what
two proxies add, `proxy_pool` checks. The pages of `fetch` are each block,
consent and script page once and those on which two rules compete, such as a
consent form with a CAPTCHA, a CAPTCHA under the URL that asks for JavaScript
or a block page with status 429. Two queries make a
push that fails in the middle of a request happen, two starts a status asked
of a process that has forgotten the run. `MaxStreak`, `MaxEntries` and `MaxLaunches` bound counters that
the code does not bound. In `harvester` `MaxStreak` is the number of attempts
all jobs can make, so that it never blocks a report; in `proxy_pool` it does
cut off longer streaks, which the theorems cover. In `proxy_pool` a dropped
object that a worker still holds and a new one for the same URL do not exist
together; for any number of objects the safety properties are theorems.

Fairness, where liveness is checked: a goroutine that can go on does (weak
fairness of each worker, fetch, coordinator and reader), time passes, and
requests, renders, launches and closings end, because every fetcher sets a
timeout on them; only reading a page's markup (`fetcher/playwright.go:230`) has
none of its own, and is taken to end. `RedisQueue` assumes in addition that stopped processes are
started again; no operator has to claim anything. `BrowserPool` assumes strong fairness for the steps a fetch
waits for (`Served`): a slot, as Go serves the senders blocked on a channel in
turn, `f.mu`, as Go hands a mutex to a waiter it has kept waiting for long, and
the end of the fetcher, which closes a channel. In `Fetching` only a fetch's own steps are fair, its timeouts among them:
no server has to answer. In `JobAPI` handlers and ticks go on, because calls to
Redis and Postgres have timeouts, and main goes through its shutdown. Nothing
is assumed of the harvesters there, because an entry delivered in a lost reply
or to a process that ended before the hand-off is never taken. Nor is anything
assumed about cancellation, crashes, restarts of the API or calls of `Close`. The properties `RecoversFullRate`
and `RoundRobinStarvesNone` name what they need of the callers as premises.

### Disagreements with the documentation

Four runs check what a comment or document says and find that the code does
otherwise:

- `redis_queue_crash`: `queue/redis_stream.go:68-71` says a worker that
  crashes in the middle of a job leaves its entry pending. The entry is
  acknowledged when it is handed to the worker, so it is lost.
- `redis_queue_claim`: `RUNBOOK.md:65-68` says `XCLAIM` or a restart brings
  pending entries back. `Jobs` reads only new entries: in the trace a process
  crashes with a batch in hand, the batch is claimed for another one, both run
  on, the first one after a restart, and nobody ever works on the entry. By the
  same behaviour `README.md:266-268`, where entries of a consumer that dies are
  re-delivered to another, and `RUNBOOK.md:199-201`, where a redelivered entry
  writes a second row, describe what does not happen. That no entry is worked
  on twice, across crashes too (`ImplementsJobQueue`), is the good side of it.
- `crawler_depth`: `crawl/crawler.go:86-87` says every in-scope URL within
  `MaxDepth` is visited. A page keeps the depth at which it was first found,
  and which path is first depends on how fast workers answer.
- `crawler_delay`: `crawl/crawler.go:42` says requests to a host are spaced by
  the Crawl-delay. The gate is passed once per visit, retries do not pass it.

Smaller ones were seen in the models and have no run of their own:

- A `Penalize` that read the rate before two others halved it writes a rate
  above the current one and returns true (`ratelimit/limiter.go:64-79`). The
  bounds and the recovery of `limiter` hold all the same.
- `banStreak` also grows on reports that arrive while the proxy is cooling
  and start no cooldown, although `proxy/pool.go:87` says it counts cooldowns.
- A crawl's visit that is canceled is counted neither as failed nor as
  dropped, while `metrics/metrics.go:63-66` speaks of a complete count; the
  worker pool's jobs are complete (`EveryJobCounted`).
- `release` and `acquire` take a session off `open` before they close it, so
  for a moment more than `PoolSize` sessions are open, which
  `fetcher/playwright.go:75-76` rules out.
- `fetcher/http.go:29-30` speaks of every other status that is not 2xx as a
  `StatusError`; a 3xx without Location is returned as a success, by which
  `RobotsGetter` passes a 304 on to `Cache.For`.
- The answer to a consent form is classified by its markup whatever its content
  type (`fetcher/http.go:133`); the browser returns the content type of the
  consent page with the page that followed it (`fetcher/playwright.go:234-301`).
- A CAPTCHA under the URL that asks for JavaScript is an interstitial, because
  `fetcher/classify.go:191-196` goes by the URL first, and is tried again in the
  browser, although `fetcher/failover.go:14-16` sends CAPTCHA pages back to the
  worker pool. `BlocksAreLeftAlone` excepts it by name.
- The browser reads markup and URL again after the wait for the selector
  (`fetcher/playwright.go:284-301`) and classifies neither, so a success may
  carry a block page that scripts put in the place of a normal one.
  `OutcomeOfLastAnswer` promises a normal page only for what was classified.
- A redirect is followed to any page without a look at robots.txt
  (`fetcher/http.go:86`, `207-218`), although `README.md:155` says "robots.txt is
  obeyed by default". `RobotsObeyed` speaks of the page asked for.
- Every provider status but 200 and 429 is classified as other, so a permanent
  client error is retried and held against the proxy (`fetcher/provider.go:69`).
- `robots/robots.go:1-3` names RFC 9309. A record other than a rule between two
  User-agent lines, a Sitemap say, splits their list at `robots/robots.go:93-96`,
  and an agent line that names a part of the product token counts as ours at
  `:103`; the RFC has neither (`DepartsFromRFC9309`).
- `cmd/api/main.go:79-90` gives `Shutdown` five seconds to end requests, but main
  returns as soon as it begins, so POSTs in flight are cut. What was answered
  with 202 is safe, as `RUNBOOK.md` says of restarts (`AcceptedIsQueued`).
- A POST that fails half way, and any scheduled run, leaves jobs under a run ID
  for which `submitted_known` is false; `RUNBOOK.md:146-149` names restarts,
  replicas and typing errors as its causes. A sink error is only logged, so `completed` may stay below `submitted`;
  a repeated `XADD` may bring it above.

## 4. Proofs

The theorems hold for every value of the constants that satisfies the named
assumptions of the modules: positive rate and step; any floor; url lists over
the given URLs; any threshold and cooldowns; any sets of keys, objects,
sessions, profiles, processes and clients; finite sets of workers and fetches,
since the code counts them; any batch size, pool size, budget and depth; up to
37 retries, above which the backoff overflows; pages whose status is a
number and of which only HTML carries markup (`PagesAssumption`); any links,
redirects and robots.txt files, with a token that counts as itself and not as
"*" (`TokenAssumption`); no run ID for both a POST and a tick,
as `newRunID` makes them. TLC evaluates these assumptions in every run.

Every safety invariant and action property that a passing run checks is a
theorem. Each proof has the same shape: an inductive invariant, a lemma per
action or family of actions that preserve it, and one theorem per property.
The theorem that a property holds needs the invariant for these reasons:

- **LimiterProofs.** `LimiterTypeCorrect` and `LimiterFloor`. The floor is not
  inductive by itself, because a call writes what it computed from a rate read
  earlier: the invariant also says that what a pending call is about to write
  is at least the floor and at most `RPS`.
- **ProxyPoolProofs.** `PoolTypeCorrect`, `PoolCooldownBounded`,
  `PoolFailsBelowThreshold` and the action property `PoolCooldownKept`. The
  inductive invariant `PoolInv` adds that no scan is under way while the lock
  is free, which is what lets `Reload` replace the list under `PoolTypeOK`,
  and that the object `byURL` has for a URL is one of the list.
- **RedisQueueProofs.** `QueueInvariant`, `QueueTypeCorrect` and
  `QueueRefines`, the refinement of `JobQueue`: initial states map to initial
  states, a push is a `Push`, a hand-off is a `Take`, everything else
  stutters. The refinement needs that an entry in a batch and not yet handed
  over is pending and was never handed to anyone, that no entry is in the
  batches of two processes, and that undelivered entries are untouched
  (`BatchPending`, `BatchesDisjoint`, `NewUntouched`); `BatchWhere` ties the
  batch to the place in the loop and `NoGroup` says that nothing is delivered
  before the group exists.
- **HarvesterProofs.** `ImplementsComponents`: every step of the harvester is
  a step of `ProxyPool` and a step of `Limiter`, or leaves it alone, so the
  two specifications are refined and `ComponentsKeepTheirWord` follows from
  their invariants. The pool's part of `HarvesterInv` is `PoolInv` itself,
  preserved by the lemma of `ProxyPoolProofs`, which this module instantiates.
  `Holding` ties a worker's place to the proxy and the lock it holds, without
  which a report might not be one `ProxyPool` allows; `SourceDrained` says why
  no worker leaves early, for `RunLeavesNothing`; `LateOutcomes` says that a
  worker whose fetch returned after the end of ctx reports a success or a
  cancellation, for `ProxiesAreSpared`. `RunLeavesNothing` supposes that there
  is a worker: without one `Run` returns at once and leaves every query.
- **BrowserPoolProofs.** `CountsStayExact`, `SessionsHaveOneOwner`,
  `IdleSessionsAreCurrent`, `CloseStopsEverything` and the types. `PoolInv`
  says for every place of a fetch and of `Close` what is held there: the
  session a fetch owns and that nobody else does (`Owned`, `Rendering`), that
  a launch excludes everybody else under the lock (`Launching`), what `Close`
  has taken already (`Closing`), and that only the current browser can run and
  every open session is on one that runs (`BrowserRuns`). The counts
  are the cardinalities of the sets of holders, moved by one element per
  action.
- **FetchingProofs.** `TransportsArePooled`, `BlocksLeftAlone`,
  `NoBrowserAfterShutdown`, `ResultOfLastAnswer` and the types. `FetchingInv`
  is local to a fetch except for the table of transports: at each place it
  says what the last page was classified as, which is what makes the branches
  taken later correct, and what may already have been requested. `HeldInv` ties
  what a success returns to the page that was classified. `ClassifyFacts`
  proves of the classifiers that no page with a block is called normal or a
  consent wall, and none an interstitial except under the URL that asks for
  JavaScript.
- **JobAPIProofs.** `AcceptedRunsAreQueued`, `ScheduledRunsComplete`,
  `StatusIsTruthful` and the types. The invariant says how far a POST and a
  tick have got (`PostProgress`, `TickProgress`) and that a run pushes its
  queries in order (`PushedInOrder`), without which a push could meet an entry
  it does not expect; `Recording` orders `submitted` before the answer.
- **CrawlerProofs.** `PagesAreCounted`, `CrawlMissesNothing`,
  `PlainFilesParsed`, `NoForbiddenRequest` and the types. The frontier's facts (`GoodFrontier`)
  are proved of `EnqueueAll` by induction on the links a visit found.
  `LinksOnTheWay` is what makes `NothingMissed` inductive: between the fetch
  of a page and the coordinator's receipt its links are with a worker.
  `RulesKept` says that one visit asks for robots.txt and the rules all
  visits share are what its answer made them. `AllowedMeans` proves of
  the loop of `Allowed` that the longest rule wins and Allow wins a tie.
  `PlainFilesParsed` says that `Parse` and `Allowed` give, on every plain file,
  exactly what `RFCAllows` does. Its proof follows the loop of `Parse`:
  `ReadLineReads` says what one line does to the groups and `GroupsRun` that the
  loop is a run of such steps. Numbering the lines by the group they fall in
  (`GroupAt`) gives `GroupHolds`, the agents and rules of a group are those of
  the lines of its number, and `SameGroup`, two lines share a number if no group
  starts between them. `PlainStarts` and `GovernsSameGroup` identify these
  groups with the RFC's on plain files, `MergedHolds` does the merging of
  groups. With that `NoForbiddenRequest` has no hypothesis.

The library's induction theorems take a predicate as parameter, which the
installed provers cannot instantiate. `SetInduction` states induction with a
set instead, proved from the least element of a set of naturals, and with it
the recursive functions (`Kept`, `EnqueueAll`, `Groups`, `MergedFor`, `Allowed`) are reasoned about:
first that a function with the recursive equation exists, then what it returns.

Only model-checked: the liveness properties, which are beyond the proof system.

## 5. Not modelled

Parsing, extraction and configuration are pure functions of documents or
declarations, on DOM, JSON and YAML trees of libraries. Of the metrics only the
counters a property is about are modelled; the latency reservoir and the
Prometheus text are output, as are the SQL and JSON of the sinks. The load
generator drives the same worker pool and has no logic of its own. The tokens
of the rate limiter belong to golang.org/x/time/rate: `Wait` ends at some time.
The lengths of retry and launch backoffs are open. Regular expressions and
percent-decoding of robots.txt patterns and the normalisation of URLs are
library code or data. Several targets at once share only the limiter, whose
keys are independent.

## 6. Plan

1. Done: all modules and proofs listed above.
2. `JobAPI` uses `JobQueue` by its actions; that its entries are those of a
   `RedisQueue` is so far an argument in prose.
3. After the end of ctx `EveryPageCounted` is an upper bound only, since the
   code drops visits uncounted then; a count of the dropped ones would make it
   exact.
