------------------------------ MODULE Fetching ------------------------------
(***************************************************************************)
(* One fetch, from the request to the classified result, in every fetcher  *)
(* of internal/fetcher: the plain HTTP client (http.go), the browser's     *)
(* render (playwright.go), the failover between the two (failover.go), the *)
(* provider API (provider.go) and the mock (mock.go), with the page and    *)
(* error classification they share (classify.go, errors.go).               *)
(*                                                                         *)
(* A page is what the classification can tell about an answer: its status, *)
(* whether it is HTML, the marked part of its final URL, the markers in    *)
(* its DOM and its Retry-After header.  Servers answer with any page.  An  *)
(* error is the type errors.As and errors.Is would find in it.  What a     *)
(* success returns (status, content type, URL and markup) is kept apart    *)
(* from the page that was judged: in the browser the two may differ.       *)
(* Sessions and slots of the browser are the subject of BrowserPool;       *)
(* metrics, other headers, bodies and latencies are left out.              *)
(***************************************************************************)
EXTENDS Integers, FiniteSets

CONSTANTS
    Fetches,        \* the concurrent Fetch calls, each made once
    Proxies,        \* proxy URLs, one of them "" (direct)
    BadURLs,        \* the proxy URLs that do not parse
    Pages,          \* the answers a server may give
    Scripted,       \* those that scripts may make of a page once it is judged
    FailEvery,      \* Mock.FailEvery
    None

ASSUME FetchingAssumption ==
    /\ IsFiniteSet(Fetches) /\ None \notin Fetches
    /\ BadURLs \subseteq Proxies
    /\ FailEvery \in Nat
    /\ Scripted \subseteq Pages

\* What answers look like.  Only HTML has markers in its DOM ("stub" is a key
\* of the provider's JSON).
ASSUME PagesAssumption ==
    \A p \in Pages :
        /\ p \in [status : Nat, html : BOOLEAN, path : STRING, marks : SUBSET STRING,
                  retryAfter : STRING]
        /\ ~p.html => p.marks \subseteq {"stub"}

VARIABLES
    setup,          \* how main built the fetcher
    ctxDone,        \* the run's context has ended
    late,           \* history: fetches not past the HTTP part when ctx ended
    transports,     \* transports[u]: the fetch that made u's transport
    counter,        \* Mock.counter
    pc,             \* pc[f]: where fetch f is
    proxy,          \* proxy[f]: req.ProxyURL
    transport,      \* transport[f]: the transport f sends through
    number,         \* number[f]: f's turn at the mock
    page,           \* page[f]: the last answer, as it was judged
    held,           \* held[f]: what f would return of it, were it a success
    sent,           \* sent[f]: requests and navigations made
    err             \* err[f]: the error f has come to

vars == <<setup, ctxDone, late, transports, counter, pc, proxy, transport, number,
          page, held, sent, err>>

\* The fetchers of cmd/harvester (mock, live, provider, playwright, hybrid)
\* and of cmd/crawl (http, browser, auto; all of them Generic).
Setup(kind, generic, shells) == [fetcher |-> kind, generic |-> generic, shells |-> shells]
Setups ==
    {Setup(k, FALSE, FALSE) : k \in {"mock", "http", "provider", "browser", "hybrid"}}
    \cup {Setup("http", TRUE, FALSE), Setup("browser", TRUE, FALSE),
          Setup("hybrid", TRUE, TRUE)}

NoPage == [status |-> 0, html |-> FALSE, path |-> "/", marks |-> {}, retryAfter |-> "none"]

\* The status, content type, final URL and markup of a page.
Content(p) == [status |-> p.status, html |-> p.html, path |-> p.path, marks |-> p.marks]

Error(type) == [type |-> type, reason |-> "none", status |-> 0, retryAfter |-> "zero"]
NoError == Error("nil")

Init ==
    /\ setup \in Setups
    /\ ctxDone = FALSE
    /\ late = {}
    /\ transports = [u \in Proxies |-> None]
    /\ counter = 0
    /\ pc = [f \in Fetches |-> "start"]
    /\ proxy \in [Fetches -> Proxies]
    /\ transport = [f \in Fetches |-> None]
    /\ number = [f \in Fetches |-> 0]
    /\ page = [f \in Fetches |-> NoPage]
    /\ held = [f \in Fetches |-> Content(NoPage)]
    /\ sent = [f \in Fetches |-> 0]
    /\ err = [f \in Fetches |-> NoError]
-----------------------------------------------------------------------------
\* Google's non-results pages: the final URL decides first, then a CAPTCHA,
\* and only then a consent form.
classifyPage(p) ==
    CASE p.path = "/sorry/" -> "captcha"
      [] p.path = "/httpservice/retry/enablejs" -> "interstitial"
      [] p.path \notin {"/sorry/", "/httpservice/retry/enablejs"} ->
            IF p.marks \cap {"captchaForm", "widget"} # {} THEN "captcha"
            ELSE IF "consentForm" \in p.marks THEN "consent"
            ELSE "normal"

\* The pages of bot-protection vendors.  A widget on an ordinary page is no
\* block.
classifyGenericPage(p) ==
    IF \/ p.path = "/cdn-cgi/challenge-platform/"
       \/ "challengeForm" \in p.marks
       \/ p.status \in {403, 503} /\ "justAMoment" \in p.marks
    THEN "challenge"
    ELSE IF p.status >= 400 /\ "widget" \in p.marks THEN "captcha"
    ELSE "normal"

classify(p) == IF setup.generic THEN classifyGenericPage(p) ELSE classifyPage(p)

isHTML(p) == p.html
requiresJS(p) == "enableJS" \in p.marks
looksLikeJSShell(p) == "script" \in p.marks /\ "text" \notin p.marks

needsJS(p) ==
    IF setup.generic THEN setup.shells /\ looksLikeJSShell(p) ELSE requiresJS(p)

\* An empty, negative, past or unreadable header counts as none.
parseRetryAfter(header) == IF header = "wait" THEN "wait" ELSE "zero"

blockedErrorFor(kind, p) == [Error("blocked") EXCEPT !.reason = kind, !.status = p.status]
RateLimitError(p, wait) ==
    [Error("rateLimit") EXCEPT !.status = p.status, !.retryAfter = wait]
StatusError(p) == [Error("status") EXCEPT !.status = p.status]

Classify(e) ==
    CASE e.type = "nil" -> "success"
      [] e.type = "rateLimit" -> "rate_limited"
      [] e.type = "blocked" ->
            IF e.reason \in {"captcha", "consent", "challenge"} THEN e.reason
            ELSE "interstitial"
      [] e.type = "status" -> IF e.status >= 500 THEN "http_5xx" ELSE "http_4xx"
      [] OTHER -> e.type

\* The end of HTTPFetcher.Fetch and of render: a block page first, then the
\* status.
Verdict(kind, p, wait) ==
    IF kind # "normal" THEN blockedErrorFor(kind, p)
    ELSE IF p.status = 429 THEN RateLimitError(p, wait)
    ELSE IF p.status >= 400 THEN StatusError(p)
    ELSE NoError
-----------------------------------------------------------------------------
Goto(f, l) == pc' = [pc EXCEPT ![f] = l]
Sent(f) == sent' = [sent EXCEPT ![f] = @ + 1]

\* An answer: the page to judge and what will be returned of it.
Got(f, p, h) ==
    /\ page' = [page EXCEPT ![f] = p]
    /\ held' = [held EXCEPT ![f] = h]

\* Fetch is over: the caller gets e.  Under a FailoverFetcher the end of the
\* HTTP fetch is only the end of the primary.
Returns(f, e) ==
    /\ err' = [err EXCEPT ![f] = e]
    /\ Goto(f, IF setup.fetcher = "hybrid" /\ pc[f] \in {"load", "store", "get", "consent"}
               THEN "primary" ELSE "done")

Start(f) ==
    /\ pc[f] = "start"
    /\ Goto(f, CASE setup.fetcher \in {"http", "hybrid"} -> "load"
                 [] setup.fetcher = "browser" -> "acquire"
                 [] setup.fetcher = "provider" -> "search"
                 [] setup.fetcher = "mock" -> "mock")
    /\ UNCHANGED <<setup, ctxDone, late, transports, counter, proxy, transport, number,
                   page, held, sent, err>>

Cancel ==
    /\ ~ctxDone
    /\ ctxDone' = TRUE
    /\ late' = {f \in Fetches : pc[f] \in
                    {"start", "load", "store", "get", "consent", "primary"}}
    /\ UNCHANGED <<setup, transports, counter, pc, proxy, transport, number, page, held, sent, err>>
-----------------------------------------------------------------------------
\* transportFor: a Load, and on a miss a LoadOrStore of a new transport.
Load(f) ==
    /\ pc[f] = "load"
    /\ transport' = [transport EXCEPT ![f] = transports[proxy[f]]]
    /\ Goto(f, IF transports[proxy[f]] # None THEN "get" ELSE "store")
    /\ UNCHANGED <<setup, ctxDone, late, transports, counter, proxy, number, page, held, sent, err>>

Stored(f) == f
LoadedOrStored(f) == IF transports[proxy[f]] # None THEN transports[proxy[f]] ELSE f

LoadOrStore(f) ==
    /\ pc[f] = "store"
    /\ UNCHANGED <<setup, ctxDone, late, counter, proxy, number, page, held, sent>>
    /\ \/ /\ proxy[f] \notin BadURLs
          /\ transports' = [transports EXCEPT ![proxy[f]] = LoadedOrStored(f)]
          /\ transport' = [transport EXCEPT ![f] = transports'[proxy[f]]]
          /\ Goto(f, "get")
          /\ UNCHANGED err
       \/ /\ proxy[f] \in BadURLs       \* the *url.Error of url.Parse
          /\ Returns(f, Error("transport"))
          /\ UNCHANGED <<transports, transport>>

httpRest == <<setup, ctxDone, late, transports, counter, proxy, transport, number>>

\* do: the request or the body's transfer fails.  Which error it is depends
\* on ctx, on the client's timeout and on the network.
DoErrorsUntimed == IF ctxDone THEN {"canceled"} ELSE {}
DoErrors == {"timeout", "transport"} \cup (IF ctxDone THEN {"canceled"} ELSE {})

HTTPFails(f) ==
    /\ pc[f] \in {"get", "consent"}
    /\ \E e \in DoErrors : Returns(f, Error(e))
    /\ Sent(f)
    /\ UNCHANGED <<httpRest, page, held>>

\* The answer to the GET.  A consent page with a "reject all" form leads to a
\* second request, unless the form's action does not parse.
HTTPJudged(p, kind) ==
    Verdict(IF kind = "normal" /\ isHTML(p) /\ needsJS(p) THEN "interstitial" ELSE kind,
            p, parseRetryAfter(p.retryAfter))

HTTPAnswered(f) ==
    /\ pc[f] = "get"
    /\ Sent(f)
    /\ UNCHANGED httpRest
    /\ \E p \in Pages :
        LET kind == IF isHTML(p) THEN classify(p) ELSE "normal" IN
        /\ Got(f, p, Content(p))
        /\ \/ kind = "consent" /\ "rejectForm" \in p.marks /\ Goto(f, "consent") /\ UNCHANGED err
           \/ Returns(f, HTTPJudged(p, kind))

\* The answer to the consent form is judged afresh and for good.
StaleVerdict(f, p) == HTTPJudged([p EXCEPT !.status = page[f].status], classify(p))
ConsentVerdict(f, p) == HTTPJudged(p, classify(p))

ConsentStepAgain(f, p) ==
    IF classify(p) = "consent" /\ "rejectForm" \in p.marks
    THEN Goto(f, "consent") /\ UNCHANGED err
    ELSE Returns(f, ConsentVerdict(f, p))
ConsentStep(f, p) == Returns(f, ConsentVerdict(f, p))

HTTPConsentAnswered(f) ==
    /\ pc[f] = "consent"
    /\ Sent(f)
    /\ UNCHANGED httpRest
    /\ \E p \in Pages :
        /\ Got(f, p, Content(p))
        /\ ConsentStep(f, p)
-----------------------------------------------------------------------------
FailoverOnBlocks(o) == o \in {"interstitial", "consent", "captcha", "challenge"}
DefaultFailoverOn(o) == o \in {"interstitial", "consent"}

FailoverUnchecked(f) == DefaultFailoverOn(Classify(err[f]))
FailsOver(f) ==
    /\ err[f] # NoError
    /\ ~ctxDone
    /\ DefaultFailoverOn(Classify(err[f]))

\* FailoverFetcher.Fetch, after the primary has returned.
Failover(f) ==
    /\ pc[f] = "primary"
    /\ IF FailsOver(f) THEN Goto(f, "acquire") /\ err' = [err EXCEPT ![f] = NoError]
                       ELSE Goto(f, "done") /\ UNCHANGED err
    /\ UNCHANGED <<httpRest, page, held, sent>>

\* PlaywrightFetcher.Fetch: acquire a session, or fail (closed, no browser, no
\* session for this proxy, or ctx has ended; with both a slot and ctx.Done
\* ready, Go picks either).
Acquire(f) ==
    /\ pc[f] = "acquire"
    /\ UNCHANGED <<httpRest, page, held, sent>>
    /\ \/ proxy[f] \notin BadURLs /\ Goto(f, "goto") /\ UNCHANGED err
       \/ \E e \in {"timeout", "other"} : Returns(f, Error(e))
       \/ ctxDone /\ Returns(f, Error("canceled"))

Rendering(f) == pc[f] \in {"goto", "click", "selector"}

\* ctx ends while render runs: the session is closed and Fetch returns
\* ctx.Err(), whatever render made of it.
RenderCanceled(f) ==
    /\ Rendering(f)
    /\ ctxDone
    /\ Returns(f, Error("canceled"))
    /\ UNCHANGED <<httpRest, page, held, sent>>

\* navigationError, for Goto and for the click; reading the page's content
\* may fail as well.
NavigationFails(f) ==
    /\ pc[f] \in {"goto", "click"}
    /\ \E e \in {"timeout", "transport", "other"} : Returns(f, Error(e))
    /\ Sent(f)
    /\ UNCHANGED <<httpRest, page, held>>

\* A navigation within the document has no response, hence no status, and a
\* content type that isHTML takes for HTML.
BrowserAnswers ==
    Pages \cup {[p EXCEPT !.status = 0, !.html = TRUE, !.retryAfter = "none"] : p \in Pages}

\* The rest of render: a block, a bad status, or the wait for the selector.
\* The header's value is a call to the driver, which may fail.
Rendered(f, p) ==
    \E wait \in {parseRetryAfter(p.retryAfter), "zero"} :
        LET e == Verdict(classify(p), p, wait) IN
        IF e = NoError THEN Goto(f, "selector") /\ UNCHANGED err
                       ELSE Returns(f, e)

\* A "reject all" form may have no button, or its count may fail.
Navigated(f) ==
    /\ pc[f] = "goto"
    /\ Sent(f)
    /\ UNCHANGED httpRest
    /\ \E p \in BrowserAnswers :
        /\ Got(f, p, Content(p))
        /\ \/ /\ classify(p) = "consent" /\ "rejectForm" \in p.marks
              /\ Goto(f, "click") /\ UNCHANGED err
           \/ Rendered(f, p)

\* submitRejectConsent navigated away from the consent page.  The content type
\* is still that of the first response.
RejectClicked(f) ==
    /\ pc[f] = "click"
    /\ Sent(f)
    /\ UNCHANGED httpRest
    /\ \E p \in BrowserAnswers :
        /\ Got(f, p, [Content(p) EXCEPT !.html = held[f].html])
        /\ Rendered(f, p)

\* The end of render.  By now the page's scripts may have made another page
\* of it.  A selector that turns up has the markup read anew, which may fail;
\* without one, or when it is missing, the markup stays.  The URL is read last
\* in any case, and nothing is classified again.
SelectorWaited(f) ==
    /\ pc[f] = "selector"
    /\ \/ /\ \E q \in Scripted \cup {page[f]} : \E marks \in {page[f].marks, q.marks} :
             held' = [held EXCEPT ![f] =
                         [status |-> IF @.status = 0 THEN 200 ELSE @.status,
                          html |-> @.html, path |-> q.path, marks |-> marks]]
          /\ Returns(f, NoError)
       \/ Returns(f, Error("other")) /\ UNCHANGED held
    /\ UNCHANGED <<httpRest, page, sent>>
-----------------------------------------------------------------------------
\* ProviderFetcher.Fetch: the search.  A transfer that breaks off is wrapped
\* in a plain error, as is every status but 200 and 429.
SearchFails(f) ==
    /\ pc[f] = "search"
    /\ \E e \in DoErrors \cup {"other"} : Returns(f, Error(e))
    /\ Sent(f)
    /\ UNCHANGED <<httpRest, page, held>>

SearchAnswered(f) ==
    /\ pc[f] = "search"
    /\ proxy[f] \notin BadURLs
    /\ Sent(f)
    /\ UNCHANGED httpRest
    /\ \E p \in Pages :
        /\ Got(f, p, Content(p))
        /\ CASE p.status = 429 ->
                  Returns(f, RateLimitError(p, parseRetryAfter(p.retryAfter)))
             [] p.status = 200 /\ "stub" \in p.marks -> Goto(f, "followUp") /\ UNCHANGED err
             [] p.status = 200 /\ "stub" \notin p.marks -> Returns(f, NoError)
             [] p.status \notin {200, 429} -> Returns(f, Error("other"))

\* resolveAIOverview's follow-up request: whatever goes wrong, the search's
\* body is returned as it was; else with the overview in the stub's place.
FollowUpErrorAnyway == {Error("transport")}
FollowUpError == {NoError}

FollowUp(f) ==
    /\ pc[f] = "followUp"
    /\ Sent(f)
    /\ UNCHANGED httpRest
    /\ UNCHANGED page
    /\ \/ /\ held' = [held EXCEPT ![f].marks = (@ \ {"stub"}) \cup {"overview"}]
          /\ Returns(f, NoError)
       \/ /\ UNCHANGED held
          /\ \E e \in FollowUpError : Returns(f, e)
-----------------------------------------------------------------------------
\* Mock.Fetch: take a number, sleep, and fail on every FailEvery-th.
MockTurn(f) ==
    /\ pc[f] = "mock"
    /\ counter' = counter + 1
    /\ number' = [number EXCEPT ![f] = counter + 1]
    /\ Goto(f, "latency")
    /\ UNCHANGED <<setup, ctxDone, late, transports, proxy, transport, page, held, sent, err>>

MockReturns(f) ==
    /\ pc[f] = "latency"
    /\ UNCHANGED <<httpRest, page, held, sent>>
    /\ \/ Returns(f, IF FailEvery > 0 /\ number[f] % FailEvery = 0
                     THEN Error("other") ELSE NoError)
       \/ ctxDone /\ Returns(f, Error("canceled"))
-----------------------------------------------------------------------------
Answered(f) ==
    \/ HTTPAnswered(f) \/ HTTPConsentAnswered(f)
    \/ Navigated(f) \/ RejectClicked(f) \/ SearchAnswered(f)

OwnStep(f) ==
    \/ Start(f) \/ Load(f) \/ LoadOrStore(f) \/ HTTPFails(f) \/ Failover(f)
    \/ Acquire(f) \/ RenderCanceled(f) \/ NavigationFails(f) \/ SelectorWaited(f)
    \/ SearchFails(f) \/ FollowUp(f) \/ MockTurn(f) \/ MockReturns(f)

Finished == (\A f \in Fetches : pc[f] = "done") /\ UNCHANGED vars

Next == Cancel \/ (\E f \in Fetches : Answered(f) \/ OwnStep(f)) \/ Finished

Spec == Init /\ [][Next]_vars

\* A fetch goes on by itself, its timeouts included.  No server has to answer.
FairSpec == Spec /\ \A f \in Fetches : WF_vars(OwnStep(f))
-----------------------------------------------------------------------------
\* What a fetch may hold: the URLs and marks of pages somebody sent.
Contents ==
    [status : Nat, html : BOOLEAN, path : {p.path : p \in Pages \cup {NoPage}},
     marks : SUBSET ((UNION {p.marks : p \in Pages}) \cup {"overview"})]

Locations == {"start", "load", "store", "get", "consent", "primary", "acquire", "goto",
              "click", "selector", "search", "followUp", "mock", "latency", "done"}

(***************************************************************************)
(* Type invariant.  A fetch sends at most two requests over HTTP and makes *)
(* at most two navigations: a consent page that comes back after its form  *)
(* was submitted is not submitted again (http.go:118-142,                  *)
(* playwright.go:239-259).                                                 *)
(***************************************************************************)
FetchTypeOK ==
    /\ pc \in [Fetches -> Locations]
    /\ late \subseteq Fetches
    /\ transports \in [Proxies -> Fetches \cup {None}]
    /\ transport \in [Fetches -> Fetches \cup {None}]
    /\ counter \in 0..Cardinality(Fetches)
    /\ \A f \in Fetches :
          /\ page[f] \in BrowserAnswers \cup {NoPage}
          /\ held[f] \in Contents
          /\ sent[f] \in 0..(IF setup.fetcher = "hybrid" THEN 4 ELSE 2)

(***************************************************************************)
(* Connections are pooled per egress identity: the concurrent first        *)
(* fetches through a proxy all end up on the same transport, although each *)
(* may have built its own (http.go:54-57, 176-195).                        *)
(***************************************************************************)
OneTransportPerProxy ==
    \A f, g \in Fetches :
        /\ proxy[f] = proxy[g]
        /\ transport[f] # None /\ transport[g] # None
        => transport[f] = transport[g]

ShowsBlock(p) ==
    p.html /\ IF setup.generic
              THEN \/ p.path = "/cdn-cgi/challenge-platform/"
                   \/ "challengeForm" \in p.marks
                   \/ p.status \in {403, 503} /\ p.marks \cap {"justAMoment", "widget"} # {}
              ELSE \/ p.path = "/sorry/"
                   \/ p.marks \cap {"captchaForm", "widget"} # {}

(***************************************************************************)
(* Nothing interacts with a CAPTCHA or a challenge: after such a page no   *)
(* form is submitted, no button clicked and no browser started, also when  *)
(* the page is the answer to the consent form or carries a consent form    *)
(* itself (failover.go:14-16, classify.go:186-187, 232-233).  There is one *)
(* exception: classifyPage goes by the URL before it looks for a CAPTCHA   *)
(* (classify.go:191-196), so a CAPTCHA under the URL of the page that asks *)
(* for JavaScript is an interstitial and does start the browser, although  *)
(* failover.go:14-16 says that CAPTCHA pages "go back to the worker pool". *)
(***************************************************************************)
AsksForJS(p) == ~setup.generic /\ p.path = "/httpservice/retry/enablejs"

BlocksAreLeftAlone ==
    \A f \in Fetches :
        /\ pc[f] \in {"consent", "click"} => ~ShowsBlock(page[f])
        /\ pc[f] \in {"acquire", "goto"} => ~ShowsBlock(page[f]) \/ AsksForJS(page[f])

(***************************************************************************)
(* Shutdown starts no browser work: a fetch that was not past its HTTP     *)
(* part when ctx ended never takes a browser session, although a consent   *)
(* or script page that came in time or late would call for one             *)
(* (failover.go:38).                                                       *)
(***************************************************************************)
ShutdownStartsNoBrowser ==
    setup.fetcher = "hybrid" =>
        \A f \in late : pc[f] \notin {"acquire", "goto", "click", "selector"}

BlockOutcomes == {"captcha", "challenge", "consent", "interstitial"}

(***************************************************************************)
(* The result is that of the last answer, whatever pages came before it: a *)
(* success only for a page below 400 that shows no block and no consent    *)
(* wall, a rate limit only for a 429 and never with another answer's       *)
(* Retry-After, a final client error only for a 4xx that is no 429; and a  *)
(* success returns that answer's status and, over plain HTTP, its URL,     *)
(* content type and markup (http.go:126-158, playwright.go:239-301).  In   *)
(* the browser only the page judged is promised to be free of blocks: the  *)
(* markup and the URL returned are read again later and judged no more     *)
(* (playwright.go:284-301), and the content type is the first response's   *)
(* (234-236).  A status below 400 that is no 2xx is a success too, where   *)
(* http.go:29-30 says "other non-2xx statuses are a StatusError".          *)
(*                                                                         *)
(* A search the provider has answered is not lost to the follow-up request *)
(* for its AI overview: no failed follow-up and no shutdown in the middle  *)
(* of it turns the fetch into an error or costs anything of the body       *)
(* (provider.go:80-84).                                                    *)
(***************************************************************************)
OutcomeOfLastAnswer ==
    \A f \in {g \in Fetches : pc[g] = "done"} :
        LET p == page[f]
            o == Classify(err[f]) IN
        IF setup.fetcher = "provider"
        THEN p.status = 200 => o = "success" /\ p.marks \ {"stub"} \subseteq held[f].marks
        ELSE setup.fetcher # "mock" =>
        /\ o = "success" =>
              /\ p.status < 400 /\ ~ShowsBlock(p)
              /\ ~setup.generic => "consentForm" \notin p.marks
              /\ setup.fetcher = "http" /\ p.html => ~needsJS(p)
              /\ p.status # 0 => held[f].status = p.status
              /\ setup.fetcher = "http" => held[f] = Content(p)
        /\ o = "rate_limited" =>
              /\ p.status = 429
              /\ err[f].retryAfter # "zero" => p.retryAfter = "wait"
        /\ o = "http_4xx" => p.status \in 400..499 \ {429}
        /\ o = "http_5xx" => p.status >= 500
        /\ o \in BlockOutcomes => p.marks # {} \/ p.path # "/"

(***************************************************************************)
(* Every fetch returns, also when the server never answers and ctx never   *)
(* ends: each request is under a timeout, and no chain of consent pages,   *)
(* failover and follow-up goes on forever (http.go:86,                     *)
(* playwright.go:203-216).                                                 *)
(***************************************************************************)
EveryFetchEnds == \A f \in Fetches : <>(pc[f] = "done")
=============================================================================
