--------------------------- MODULE FetchingProofs ---------------------------
(***************************************************************************)
(* Proofs about Fetching, for every set of concurrent fetches, proxies and *)
(* answers: connections are pooled per proxy, blocks are left alone, a     *)
(* shutdown starts no browser, and a result is that of the last answer.    *)
(***************************************************************************)
EXTENDS Fetching, FiniteSetTheorems, TLAPS

Kinds == {"normal", "captcha", "consent", "challenge", "interstitial"}
Waits == {"wait", "zero"}
Fetchers == {"mock", "http", "provider", "browser", "hybrid"}

\* What the proofs use of a page.
IsPage(p) == p.status \in Nat

\* A page that may lead to the browser.
Spared(p) == ~ShowsBlock(p) \/ AsksForJS(p)

Marked(p) == p.marks # {} \/ p.path # "/"

SetupShape == setup \in [fetcher : Fetchers, generic : BOOLEAN, shells : BOOLEAN]

\* A page's kind tells what it shows: only a page that shows no block is
\* normal or a consent wall, and only the URL that asks for JavaScript makes
\* an interstitial (classify.go:24-60, 180-240).
LEMMA ClassifyFacts ==
    ASSUME SetupShape, NEW p, IsPage(p)
    PROVE  /\ classify(p) \in Kinds
           /\ classify(p) \in {"normal", "consent"} => ~ShowsBlock(p)
           /\ classify(p) = "interstitial" => AsksForJS(p)
           /\ classify(p) = "normal" /\ ~setup.generic => "consentForm" \notin p.marks
           /\ classify(p) # "normal" => Marked(p)
<1>1. p.status \in Nat
  BY DEF IsPage
<1>2. CASE setup.generic
  <2> DEFINE challenge == \/ p.path = "/cdn-cgi/challenge-platform/"
                          \/ "challengeForm" \in p.marks
                          \/ p.status \in {403, 503} /\ "justAMoment" \in p.marks
  <2>1. classify(p) = classifyGenericPage(p)
    BY <1>2 DEF classify
  <2>2. CASE challenge
    <3>1. classify(p) = "challenge"
      BY <2>1, <2>2 DEF classifyGenericPage
    <3>2. Marked(p)
      BY <2>2 DEF Marked
    <3> QED BY <1>2, <3>1, <3>2 DEF Kinds
  <2>3. CASE ~challenge /\ p.status >= 400 /\ "widget" \in p.marks
    <3>1. classify(p) = "captcha"
      BY <2>1, <2>3 DEF classifyGenericPage
    <3>2. Marked(p)
      BY <2>3 DEF Marked
    <3> QED BY <1>2, <3>1, <3>2 DEF Kinds
  <2>4. CASE ~challenge /\ ~(p.status >= 400 /\ "widget" \in p.marks)
    <3>1. classify(p) = "normal"
      BY <2>1, <2>4 DEF classifyGenericPage
    <3>2. ~ShowsBlock(p)
      BY <1>1, <1>2, <2>4 DEF ShowsBlock
    <3> QED BY <1>2, <3>1, <3>2 DEF Kinds
  <2> QED BY <2>2, <2>3, <2>4
<1>3. CASE ~setup.generic
  <2>1. classify(p) = classifyPage(p)
    BY <1>3 DEF classify
  <2>2. CASE p.path = "/sorry/"
    <3>1. classify(p) = "captcha"
      BY <2>1, <2>2 DEF classifyPage
    <3>2. Marked(p)
      BY <2>2 DEF Marked
    <3> QED BY <3>1, <3>2 DEF Kinds
  <2>3. CASE p.path = "/httpservice/retry/enablejs"
    <3>1. classify(p) = "interstitial"
      BY <2>1, <2>3 DEF classifyPage
    <3>2. AsksForJS(p)
      BY <1>3, <2>3 DEF AsksForJS
    <3>3. Marked(p)
      BY <2>3 DEF Marked
    <3> QED BY <3>1, <3>2, <3>3 DEF Kinds
  <2>4. CASE p.path \notin {"/sorry/", "/httpservice/retry/enablejs"}
    <3>1. classify(p) = IF p.marks \cap {"captchaForm", "widget"} # {} THEN "captcha"
                        ELSE IF "consentForm" \in p.marks THEN "consent"
                        ELSE "normal"
      BY <2>1, <2>4 DEF classifyPage
    <3>2. p.marks \cap {"captchaForm", "widget"} = {} => ~ShowsBlock(p)
      BY <1>3, <2>4 DEF ShowsBlock
    <3>3. classify(p) # "normal" => Marked(p)
      BY <3>1 DEF Marked
    <3> QED BY <3>1, <3>2, <3>3 DEF Kinds
  <2> QED BY <2>2, <2>3, <2>4
<1> QED BY <1>2, <1>3

\* What a verdict says of the page it is about (http.go:135-158,
\* playwright.go:262-310, errors.go).
LEMMA VerdictFacts ==
    ASSUME NEW p, IsPage(p), NEW kind \in Kinds, NEW wait \in Waits,
           NEW e, e = Verdict(kind, p, wait), NEW o, o = Classify(e)
    PROVE  /\ o = "success" => kind = "normal" /\ p.status < 400
           /\ e = NoError <=> kind = "normal" /\ p.status < 400
           /\ o = "rate_limited" => p.status = 429 /\ e.retryAfter = wait
           /\ o = "http_4xx" => p.status \in 400..499 \ {429}
           /\ o = "http_5xx" => p.status >= 500
           /\ o \in BlockOutcomes => o = kind
<1>1. p.status \in Nat
  BY DEF IsPage
<1>2. NoError.type = "nil"
  BY DEF NoError, Error
<1>3. CASE kind # "normal"
  <2>1. e = blockedErrorFor(kind, p)
    BY <1>3 DEF Verdict
  <2>2. e.type = "blocked" /\ e.reason = kind
    BY <2>1 DEF blockedErrorFor, Error
  <2>3. Classify(e) = kind
    BY <1>3, <2>2 DEF Classify, Kinds
  <2>4. e # NoError
    BY <1>2, <2>2
  <2> QED BY <1>3, <2>3, <2>4 DEF Kinds
<1>4. CASE kind = "normal" /\ p.status = 429
  <2>1. e = RateLimitError(p, wait)
    BY <1>4 DEF Verdict
  <2>2. e.type = "rateLimit" /\ e.retryAfter = wait
    BY <2>1 DEF RateLimitError, Error
  <2>3. Classify(e) = "rate_limited" /\ e # NoError
    BY <1>2, <2>2 DEF Classify
  <2> QED BY <1>4, <2>2, <2>3 DEF BlockOutcomes
<1>5. CASE kind = "normal" /\ p.status # 429 /\ p.status >= 400
  <2>1. e = StatusError(p)
    BY <1>5 DEF Verdict
  <2>2. e.type = "status" /\ e.status = p.status
    BY <2>1 DEF StatusError, Error
  <2>3. Classify(e) = IF p.status >= 500 THEN "http_5xx" ELSE "http_4xx"
    BY <2>2 DEF Classify
  <2>4. e # NoError
    BY <1>2, <2>2
  <2> QED BY <1>1, <1>5, <2>3, <2>4 DEF BlockOutcomes
<1>6. CASE kind = "normal" /\ p.status < 400
  <2>1. e = NoError
    BY <1>1, <1>6 DEF Verdict
  <2>2. Classify(e) = "success"
    BY <1>2, <2>1 DEF Classify
  <2> QED BY <1>6, <2>1, <2>2 DEF BlockOutcomes
<1> QED BY <1>1, <1>3, <1>4, <1>5, <1>6

\* An error of the network or of the driver is no verdict on a page.
LEMMA ErrorFacts ==
    ASSUME NEW t \in {"timeout", "transport", "canceled", "other"}
    PROVE  Classify(Error(t)) = t /\ Error(t) # NoError
  BY DEF Classify, Error, NoError

\* Success is success.
LEMMA NoErrorFacts == Classify(NoError) = "success"
  BY DEF Classify, Error, NoError

-----------------------------------------------------------------------------
\* The pages a fetch may hold.
PagesSeen == BrowserAnswers \cup {NoPage}

\* Where a fetch can be, by the fetcher it runs in.
PlacesOf(kind) ==
    {"start", "done"} \cup
    CASE kind = "mock" -> {"mock", "latency"}
      [] kind = "http" -> {"load", "store", "get", "consent"}
      [] kind = "provider" -> {"search", "followUp"}
      [] kind = "browser" -> {"acquire", "goto", "click", "selector"}
      [] kind = "hybrid" -> {"load", "store", "get", "consent", "primary",
                             "acquire", "goto", "click", "selector"}

\* How much it may have sent by then.
Before == IF setup.fetcher = "hybrid" THEN 2 ELSE 0
MaxSent(l) ==
    IF l \in {"consent", "followUp"} THEN 1
    ELSE IF l = "primary" THEN 2
    ELSE IF l \in {"acquire", "goto"} THEN Before
    ELSE IF l = "click" THEN Before + 1
    ELSE IF l \in {"selector", "done"} THEN Before + 2
    ELSE 0

Acceptable(p) ==
    /\ p.status < 400
    /\ ~ShowsBlock(p)
    /\ ~setup.generic => "consentForm" \notin p.marks

\* The result e fits the answer p: what OutcomeOfLastAnswer says of a fetch.
Fits(p, e) ==
    LET o == Classify(e) IN
    IF setup.fetcher = "provider" THEN p.status = 200 => o = "success"
    ELSE setup.fetcher # "mock" =>
    /\ o = "success" => Acceptable(p) /\ (setup.fetcher = "http" /\ p.html => ~needsJS(p))
    /\ o = "rate_limited" => p.status = 429 /\ (e.retryAfter # "zero" => p.retryAfter = "wait")
    /\ o = "http_4xx" => p.status \in 400..499 \ {429}
    /\ o = "http_5xx" => p.status >= 500
    /\ o \in BlockOutcomes => Marked(p)

(***************************************************************************)
(* What holds of a fetch f that is at l, has sent n requests, has the page *)
(* p and has come to the error e.  The last five say what the properties   *)
(* leave out: which pages lead past each point of a fetch.                 *)
(***************************************************************************)
Local(f, l, n, p, e) ==
    /\ l \in PlacesOf(setup.fetcher)
    /\ n \in 0..MaxSent(l)
    /\ p \in PagesSeen
    /\ setup.fetcher = "hybrid" /\ f \in late => l \notin {"acquire", "goto", "click", "selector"}
    /\ l \in {"consent", "click"} => ~ShowsBlock(p)
    /\ l \in {"acquire", "goto"} => Spared(p)
    /\ l = "primary" /\ DefaultFailoverOn(Classify(e)) => Spared(p)
    /\ l = "selector" => Acceptable(p)
    /\ l \in {"start", "search"} => p = NoPage
    /\ l = "followUp" => p \in Pages /\ p.status = 200
    /\ l \in {"primary", "done"} => Fits(p, e)

Shapes ==
    /\ SetupShape
    /\ ctxDone \in BOOLEAN
    /\ late \subseteq Fetches
    /\ transports \in [Proxies -> Fetches \cup {None}]
    /\ pc \in [Fetches -> Locations]
    /\ proxy \in [Fetches -> Proxies]
    /\ transport \in [Fetches -> Fetches \cup {None}]
    /\ DOMAIN page = Fetches /\ page = [f \in Fetches |-> page[f]]
    /\ sent \in [Fetches -> Nat]
    /\ DOMAIN err = Fetches /\ err = [f \in Fetches |-> err[f]]

AllLocal == \A f \in Fetches : Local(f, pc[f], sent[f], page[f], err[f])

\* A transport in use is the one stored for its proxy.
Pooled == \A f \in Fetches : transport[f] # None => transport[f] = transports[proxy[f]]

\* Only a fetch past its turn has counted.
Passed == {f \in Fetches : pc[f] \notin {"start", "mock"}}
Counted == counter \in Nat /\ counter <= Cardinality(Passed)

LateIsOver == late # {} => ctxDone

FetchingInv == Shapes /\ AllLocal /\ Pooled /\ Counted /\ LateIsOver
-----------------------------------------------------------------------------
\* Every page a fetch may hold is a page.
LEMMA SeenIsPage ==
    ASSUME NEW p \in PagesSeen
    PROVE  IsPage(p)
<1> USE PagesAssumption DEF IsPage
<1>1. CASE p \in Pages
  BY <1>1
<1>2. CASE p = NoPage
  BY <1>2 DEF NoPage
<1>3. ASSUME NEW q \in Pages, p = [q EXCEPT !.status = 0, !.html = TRUE, !.retryAfter = "none"]
      PROVE  IsPage(p)
  <2>1. p.status = 0
    BY <1>3
  <2> QED BY <2>1
<1> QED BY <1>1, <1>2, <1>3 DEF PagesSeen, BrowserAnswers

\* What a page and a result mean depends on how the fetcher was built only.
LEMMA SetupFrame ==
    ASSUME setup' = setup, NEW l, NEW p, NEW e
    PROVE  /\ Fits(p, e)' <=> Fits(p, e)
           /\ Acceptable(p)' <=> Acceptable(p)
           /\ ShowsBlock(p)' <=> ShowsBlock(p)
           /\ Spared(p)' <=> Spared(p)
           /\ MaxSent(l)' = MaxSent(l)
<1>1. Fits(p, e)' <=> Fits(p, e)
  BY DEF Fits, Acceptable, ShowsBlock, needsJS
<1>2. Acceptable(p)' <=> Acceptable(p)
  BY DEF Acceptable, ShowsBlock
<1>3. ShowsBlock(p)' <=> ShowsBlock(p)
  BY DEF ShowsBlock
<1>4. MaxSent(l)' = MaxSent(l)
  BY DEF MaxSent, Before
<1>5. Spared(p)' <=> Spared(p)
  BY DEF Spared, ShowsBlock, AsksForJS
<1> QED BY <1>1, <1>2, <1>3, <1>4, <1>5

\* What is said of a fetch depends on the others through late only.
LEMMA LocalFrame ==
    ASSUME setup' = setup, NEW f, NEW l, NEW n, NEW p, NEW e, Local(f, l, n, p, e),
           f \in late' => f \in late \/ l \notin {"acquire", "goto", "click", "selector"}
    PROVE  Local(f, l, n, p, e)'
  BY SetupFrame DEF Local

\* A step of fetch f changes what is f's only, and leaves f in order.
Stepped(f) ==
    /\ UNCHANGED <<setup, ctxDone, late, proxy>>
    /\ pc' = [pc EXCEPT ![f] = pc'[f]] /\ pc'[f] \in Locations
    /\ sent' = [sent EXCEPT ![f] = sent'[f]]
    /\ page' = [page EXCEPT ![f] = page'[f]]
    /\ err' = [err EXCEPT ![f] = err'[f]]
    /\ pc[f] \in {"start", "mock"} \/ pc'[f] \notin {"start", "mock"}
    /\ Local(f, pc'[f], sent'[f], page'[f], err'[f])

\* Such a step leaves every fetch in order.
LEMMA SteppedKeeps ==
    ASSUME FetchingInv, NEW f \in Fetches, Stepped(f)
    PROVE  /\ AllLocal' /\ LateIsOver'
           /\ Passed \subseteq Passed'
           /\ SetupShape' /\ ctxDone' \in BOOLEAN /\ late' \subseteq Fetches
           /\ pc' \in [Fetches -> Locations]
           /\ proxy' \in [Fetches -> Proxies]
           /\ DOMAIN page' = Fetches /\ page' = [g \in Fetches |-> page'[g]]
           /\ sent' \in [Fetches -> Nat]
           /\ DOMAIN err' = Fetches /\ err' = [g \in Fetches |-> err'[g]]
<1> USE DEF Stepped
<1>1. AllLocal'
  <2> SUFFICES ASSUME NEW g \in Fetches
               PROVE  Local(g, pc[g], sent[g], page[g], err[g])'
    BY DEF AllLocal
  <2> DEFINE l1 == pc'[g]
             n1 == sent'[g]
             p1 == page'[g]
             e1 == err'[g]
  <2>1. Local(g, l1, n1, p1, e1)
    <3>1. CASE g = f
      BY <3>1
    <3>2. CASE g # f
      BY <3>2 DEF FetchingInv, AllLocal, Shapes
    <3> QED BY <3>1, <3>2
  <2> QED BY <2>1, LocalFrame
<1>2. Passed \subseteq Passed'
  BY DEF FetchingInv, Shapes, Passed
<1>3. SetupShape' /\ ctxDone' \in BOOLEAN /\ late' \subseteq Fetches /\ LateIsOver'
  BY DEF FetchingInv, Shapes, SetupShape, LateIsOver
<1>4. pc' \in [Fetches -> Locations] /\ proxy' \in [Fetches -> Proxies]
  BY DEF FetchingInv, Shapes
<1>5. sent' \in [Fetches -> Nat]
  <2>1. sent'[f] \in Nat
    BY DEF Local, MaxSent, Before
  <2> QED BY <2>1 DEF FetchingInv, Shapes
<1>6. /\ DOMAIN page' = Fetches /\ page' = [g \in Fetches |-> page'[g]]
      /\ DOMAIN err' = Fetches /\ err' = [g \in Fetches |-> err'[g]]
  BY DEF FetchingInv, Shapes
<1> QED BY <1>1, <1>2, <1>3, <1>4, <1>5, <1>6

\* The count stays within what a larger set allows.
LEMMA CountedKept ==
    ASSUME Counted, Passed \subseteq Passed', counter' = counter
    PROVE  Counted'
<1>1. IsFiniteSet(Fetches)
  BY FetchingAssumption
<1>2. IsFiniteSet(Passed')
  BY <1>1, FS_Subset DEF Passed
<1>3. IsFiniteSet(Passed) /\ Cardinality(Passed) <= Cardinality(Passed')
  BY <1>2, FS_Subset
<1>4. Cardinality(Passed) \in Nat /\ Cardinality(Passed') \in Nat
  BY <1>2, <1>3, FS_CardinalityType
<1> QED BY <1>3, <1>4 DEF Counted

\* A step that leaves the transports and the mock's counter alone.
LEMMA SteppedInv ==
    ASSUME FetchingInv, NEW f \in Fetches, Stepped(f),
           UNCHANGED <<transports, transport, counter>>
    PROVE  FetchingInv'
<1>1. Pooled'
  BY DEF FetchingInv, Pooled, Stepped
<1>2. Counted'
  BY SteppedKeeps, CountedKept DEF FetchingInv
<1> QED BY <1>1, <1>2, SteppedKeeps DEF FetchingInv, Shapes
-----------------------------------------------------------------------------
\* Where Fetch, or the primary's Fetch, ends.
End(f) ==
    IF setup.fetcher = "hybrid" /\ pc[f] \in {"load", "store", "get", "consent"}
    THEN "primary" ELSE "done"

\* A return leaves the fetch in order when its error fits its page.
LEMMA ReturnsSteps ==
    ASSUME FetchingInv, NEW f \in Fetches, NEW e, Returns(f, e),
           UNCHANGED <<setup, ctxDone, late, proxy>>,
           page' = [page EXCEPT ![f] = page'[f]], sent' = [sent EXCEPT ![f] = sent'[f]],
           pc[f] \notin {"start", "primary", "mock", "done"},
           sent'[f] \in 0..MaxSent(End(f)), page'[f] \in PagesSeen, Fits(page'[f], e),
           End(f) = "primary" /\ DefaultFailoverOn(Classify(e)) => Spared(page'[f])
    PROVE  Stepped(f)
<1> DEFINE l == End(f)
<1>1. pc' = [pc EXCEPT ![f] = l] /\ err' = [err EXCEPT ![f] = e]
  BY DEF Returns, Goto, End
<1>2. pc'[f] = l /\ err'[f] = e
  BY <1>1 DEF FetchingInv, Shapes
<1>3. l \in {"primary", "done"} /\ (l = "primary" => setup.fetcher = "hybrid")
  BY DEF End
<1>4. l \in PlacesOf(setup.fetcher)
  BY <1>3 DEF PlacesOf
<1> HIDE DEF l
<1>5. Local(f, l, sent'[f], page'[f], e)
  BY <1>3, <1>4 DEF Local, l
<1> QED BY <1>1, <1>2, <1>3, <1>5 DEF Stepped, Locations

\* The errors of the network and of the driver.
Failures == {"timeout", "transport", "canceled", "other"}

\* They fit any page but an answered search, and start no browser.
LEMMA FailureFits ==
    ASSUME NEW t \in Failures, NEW p, setup.fetcher = "provider" => p.status # 200
    PROVE  Fits(p, Error(t)) /\ ~DefaultFailoverOn(Classify(Error(t)))
<1>1. Classify(Error(t)) = t
  BY ErrorFacts DEF Failures
<1> DEFINE e == Error(t)
<1>2. Classify(e) = t
  BY <1>1
<1> HIDE DEF e
<1>3. Fits(p, e)
  BY <1>2 DEF Fits, Failures, BlockOutcomes
<1>4. ~DefaultFailoverOn(Classify(e))
  BY <1>2 DEF DefaultFailoverOn, Failures
<1> QED BY <1>3, <1>4 DEF e

\* The errors of a request are failures.
LEMMA DoErrorsFail == DoErrors \subseteq Failures
  BY DEF DoErrors, Failures

\* A Retry-After is read from the header.
LEMMA RetryAfterFacts ==
    ASSUME NEW h
    PROVE  parseRetryAfter(h) \in Waits /\ (parseRetryAfter(h) # "zero" => h = "wait")
  BY DEF parseRetryAfter, Waits

\* The kind an HTTP answer is judged by: only HTML is classified after a GET.
JudgedAs(p, kind) == kind = classify(p) \/ (kind = "normal" /\ ~p.html)

\* The verdict on an HTTP answer fits it, and calls for a browser only when
\* the answer shows no block (http.go:118-158).
LEMMA JudgedFits ==
    ASSUME SetupShape, setup.fetcher \in {"http", "hybrid"}, NEW p \in Pages, NEW kind,
           JudgedAs(p, kind),
           NEW k, k = IF kind = "normal" /\ isHTML(p) /\ needsJS(p) THEN "interstitial" ELSE kind,
           NEW w, w = parseRetryAfter(p.retryAfter),
           NEW e, e = Verdict(k, p, w), NEW o, o = Classify(e)
    PROVE  /\ Fits(p, e)
           /\ DefaultFailoverOn(o) => Spared(p)
<1>1. IsPage(p)
  BY SeenIsPage DEF PagesSeen, BrowserAnswers
<1>2. /\ kind \in Kinds
      /\ kind \in {"normal", "consent"} => ~ShowsBlock(p)
      /\ kind = "interstitial" => AsksForJS(p)
      /\ kind # "normal" => Marked(p)
  BY <1>1, ClassifyFacts DEF JudgedAs, ShowsBlock, Kinds
<1>3. kind = "normal" /\ ~setup.generic => "consentForm" \notin p.marks
  <2>1. CASE kind = classify(p)
    BY <1>1, <2>1, ClassifyFacts
  <2>2. CASE ~p.html
    BY <2>2, PagesAssumption
  <2> QED BY <2>1, <2>2 DEF JudgedAs
<1>4. needsJS(p) => Marked(p)
  BY DEF Marked, needsJS, requiresJS, looksLikeJSShell
<1>5. k \in Kinds /\ (k = "normal" => kind = "normal" /\ (p.html => ~needsJS(p)))
  BY <1>2 DEF Kinds, isHTML
<1>6. k # "normal" => Marked(p)
  BY <1>2, <1>4
<1>7. /\ k = "normal" => ~ShowsBlock(p)
      /\ k \in {"consent", "interstitial"} => Spared(p)
  BY <1>2 DEF Spared
<1>8. w \in Waits /\ (w # "zero" => p.retryAfter = "wait")
  BY RetryAfterFacts
<1>9. /\ o = "success" => k = "normal" /\ p.status < 400
      /\ o = "rate_limited" => p.status = 429 /\ e.retryAfter = w
      /\ o = "http_4xx" => p.status \in 400..499 \ {429}
      /\ o = "http_5xx" => p.status >= 500
      /\ o \in BlockOutcomes => o = k
  BY <1>1, <1>5, <1>8, VerdictFacts
<1>10. o = "success" => Acceptable(p) /\ (setup.fetcher = "http" /\ p.html => ~needsJS(p))
  BY <1>3, <1>5, <1>7, <1>9 DEF Acceptable
<1>11. o \in BlockOutcomes => Marked(p)
  <2>1. "normal" \notin BlockOutcomes
    BY DEF BlockOutcomes
  <2> QED BY <1>6, <1>9, <2>1
<1>12. Fits(p, e)
  BY <1>8, <1>9, <1>10, <1>11 DEF Fits
<1>13. DefaultFailoverOn(o) => Spared(p)
  BY <1>7, <1>9 DEF DefaultFailoverOn, BlockOutcomes
<1> QED BY <1>12, <1>13

\* The verdict on a rendered page fits it; without an error the page shows
\* neither a block nor a consent wall (playwright.go:262-310).
LEMMA RenderedFits ==
    ASSUME SetupShape, setup.fetcher \in {"browser", "hybrid"}, NEW p \in BrowserAnswers,
           NEW w \in {parseRetryAfter(p.retryAfter), "zero"},
           NEW k, k = classify(p), NEW e, e = Verdict(k, p, w), NEW o, o = Classify(e)
    PROVE  Fits(p, e) /\ (e = NoError => Acceptable(p))
<1>1. IsPage(p)
  BY SeenIsPage DEF PagesSeen
<1>2. /\ k \in Kinds
      /\ k = "normal" => ~ShowsBlock(p)
      /\ k = "normal" /\ ~setup.generic => "consentForm" \notin p.marks
      /\ k # "normal" => Marked(p)
  BY <1>1, ClassifyFacts
<1>3. w \in Waits /\ (w # "zero" => p.retryAfter = "wait")
  BY RetryAfterFacts DEF Waits
<1>4. /\ o = "success" => k = "normal" /\ p.status < 400
      /\ e = NoError <=> k = "normal" /\ p.status < 400
      /\ o = "rate_limited" => p.status = 429 /\ e.retryAfter = w
      /\ o = "http_4xx" => p.status \in 400..499 \ {429}
      /\ o = "http_5xx" => p.status >= 500
      /\ o \in BlockOutcomes => o = k
  BY <1>1, <1>2, <1>3, VerdictFacts
<1>5. k = "normal" /\ p.status < 400 => Acceptable(p)
  BY <1>2 DEF Acceptable
<1>6. "normal" \notin BlockOutcomes
  BY DEF BlockOutcomes
<1>7. Fits(p, e)
  BY <1>2, <1>3, <1>4, <1>5, <1>6 DEF Fits
<1> QED BY <1>4, <1>5, <1>7
-----------------------------------------------------------------------------
\* A place tells the fetcher.
LEMMA PlaceFacts ==
    ASSUME SetupShape, NEW l
    PROVE  l \in PlacesOf(setup.fetcher) <=>
             \/ l \in {"start", "done"}
             \/ l \in {"mock", "latency"} /\ setup.fetcher = "mock"
             \/ l \in {"load", "store", "get", "consent"} /\ setup.fetcher \in {"http", "hybrid"}
             \/ l = "primary" /\ setup.fetcher = "hybrid"
             \/ l \in {"search", "followUp"} /\ setup.fetcher = "provider"
             \/ /\ l \in {"acquire", "goto", "click", "selector"}
                /\ setup.fetcher \in {"browser", "hybrid"}
<1> USE DEF PlacesOf
<1>1. setup.fetcher \in Fetchers
  BY DEF SetupShape
<1>2. CASE setup.fetcher = "mock"
  BY <1>2
<1>3. CASE setup.fetcher = "http"
  BY <1>3
<1>4. CASE setup.fetcher = "provider"
  BY <1>4
<1>5. CASE setup.fetcher = "browser"
  BY <1>5
<1>6. CASE setup.fetcher = "hybrid"
  BY <1>6
<1> QED BY <1>1, <1>2, <1>3, <1>4, <1>5, <1>6 DEF Fetchers

\* What the invariant says of a fetch where it is.
LEMMA HereFacts ==
    ASSUME FetchingInv, NEW f \in Fetches
    PROVE  /\ SetupShape
           /\ pc[f] \in PlacesOf(setup.fetcher)
           /\ sent[f] \in 0..MaxSent(pc[f])
           /\ page[f] \in PagesSeen
           /\ page = [page EXCEPT ![f] = page[f]]
           /\ sent = [sent EXCEPT ![f] = sent[f]] /\ err = [err EXCEPT ![f] = err[f]]
           /\ Local(f, pc[f], sent[f], page[f], err[f])
<1>1. SetupShape /\ Local(f, pc[f], sent[f], page[f], err[f])
  BY DEF FetchingInv, Shapes, AllLocal
<1>2. page = [page EXCEPT ![f] = page[f]] /\ err = [err EXCEPT ![f] = err[f]]
  BY DEF FetchingInv, Shapes
<1>3. sent = [sent EXCEPT ![f] = sent[f]]
  BY DEF FetchingInv, Shapes
<1> QED BY <1>1, <1>2, <1>3 DEF Local

\* Fetch begins in its fetcher (http.go:75, playwright.go:188, provider.go:40,
\* mock.go:24, failover.go:30).
LEMMA StartStep ==
    ASSUME FetchingInv, NEW f \in Fetches, Start(f)
    PROVE  FetchingInv'
<1> USE DEF Start, Goto
<1>1. Local(f, "start", sent[f], page[f], err[f]) /\ SetupShape
  BY HereFacts
<1>2. sent[f] = 0 /\ page[f] = NoPage /\ page[f] \in PagesSeen
  BY <1>1 DEF Local, MaxSent
<1> DEFINE l == CASE setup.fetcher \in {"http", "hybrid"} -> "load"
                  [] setup.fetcher = "browser" -> "acquire"
                  [] setup.fetcher = "provider" -> "search"
                  [] setup.fetcher = "mock" -> "mock"
<1>3. /\ l \in {"load", "acquire", "search", "mock"}
      /\ l = "load" => setup.fetcher \in {"http", "hybrid"}
      /\ l = "acquire" => setup.fetcher = "browser"
      /\ l = "search" => setup.fetcher = "provider"
      /\ l = "mock" => setup.fetcher = "mock"
  BY <1>1 DEF SetupShape, Fetchers
<1>4. pc' = [pc EXCEPT ![f] = l]
  OBVIOUS
<1> HIDE DEF l
<1>5. l \in PlacesOf(setup.fetcher)
  BY <1>1, <1>3, PlaceFacts
<1>6. ~ShowsBlock(NoPage) /\ Spared(NoPage)
  BY DEF Spared, ShowsBlock, NoPage
<1>7. 0 \in 0..MaxSent(l)
  BY DEF MaxSent, Before
<1>8. Local(f, l, 0, NoPage, err[f])
  BY <1>2, <1>3, <1>5, <1>6, <1>7 DEF Local
<1>9. pc'[f] = l /\ sent'[f] = 0 /\ page'[f] = NoPage /\ err'[f] = err[f]
  BY <1>2, <1>4 DEF FetchingInv, Shapes
<1>10. Stepped(f)
  BY <1>3, <1>4, <1>8, <1>9, HereFacts DEF Stepped, Locations
<1> QED BY <1>10, SteppedInv

\* Between the places of the HTTP part before an answer.
LEMMA MovesOn ==
    ASSUME FetchingInv, NEW f \in Fetches, NEW l \in {"store", "get"},
           pc[f] \in {"load", "store"}, Goto(f, l),
           UNCHANGED <<setup, ctxDone, late, proxy, page, sent, err>>
    PROVE  Stepped(f)
<1>1. Local(f, pc[f], sent[f], page[f], err[f]) /\ SetupShape /\ sent[f] \in 0..MaxSent(pc[f])
  BY HereFacts
<1>2. setup.fetcher \in {"http", "hybrid"} /\ sent[f] = 0
  BY <1>1, PlaceFacts DEF Local, MaxSent
<1>3. l \in PlacesOf(setup.fetcher) /\ 0 \in 0..MaxSent(l)
  BY <1>1, <1>2, PlaceFacts DEF MaxSent
<1>4. Local(f, l, 0, page[f], err[f])
  BY <1>1, <1>3 DEF Local
<1>5. pc' = [pc EXCEPT ![f] = l] /\ pc'[f] = l
  BY DEF Goto, FetchingInv, Shapes
<1> QED BY <1>2, <1>4, <1>5, HereFacts DEF Stepped, Locations

\* transportFor finds a transport or goes on to make one (http.go:176-180).
LEMMA LoadStep ==
    ASSUME FetchingInv, NEW f \in Fetches, Load(f)
    PROVE  FetchingInv'
<1> USE DEF Load
<1>1. Stepped(f)
  BY MovesOn
<1>2. transport' \in [Fetches -> Fetches \cup {None}]
  BY DEF FetchingInv, Shapes
<1>3. Pooled'
  BY DEF FetchingInv, Shapes, Pooled
<1>4. Counted'
  BY <1>1, SteppedKeeps, CountedKept DEF FetchingInv
<1> QED BY <1>1, <1>2, <1>3, <1>4, SteppedKeeps DEF FetchingInv, Shapes

\* The first to store wins, and everyone gets what is stored
\* (http.go:181-195).
LEMMA LoadOrStoreStep ==
    ASSUME FetchingInv, NEW f \in Fetches, LoadOrStore(f)
    PROVE  FetchingInv'
<1> USE DEF LoadOrStore
<1>1. CASE proxy[f] \in BadURLs
  <2>1. /\ Returns(f, Error("transport")) /\ pc[f] = "store"
        /\ UNCHANGED <<setup, ctxDone, late, proxy, page, sent, transports, transport, counter>>
    BY <1>1
  <2>2. setup.fetcher # "provider" /\ sent[f] = 0
    BY <2>1, HereFacts, PlaceFacts DEF MaxSent
  <2>3. Fits(page[f], Error("transport")) /\ ~DefaultFailoverOn(Classify(Error("transport")))
    BY <2>2, FailureFits DEF Failures
  <2>4. 0 \in 0..MaxSent(End(f))
    BY DEF End, MaxSent, Before
  <2>5. Stepped(f)
    BY <2>1, <2>2, <2>3, <2>4, HereFacts, ReturnsSteps
  <2> QED BY <2>1, <2>5, SteppedInv
<1>2. CASE proxy[f] \notin BadURLs
  <2> DEFINE u == proxy[f]
  <2>1. /\ pc[f] = "store" /\ Goto(f, "get")
        /\ UNCHANGED <<setup, ctxDone, late, proxy, page, sent, err, counter>>
        /\ transports' = [transports EXCEPT ![u] = LoadedOrStored(f)]
        /\ transport' = [transport EXCEPT ![f] = transports'[u]]
    BY <1>2
  <2>2. Stepped(f)
    BY <2>1, MovesOn
  <2>3. u \in Proxies /\ transports \in [Proxies -> Fetches \cup {None}]
    BY DEF FetchingInv, Shapes
  <2>4. LoadedOrStored(f) \in Fetches /\ (transports[u] # None => LoadedOrStored(f) = transports[u])
    BY <2>3, FetchingAssumption DEF LoadedOrStored
  <2>5. transports'[u] = LoadedOrStored(f) /\ \A v \in Proxies \ {u} : transports'[v] = transports[v]
    BY <2>1, <2>3
  <2>6. /\ transports' \in [Proxies -> Fetches \cup {None}]
        /\ transport' \in [Fetches -> Fetches \cup {None}]
    BY <2>1, <2>3, <2>4, <2>5 DEF FetchingInv, Shapes
  <2>7. Pooled'
    <3> SUFFICES ASSUME NEW g \in Fetches, transport'[g] # None
                 PROVE  transport'[g] = transports'[proxy[g]]
      BY <2>1 DEF Pooled
    <3>1. proxy[g] \in Proxies
      BY DEF FetchingInv, Shapes
    <3>2. CASE g = f
      BY <2>1, <3>2 DEF FetchingInv, Shapes
    <3>3. CASE g # f
      <4>1. transport[g] # None /\ transport'[g] = transport[g]
        BY <2>1, <3>3 DEF FetchingInv, Shapes
      <4>2. transport[g] = transports[proxy[g]]
        BY <4>1 DEF FetchingInv, Pooled
      <4> QED BY <2>4, <2>5, <3>1, <4>1, <4>2
    <3> QED BY <3>2, <3>3
  <2>8. Counted'
    BY <2>1, <2>2, SteppedKeeps, CountedKept DEF FetchingInv
  <2> QED BY <2>2, <2>6, <2>7, <2>8, SteppedKeeps DEF FetchingInv, Shapes
<1> QED BY <1>1, <1>2

\* A return after one more request or navigation.
LEMMA SentOne ==
    ASSUME FetchingInv, NEW f \in Fetches, Sent(f)
    PROVE  /\ sent'[f] = sent[f] + 1
           /\ sent' = [sent EXCEPT ![f] = sent'[f]]
  BY DEF Sent, FetchingInv, Shapes

\* A request that fails ends the fetch, or its HTTP part (http.go:96-117).
LEMMA HTTPFailsStep ==
    ASSUME FetchingInv, NEW f \in Fetches, HTTPFails(f)
    PROVE  FetchingInv'
<1>1. pc[f] \in {"get", "consent"} /\ Sent(f) /\ UNCHANGED <<httpRest, page>>
  BY DEF HTTPFails
<1>2. PICK t \in Failures : Returns(f, Error(t))
  BY DoErrorsFail DEF HTTPFails
<1>3. setup.fetcher # "provider" /\ sent[f] \in 0..1
  BY <1>1, HereFacts, PlaceFacts DEF MaxSent
<1>4. Fits(page[f], Error(t)) /\ ~DefaultFailoverOn(Classify(Error(t)))
  BY <1>3, FailureFits
<1>5. sent'[f] \in 0..MaxSent(End(f))
  BY <1>1, <1>3, SentOne DEF End, MaxSent, Before
<1>6. Stepped(f)
  BY <1>1, <1>2, <1>4, <1>5, HereFacts, SentOne, ReturnsSteps DEF httpRest
<1> QED BY <1>1, <1>6, SteppedInv DEF httpRest

\* A page from a server or a browser is one a fetch may hold.
LEMMA AnswersSeen == Pages \subseteq PagesSeen /\ BrowserAnswers \subseteq PagesSeen
  BY DEF PagesSeen, BrowserAnswers

\* A request of the HTTP part is out.
Asking(f) == pc[f] \in {"get", "consent"}

\* The answer to the GET, or to the consent form, judged (http.go:118-158).
LEMMA JudgedReturns ==
    ASSUME FetchingInv, NEW f \in Fetches, NEW p \in Pages, NEW kind,
           Asking(f), Sent(f), UNCHANGED httpRest, page' = [page EXCEPT ![f] = p],
           JudgedAs(p, kind), NEW e, e = HTTPJudged(p, kind),
           err' = [err EXCEPT ![f] = e], pc' = [pc EXCEPT ![f] = End(f)]
    PROVE  Stepped(f)
<1>1. setup.fetcher \in {"http", "hybrid"} /\ sent[f] \in 0..1 /\ SetupShape
  BY HereFacts, PlaceFacts DEF Asking, MaxSent
<1>2. page'[f] = p /\ p \in PagesSeen
  BY AnswersSeen DEF FetchingInv, Shapes
<1>3. Fits(p, e) /\ (DefaultFailoverOn(Classify(e)) => Spared(p))
  BY <1>1, JudgedFits DEF HTTPJudged
<1>4. sent'[f] \in 0..MaxSent(End(f))
  BY <1>1, SentOne DEF End, MaxSent, Before
<1>5. Returns(f, e)
  BY DEF Returns, Goto, End
<1> QED BY <1>2, <1>3, <1>4, <1>5, SentOne, ReturnsSteps DEF Asking, httpRest

\* An answer to the GET ends the HTTP part or leads to the consent form
\* (http.go:118-134).
LEMMA HTTPAnsweredStep ==
    ASSUME FetchingInv, NEW f \in Fetches, HTTPAnswered(f)
    PROVE  FetchingInv'
<1>1. pc[f] = "get" /\ Sent(f) /\ UNCHANGED httpRest
  BY DEF HTTPAnswered
<1>2. PICK p \in Pages : LET kind == IF isHTML(p) THEN classify(p) ELSE "normal" IN
        /\ page' = [page EXCEPT ![f] = p]
        /\ \/ kind = "consent" /\ "rejectForm" \in p.marks /\ Goto(f, "consent") /\ UNCHANGED err
           \/ Returns(f, HTTPJudged(p, kind))
  BY DEF HTTPAnswered, Got
<1> DEFINE kind == IF isHTML(p) THEN classify(p) ELSE "normal"
<1>3. JudgedAs(p, kind)
  BY DEF JudgedAs, isHTML
<1>4. page' = [page EXCEPT ![f] = p] /\ page'[f] = p
  BY <1>2 DEF FetchingInv, Shapes
<1>5. CASE Returns(f, HTTPJudged(p, kind))
  <2>1. err' = [err EXCEPT ![f] = HTTPJudged(p, kind)] /\ pc' = [pc EXCEPT ![f] = End(f)]
    BY <1>5 DEF Returns, Goto, End
  <2> HIDE DEF kind
  <2>2. Asking(f)
    BY <1>1 DEF Asking
  <2>3. Stepped(f)
    BY <1>1, <1>3, <1>4, <2>1, <2>2, JudgedReturns
  <2> QED BY <1>1, <2>3, SteppedInv DEF httpRest
<1>6. CASE kind = "consent" /\ Goto(f, "consent") /\ UNCHANGED err
  <2>1. setup.fetcher \in {"http", "hybrid"} /\ sent[f] = 0 /\ SetupShape
    BY <1>1, HereFacts, PlaceFacts DEF MaxSent
  <2>2. p \in PagesSeen /\ classify(p) = "consent"
    BY <1>6, AnswersSeen
  <2>3. ~ShowsBlock(p)
    BY <2>1, <2>2, SeenIsPage, ClassifyFacts
  <2>4. "consent" \in PlacesOf(setup.fetcher) /\ 1 \in 0..MaxSent("consent")
    BY <2>1, PlaceFacts DEF MaxSent
  <2>5. Local(f, "consent", 1, p, err[f])
    BY <2>2, <2>3, <2>4 DEF Local
  <2>6. pc' = [pc EXCEPT ![f] = "consent"] /\ pc'[f] = "consent"
    BY <1>6 DEF Goto, FetchingInv, Shapes
  <2>7. sent'[f] = 1
    BY <1>1, <2>1, SentOne
  <2>8. Stepped(f)
    BY <1>1, <1>4, <1>6, <2>5, <2>6, <2>7, SentOne, HereFacts DEF Stepped, httpRest, Locations
  <2> QED BY <1>1, <2>8, SteppedInv DEF httpRest
<1> QED BY <1>2, <1>5, <1>6

\* The answer to the consent form is judged for good (http.go:127-142).
LEMMA HTTPConsentAnsweredStep ==
    ASSUME FetchingInv, NEW f \in Fetches, HTTPConsentAnswered(f)
    PROVE  FetchingInv'
<1>1. pc[f] = "consent" /\ Sent(f) /\ UNCHANGED httpRest
  BY DEF HTTPConsentAnswered
<1>2. PICK p \in Pages : /\ page' = [page EXCEPT ![f] = p]
                         /\ Returns(f, HTTPJudged(p, classify(p)))
  BY DEF HTTPConsentAnswered, ConsentStep, ConsentVerdict, Got
<1>3. err' = [err EXCEPT ![f] = HTTPJudged(p, classify(p))] /\ pc' = [pc EXCEPT ![f] = End(f)]
  BY <1>2 DEF Returns, Goto, End
<1>4. JudgedAs(p, classify(p))
  BY DEF JudgedAs
<1>5. Asking(f)
  BY <1>1 DEF Asking
<1>6. Stepped(f)
  BY <1>1, <1>2, <1>3, <1>4, <1>5, JudgedReturns
<1> QED BY <1>1, <1>6, SteppedInv DEF httpRest

\* The browser is tried after a consent wall or an interstitial, while ctx
\* lives (failover.go:34-46).
LEMMA FailoverStep ==
    ASSUME FetchingInv, NEW f \in Fetches, Failover(f)
    PROVE  FetchingInv'
<1> USE DEF Failover, Goto
<1>1. pc[f] = "primary" /\ UNCHANGED <<httpRest, page, sent>>
  OBVIOUS
<1>2. /\ setup.fetcher = "hybrid" /\ sent[f] \in 0..2 /\ SetupShape
      /\ Local(f, "primary", sent[f], page[f], err[f])
  BY <1>1, HereFacts, PlaceFacts DEF MaxSent
<1>3. page' = [page EXCEPT ![f] = page'[f]] /\ sent' = [sent EXCEPT ![f] = sent'[f]]
  BY <1>1, HereFacts
<1>4. CASE FailsOver(f)
  <2>1. pc' = [pc EXCEPT ![f] = "acquire"] /\ err' = [err EXCEPT ![f] = NoError]
    BY <1>4
  <2>2. pc'[f] = "acquire" /\ err' = [err EXCEPT ![f] = err'[f]]
    BY <2>1 DEF FetchingInv, Shapes
  <2>3. late = {} /\ DefaultFailoverOn(Classify(err[f]))
    BY <1>4 DEF FailsOver, FetchingInv, LateIsOver
  <2>4. "acquire" \in PlacesOf(setup.fetcher) /\ sent[f] \in 0..MaxSent("acquire")
    BY <1>2, PlaceFacts DEF MaxSent, Before
  <2>5. Local(f, "acquire", sent[f], page[f], err'[f])
    BY <1>2, <2>3, <2>4 DEF Local
  <2>6. Stepped(f)
    BY <1>1, <1>3, <2>1, <2>2, <2>5 DEF Stepped, httpRest, Locations
  <2> QED BY <1>1, <2>6, SteppedInv DEF httpRest
<1>5. CASE ~FailsOver(f)
  <2>1. pc' = [pc EXCEPT ![f] = "done"] /\ err' = err
    BY <1>5
  <2>2. pc'[f] = "done" /\ err' = [err EXCEPT ![f] = err'[f]]
    BY <2>1, HereFacts DEF FetchingInv, Shapes
  <2>3. "done" \in PlacesOf(setup.fetcher) /\ sent[f] \in 0..MaxSent("done")
    BY <1>2, PlaceFacts DEF MaxSent, Before
  <2>4. Local(f, "done", sent[f], page[f], err[f])
    BY <1>2, <2>3 DEF Local
  <2>5. Stepped(f)
    BY <1>1, <1>3, <2>1, <2>2, <2>4 DEF Stepped, httpRest, Locations
  <2> QED BY <1>1, <2>5, SteppedInv DEF httpRest
<1> QED BY <1>4, <1>5

\* A failure of the browser ends the fetch (playwright.go:188-216, 221-238).
LEMMA BrowserFails ==
    ASSUME FetchingInv, NEW f \in Fetches, NEW t \in Failures, Returns(f, Error(t)),
           pc[f] \in {"acquire", "goto", "click", "selector"},
           (Sent(f) /\ pc[f] \in {"goto", "click"}) \/ UNCHANGED sent,
           UNCHANGED <<httpRest, page>>
    PROVE  FetchingInv'
<1>1. setup.fetcher \in {"browser", "hybrid"} /\ sent[f] \in 0..MaxSent(pc[f])
  BY HereFacts, PlaceFacts
<1>2. Fits(page[f], Error(t)) /\ ~DefaultFailoverOn(Classify(Error(t)))
  BY <1>1, FailureFits
<1>3. End(f) = "done"
  BY DEF End
<1>4. sent'[f] \in 0..MaxSent("done") /\ sent' = [sent EXCEPT ![f] = sent'[f]]
  BY <1>1, SentOne, HereFacts DEF MaxSent, Before
<1>5. Stepped(f)
  BY <1>2, <1>3, <1>4, HereFacts, ReturnsSteps DEF httpRest
<1> QED BY <1>5, SteppedInv DEF httpRest

\* Acquiring a session succeeds or ends the fetch (playwright.go:188-200).
LEMMA AcquireStep ==
    ASSUME FetchingInv, NEW f \in Fetches, Acquire(f)
    PROVE  FetchingInv'
<1>1. pc[f] = "acquire" /\ UNCHANGED <<httpRest, page, sent>>
  BY DEF Acquire
<1>2. ASSUME NEW t \in Failures, Returns(f, Error(t))
      PROVE  FetchingInv'
  BY <1>1, <1>2, BrowserFails
<1>3. CASE Goto(f, "goto") /\ UNCHANGED err
  <2>1. /\ setup.fetcher \in {"browser", "hybrid"} /\ SetupShape
        /\ Local(f, "acquire", sent[f], page[f], err[f])
    BY <1>1, HereFacts, PlaceFacts
  <2>2. "goto" \in PlacesOf(setup.fetcher) /\ MaxSent("goto") = MaxSent("acquire")
    BY <2>1, PlaceFacts DEF MaxSent
  <2>3. Local(f, "goto", sent[f], page[f], err[f])
    BY <2>1, <2>2 DEF Local
  <2>4. pc' = [pc EXCEPT ![f] = "goto"] /\ pc'[f] = "goto"
    BY <1>3 DEF Goto, FetchingInv, Shapes
  <2>5. Stepped(f)
    BY <1>1, <1>3, <2>3, <2>4, HereFacts DEF Stepped, httpRest, Locations
  <2> QED BY <1>1, <2>5, SteppedInv DEF httpRest
<1> QED BY <1>2, <1>3 DEF Acquire, Failures

\* ctx ends a render, and a navigation may fail (playwright.go:203-238).
LEMMA RenderFailsStep ==
    ASSUME FetchingInv, NEW f \in Fetches, RenderCanceled(f) \/ NavigationFails(f)
    PROVE  FetchingInv'
<1>1. CASE RenderCanceled(f)
  BY <1>1, BrowserFails DEF RenderCanceled, Rendering, Failures
<1>2. CASE NavigationFails(f)
  <2>1. PICK t \in Failures : Returns(f, Error(t))
    BY <1>2 DEF NavigationFails, Failures
  <2> QED BY <1>2, <2>1, BrowserFails DEF NavigationFails
<1> QED BY <1>1, <1>2

\* A page that is rendered ends the fetch or leads to the wait for the
\* selector (playwright.go:262-310).
LEMMA RenderedSteps ==
    ASSUME FetchingInv, NEW f \in Fetches, NEW p \in BrowserAnswers,
           pc[f] \in {"goto", "click"}, Sent(f), UNCHANGED httpRest,
           page' = [page EXCEPT ![f] = p], Rendered(f, p)
    PROVE  FetchingInv'
<1>1. /\ setup.fetcher \in {"browser", "hybrid"} /\ SetupShape
      /\ sent[f] \in 0..MaxSent(pc[f])
      /\ Local(f, pc[f], sent[f], page[f], err[f])
  BY HereFacts, PlaceFacts
<1>2. page'[f] = p /\ p \in PagesSeen
  BY AnswersSeen DEF FetchingInv, Shapes
<1>3. End(f) = "done"
  BY DEF End
<1>4. sent'[f] \in 0..MaxSent("done") /\ MaxSent("selector") = MaxSent("done")
  BY <1>1, SentOne DEF MaxSent, Before
<1>5. PICK w \in {parseRetryAfter(p.retryAfter), "zero"} :
        LET e == Verdict(classify(p), p, w) IN
        IF e = NoError THEN Goto(f, "selector") /\ UNCHANGED err ELSE Returns(f, e)
  BY DEF Rendered
<1> DEFINE e == Verdict(classify(p), p, w)
<1>6. Fits(p, e) /\ (e = NoError => Acceptable(p))
  BY <1>1, RenderedFits
<1> HIDE DEF e
<1>7. CASE Returns(f, e)
  <2>1. Stepped(f)
    BY <1>2, <1>3, <1>4, <1>6, <1>7, SentOne, ReturnsSteps DEF httpRest
  <2> QED BY <2>1, SteppedInv DEF httpRest
<1>8. CASE e = NoError /\ Goto(f, "selector") /\ UNCHANGED err
  <2>1. f \in late => setup.fetcher # "hybrid"
    BY <1>1 DEF Local
  <2>2. "selector" \in PlacesOf(setup.fetcher)
    BY <1>1, PlaceFacts
  <2>3. Local(f, "selector", sent'[f], p, err[f])
    BY <1>2, <1>4, <1>6, <1>8, <2>1, <2>2 DEF Local
  <2>4. pc' = [pc EXCEPT ![f] = "selector"] /\ pc'[f] = "selector"
    BY <1>8 DEF Goto, FetchingInv, Shapes
  <2>5. Stepped(f)
    BY <1>2, <1>8, <2>3, <2>4, SentOne, HereFacts DEF Stepped, httpRest, Locations
  <2> QED BY <2>5, SteppedInv DEF httpRest
<1> QED BY <1>5, <1>7, <1>8 DEF e

\* The first page of a render (playwright.go:221-262).
LEMMA NavigatedStep ==
    ASSUME FetchingInv, NEW f \in Fetches, Navigated(f)
    PROVE  FetchingInv'
<1>1. pc[f] = "goto" /\ Sent(f) /\ UNCHANGED httpRest
  BY DEF Navigated
<1>2. PICK p \in BrowserAnswers :
        /\ page' = [page EXCEPT ![f] = p]
        /\ \/ classify(p) = "consent" /\ Goto(f, "click") /\ UNCHANGED err
           \/ Rendered(f, p)
  BY DEF Navigated, Got
<1>3. CASE Rendered(f, p)
  BY <1>1, <1>2, <1>3, RenderedSteps
<1>4. CASE classify(p) = "consent" /\ Goto(f, "click") /\ UNCHANGED err
  <2>1. /\ setup.fetcher \in {"browser", "hybrid"} /\ SetupShape
        /\ sent[f] \in 0..MaxSent("goto")
        /\ Local(f, "goto", sent[f], page[f], err[f])
    BY <1>1, HereFacts, PlaceFacts
  <2>2. page'[f] = p /\ p \in PagesSeen
    BY <1>2, AnswersSeen DEF FetchingInv, Shapes
  <2>3. ~ShowsBlock(p)
    BY <1>4, <2>1, <2>2, SeenIsPage, ClassifyFacts
  <2>4. "click" \in PlacesOf(setup.fetcher) /\ (f \in late => setup.fetcher # "hybrid")
    BY <2>1, PlaceFacts DEF Local
  <2>5. sent'[f] \in 0..MaxSent("click")
    BY <1>1, <2>1, SentOne DEF MaxSent, Before
  <2>6. Local(f, "click", sent'[f], p, err[f])
    BY <2>2, <2>3, <2>4, <2>5 DEF Local
  <2>7. pc' = [pc EXCEPT ![f] = "click"] /\ pc'[f] = "click"
    BY <1>4 DEF Goto, FetchingInv, Shapes
  <2>8. Stepped(f)
    BY <1>1, <1>2, <1>4, <2>2, <2>6, <2>7, SentOne, HereFacts DEF Stepped, httpRest, Locations
  <2> QED BY <1>1, <2>8, SteppedInv DEF httpRest
<1> QED BY <1>2, <1>3, <1>4

\* The page after the click (playwright.go:246-262).
LEMMA RejectClickedStep ==
    ASSUME FetchingInv, NEW f \in Fetches, RejectClicked(f)
    PROVE  FetchingInv'
<1>1. PICK p \in BrowserAnswers : page' = [page EXCEPT ![f] = p] /\ Rendered(f, p)
  BY DEF RejectClicked, Got
<1> QED BY <1>1, RenderedSteps DEF RejectClicked

\* A success fits an acceptable page of the browser.
LEMMA SelectorWaitedStep ==
    ASSUME FetchingInv, NEW f \in Fetches, SelectorWaited(f)
    PROVE  FetchingInv'
<1>1. pc[f] = "selector" /\ UNCHANGED <<httpRest, page, sent>>
  BY DEF SelectorWaited
<1>2. CASE Returns(f, Error("other"))
  BY <1>1, <1>2, BrowserFails DEF Failures
<1>3. CASE Returns(f, NoError)
  <2>1. /\ setup.fetcher \in {"browser", "hybrid"}
        /\ sent[f] \in 0..MaxSent("done") /\ Acceptable(page[f]) /\ page[f] \in PagesSeen
    BY <1>1, HereFacts, PlaceFacts DEF Local, MaxSent
  <2>2. Fits(page[f], NoError)
    BY <2>1, NoErrorFacts DEF Fits, BlockOutcomes
  <2>3. End(f) = "done"
    BY <1>1 DEF End
  <2>4. Stepped(f)
    BY <1>1, <1>3, <2>1, <2>2, <2>3, HereFacts, ReturnsSteps DEF httpRest
  <2> QED BY <1>1, <2>4, SteppedInv DEF httpRest
<1> QED BY <1>2, <1>3 DEF SelectorWaited

\* A search that is not answered is an error (provider.go:55-65).
LEMMA SearchFailsStep ==
    ASSUME FetchingInv, NEW f \in Fetches, SearchFails(f)
    PROVE  FetchingInv'
<1>1. pc[f] = "search" /\ Sent(f) /\ UNCHANGED <<httpRest, page>>
  BY DEF SearchFails
<1>2. PICK t \in Failures : Returns(f, Error(t))
  BY DoErrorsFail DEF SearchFails, Failures
<1>3. /\ setup.fetcher = "provider" /\ sent[f] = 0
      /\ page[f] = NoPage
  BY <1>1, HereFacts, PlaceFacts DEF Local, MaxSent
<1>4. page[f].status # 200
  <2>1. NoPage.status = 0
    BY DEF NoPage
  <2> QED BY <1>3, <2>1
<1>5. Fits(page[f], Error(t)) /\ End(f) = "done"
  BY <1>1, <1>4, FailureFits DEF End
<1>6. sent'[f] \in 0..MaxSent("done")
  BY <1>1, <1>3, SentOne DEF MaxSent, Before
<1>7. Stepped(f)
  BY <1>1, <1>2, <1>5, <1>6, HereFacts, SentOne, ReturnsSteps DEF httpRest
<1> QED BY <1>1, <1>7, SteppedInv DEF httpRest

\* The answer to a search (provider.go:66-84).
LEMMA SearchAnsweredStep ==
    ASSUME FetchingInv, NEW f \in Fetches, SearchAnswered(f)
    PROVE  FetchingInv'
<1>1. pc[f] = "search" /\ Sent(f) /\ UNCHANGED httpRest
  BY DEF SearchAnswered
<1>2. PICK p \in Pages :
        /\ page' = [page EXCEPT ![f] = p]
        /\ CASE p.status = 429 ->
                  Returns(f, RateLimitError(p, parseRetryAfter(p.retryAfter)))
             [] p.status = 200 /\ "stub" \in p.marks -> Goto(f, "followUp") /\ UNCHANGED err
             [] p.status = 200 /\ "stub" \notin p.marks -> Returns(f, NoError)
             [] p.status \notin {200, 429} -> Returns(f, Error("other"))
  BY DEF SearchAnswered, Got
<1>3. setup.fetcher = "provider" /\ sent[f] = 0 /\ SetupShape /\ End(f) = "done"
  BY <1>1, HereFacts, PlaceFacts DEF MaxSent, End
<1>4. page'[f] = p /\ p \in PagesSeen
  BY <1>2, AnswersSeen DEF FetchingInv, Shapes
<1>5. sent'[f] = 1 /\ 1 \in 0..MaxSent("done")
  BY <1>1, <1>3, SentOne DEF MaxSent, Before
<1>6. ASSUME NEW e, Returns(f, e), p.status = 200 => e = NoError
      PROVE  FetchingInv'
  <2>1. Fits(p, e)
    BY <1>3, <1>6, NoErrorFacts DEF Fits
  <2>2. Stepped(f)
    BY <1>1, <1>2, <1>3, <1>4, <1>5, <1>6, <2>1, SentOne, ReturnsSteps DEF httpRest
  <2> QED BY <1>1, <2>2, SteppedInv DEF httpRest
<1>7. CASE p.status = 429
  <2>1. PICK e : e = RateLimitError(p, parseRetryAfter(p.retryAfter))
    OBVIOUS
  <2>2. Returns(f, e)
    BY <1>2, <1>7, <2>1
  <2> QED BY <1>6, <1>7, <2>2
<1>8. CASE p.status = 200 /\ "stub" \in p.marks
  <2>1. Goto(f, "followUp") /\ UNCHANGED err
    BY <1>2, <1>8
  <2>2. "followUp" \in PlacesOf(setup.fetcher) /\ 1 \in 0..MaxSent("followUp")
    BY <1>3, PlaceFacts DEF MaxSent
  <2>3. Local(f, "followUp", 1, p, err[f])
    BY <1>3, <1>4, <1>8, <2>2 DEF Local
  <2>4. pc' = [pc EXCEPT ![f] = "followUp"] /\ pc'[f] = "followUp"
    BY <2>1 DEF Goto, FetchingInv, Shapes
  <2>5. Stepped(f)
    BY <1>1, <1>2, <1>4, <1>5, <2>1, <2>3, <2>4, SentOne, HereFacts
    DEF Stepped, httpRest, Locations
  <2> QED BY <1>1, <2>5, SteppedInv DEF httpRest
<1>9. CASE p.status = 200 /\ "stub" \notin p.marks
  BY <1>2, <1>6, <1>9
<1>10. CASE p.status \notin {200, 429}
  <2>1. Returns(f, Error("other"))
    BY <1>2, <1>10
  <2> QED BY <1>6, <1>10, <2>1
<1> QED BY <1>7, <1>8, <1>9, <1>10

\* The follow-up request cannot lose the search (provider.go:80-84).
LEMMA FollowUpStep ==
    ASSUME FetchingInv, NEW f \in Fetches, FollowUp(f)
    PROVE  FetchingInv'
<1>1. /\ pc[f] = "followUp" /\ Sent(f) /\ UNCHANGED httpRest /\ Returns(f, NoError)
      /\ page' = page
  BY DEF FollowUp, FollowUpError
<1>2. /\ setup.fetcher = "provider" /\ sent[f] \in 0..1 /\ End(f) = "done"
      /\ page[f] \in Pages
  BY <1>1, HereFacts, PlaceFacts DEF Local, MaxSent, End
<1>3. page' = [page EXCEPT ![f] = page'[f]] /\ page'[f] \in PagesSeen
  BY <1>1, <1>2, HereFacts, AnswersSeen
<1>4. Fits(page'[f], NoError)
  BY <1>2, NoErrorFacts DEF Fits
<1>5. sent'[f] \in 0..MaxSent("done")
  BY <1>1, <1>2, SentOne DEF MaxSent, Before
<1>6. Stepped(f)
  BY <1>1, <1>2, <1>3, <1>4, <1>5, SentOne, ReturnsSteps DEF httpRest
<1> QED BY <1>1, <1>6, SteppedInv DEF httpRest

\* A turn at the mock's counter (mock.go:30-33).
LEMMA MockTurnStep ==
    ASSUME FetchingInv, NEW f \in Fetches, MockTurn(f)
    PROVE  FetchingInv'
<1> USE DEF MockTurn
<1>1. /\ setup.fetcher = "mock" /\ sent[f] = 0 /\ SetupShape
      /\ Local(f, "mock", sent[f], page[f], err[f])
  BY HereFacts, PlaceFacts DEF MaxSent
<1>2. "latency" \in PlacesOf(setup.fetcher) /\ 0 \in 0..MaxSent("latency")
  BY <1>1, PlaceFacts DEF MaxSent
<1>3. Local(f, "latency", 0, page[f], err[f])
  BY <1>1, <1>2 DEF Local
<1>4. pc' = [pc EXCEPT ![f] = "latency"] /\ pc'[f] = "latency"
  BY DEF Goto, FetchingInv, Shapes
<1>5. Stepped(f)
  BY <1>1, <1>3, <1>4, HereFacts DEF Stepped, Locations
<1>6. Pooled'
  BY DEF FetchingInv, Pooled
<1>7. Counted'
  <2>1. IsFiniteSet(Passed)
    BY FetchingAssumption, FS_Subset DEF Passed
  <2>2. Passed' = Passed \cup {f} /\ f \notin Passed
    BY <1>4 DEF Passed, FetchingInv, Shapes
  <2>3. Cardinality(Passed') = Cardinality(Passed) + 1 /\ Cardinality(Passed) \in Nat
    BY <2>1, <2>2, FS_AddElement, FS_CardinalityType
  <2> QED BY <2>3 DEF FetchingInv, Counted
<1> QED BY <1>5, <1>6, <1>7, SteppedKeeps DEF FetchingInv, Shapes

\* The mock answers anything (mock.go:34-52).
LEMMA MockReturnsStep ==
    ASSUME FetchingInv, NEW f \in Fetches, MockReturns(f)
    PROVE  FetchingInv'
<1>1. pc[f] = "latency" /\ UNCHANGED <<httpRest, page, sent>>
  BY DEF MockReturns
<1>2. setup.fetcher = "mock" /\ sent[f] \in 0..MaxSent("done") /\ End(f) = "done"
  BY <1>1, HereFacts, PlaceFacts DEF MaxSent, Before, End
<1>3. PICK e : Returns(f, e)
  BY DEF MockReturns
<1>4. Fits(page[f], e)
  BY <1>2 DEF Fits
<1>5. Stepped(f)
  BY <1>1, <1>2, <1>3, <1>4, HereFacts, ReturnsSteps DEF httpRest
<1> QED BY <1>1, <1>5, SteppedInv DEF httpRest

\* ctx ends: the fetches not past their HTTP part are those that must not
\* start a browser any more (failover.go:38).
LEMMA CancelStep ==
    ASSUME FetchingInv, Cancel
    PROVE  FetchingInv'
<1> USE DEF Cancel
<1>1. AllLocal'
  <2> SUFFICES ASSUME NEW f \in Fetches
               PROVE  Local(f, pc[f], sent[f], page[f], err[f])'
    BY DEF AllLocal
  <2>1. Local(f, pc[f], sent[f], page[f], err[f])
    BY HereFacts
  <2>2. f \in late' => pc[f] \notin {"acquire", "goto", "click", "selector"}
    OBVIOUS
  <2>3. /\ pc'[f] = pc[f] /\ sent'[f] = sent[f] /\ page'[f] = page[f] /\ err'[f] = err[f]
        /\ setup' = setup
    OBVIOUS
  <2> QED BY <2>1, <2>2, <2>3, LocalFrame
<1>2. Shapes' /\ LateIsOver'
  BY DEF FetchingInv, Shapes, SetupShape, LateIsOver
<1>3. Pooled' /\ Counted'
  BY DEF FetchingInv, Pooled, Counted, Passed
<1> QED BY <1>1, <1>2, <1>3 DEF FetchingInv

\* Initially no fetch has begun.
LEMMA FetchingInitInv == Init => FetchingInv
<1> SUFFICES ASSUME Init PROVE FetchingInv
  OBVIOUS
<1> USE DEF Init
<1>1. SetupShape
  <2>1. ASSUME NEW k \in Fetchers, NEW g \in BOOLEAN, NEW s \in BOOLEAN, setup = Setup(k, g, s)
        PROVE  SetupShape
    BY <2>1, Zenon DEF SetupShape, Setup
  <2>2. CASE setup \in {Setup(k, FALSE, FALSE) : k \in {"mock", "http", "provider", "browser", "hybrid"}}
    <3>1. PICK k \in {"mock", "http", "provider", "browser", "hybrid"} : setup = Setup(k, FALSE, FALSE)
      BY <2>2, Zenon
    <3>2. k \in Fetchers
      BY <3>1 DEF Fetchers
    <3> QED BY <2>1, <3>1, <3>2, Zenon
  <2>3. CASE setup \in {Setup("http", TRUE, FALSE), Setup("browser", TRUE, FALSE), Setup("hybrid", TRUE, TRUE)}
    <3>1. "http" \in Fetchers /\ "browser" \in Fetchers /\ "hybrid" \in Fetchers
      BY DEF Fetchers
    <3> QED BY <2>1, <2>3, <3>1, Zenon
  <2> QED BY <2>2, <2>3, Zenon DEF Setups
<1>2. Shapes
  BY <1>1 DEF Shapes, Locations
<1>3. ASSUME NEW f \in Fetches PROVE Local(f, "start", 0, NoPage, NoError)
  <2>1. "start" \in PlacesOf(setup.fetcher) /\ 0 \in 0..MaxSent("start")
    BY <1>1, PlaceFacts DEF MaxSent
  <2> QED BY <2>1 DEF Local, PagesSeen
<1>4. AllLocal
  BY <1>3 DEF AllLocal
<1>5. Counted
  <2>1. IsFiniteSet(Passed)
    BY FetchingAssumption, FS_Subset DEF Passed
  <2> QED BY <2>1, FS_CardinalityType DEF Counted
<1> QED BY <1>2, <1>4, <1>5 DEF FetchingInv, Pooled, LateIsOver

\* Every step keeps the inductive invariant.
LEMMA FetchingStep == FetchingInv /\ [Next]_vars => FetchingInv'
<1> SUFFICES ASSUME FetchingInv, [Next]_vars PROVE FetchingInv'
  OBVIOUS
<1>1. CASE UNCHANGED vars
  <2>1. AllLocal'
    <3> SUFFICES ASSUME NEW f \in Fetches
                 PROVE  Local(f, pc[f], sent[f], page[f], err[f])'
      BY DEF AllLocal
    <3>1. Local(f, pc[f], sent[f], page[f], err[f])
      BY HereFacts
    <3>2. /\ pc'[f] = pc[f] /\ sent'[f] = sent[f] /\ page'[f] = page[f] /\ err'[f] = err[f]
          /\ setup' = setup /\ late' = late
      BY <1>1 DEF vars
    <3> QED BY <3>1, <3>2, LocalFrame
  <2>2. Shapes' /\ LateIsOver'
    BY <1>1 DEF vars, FetchingInv, Shapes, SetupShape, LateIsOver
  <2>3. Pooled' /\ Counted'
    BY <1>1 DEF vars, FetchingInv, Pooled, Counted, Passed
  <2> QED BY <2>1, <2>2, <2>3 DEF FetchingInv
<1>2. ASSUME NEW f \in Fetches, Answered(f) PROVE FetchingInv'
  BY <1>2, HTTPAnsweredStep, HTTPConsentAnsweredStep, NavigatedStep, RejectClickedStep,
     SearchAnsweredStep DEF Answered
<1>3. ASSUME NEW f \in Fetches, OwnStep(f) PROVE FetchingInv'
  BY <1>3, StartStep, LoadStep, LoadOrStoreStep, HTTPFailsStep, FailoverStep, AcquireStep,
     RenderFailsStep, SelectorWaitedStep, SearchFailsStep, FollowUpStep, MockTurnStep,
     MockReturnsStep DEF OwnStep
<1> QED BY <1>1, <1>2, <1>3, CancelStep DEF Next, Finished

\* The inductive invariant holds in every reachable state.
LEMMA FetchingInvariant == Spec => []FetchingInv
  BY FetchingInitInv, FetchingStep, PTL DEF Spec
-----------------------------------------------------------------------------
URLs == {p.path : p \in Pages \cup {NoPage}}
Marks == (UNION {p.marks : p \in Pages}) \cup {"overview"}

\* What a fetch holds fits the page that was judged: all of it over HTTP, the
\* status in the browser, and nothing of a search's answer is lost.
HeldFits(p, h) ==
    /\ setup.fetcher = "http" => h = Content(p)
    /\ p.status # 0 => h.status = p.status
    /\ setup.fetcher = "provider" => p.marks \ {"stub"} \subseteq h.marks

HeldInv ==
    /\ held \in [Fetches -> Contents]
    /\ \A f \in Fetches : HeldFits(page[f], held[f])

\* A page's content is one, and fits it.
LEMMA ContentFacts ==
    ASSUME NEW p \in PagesSeen
    PROVE  /\ Content(p) \in Contents
           /\ Content(p).status = p.status /\ Content(p).marks = p.marks
           /\ p.path \in URLs /\ p.marks \in SUBSET Marks
           /\ HeldFits(p, Content(p))
<1>1. p.status \in Nat /\ p.html \in BOOLEAN /\ p.path \in URLs /\ p.marks \in SUBSET Marks
  <2>1. CASE p \in Pages
    <3>1. p.status \in Nat /\ p.html \in BOOLEAN
      BY <2>1, PagesAssumption, Zenon
    <3> QED BY <2>1, <3>1, Zenon DEF URLs, Marks
  <2>2. CASE p = NoPage
    <3>1. p.status = 0 /\ p.html = FALSE /\ p.marks = {}
      BY <2>2 DEF NoPage
    <3>2. p.path \in URLs
      BY <2>2, Zenon DEF URLs
    <3>3. p.status \in Nat /\ p.marks \in SUBSET Marks
      BY <3>1
    <3> QED BY <3>1, <3>2, <3>3, Zenon
  <2>3. ASSUME NEW q \in Pages, p = [q EXCEPT !.status = 0, !.html = TRUE, !.retryAfter = "none"]
        PROVE  p.status \in Nat /\ p.html \in BOOLEAN /\ p.path \in URLs /\ p.marks \in SUBSET Marks
    <3>1. q \in [status : Nat, html : BOOLEAN, path : STRING, marks : SUBSET STRING,
                 retryAfter : STRING]
      BY PagesAssumption, Zenon
    <3>2. p.status = 0 /\ p.html = TRUE /\ p.path = q.path /\ p.marks = q.marks
      BY <2>3, <3>1
    <3>3. q.path \in URLs /\ q.marks \in SUBSET Marks
      BY Zenon DEF URLs, Marks
    <3>4. p.status \in Nat
      BY <3>2
    <3> QED BY <3>2, <3>3, <3>4, Zenon
  <2> QED BY <2>1, <2>2, <2>3, Zenon DEF PagesSeen, BrowserAnswers
<1>2. Content(p).status = p.status /\ Content(p).marks = p.marks
  BY DEF Content
<1>3. Content(p) \in Contents
  BY <1>1, Zenon DEF Content, Contents, URLs, Marks
<1> QED BY <1>1, <1>2, <1>3 DEF HeldFits

\* A step of f that leaves it with what fits.
LEMMA HeldKept ==
    ASSUME FetchingInv, HeldInv, NEW f \in Fetches, NEW p, NEW h, setup' = setup,
           page' = [page EXCEPT ![f] = p], held' = [held EXCEPT ![f] = h],
           h \in Contents, HeldFits(p, h)
    PROVE  HeldInv'
<1>1. held' \in [Fetches -> Contents]
  BY DEF HeldInv
<1>2. ASSUME NEW g \in Fetches PROVE HeldFits(page[g], held[g])'
  <2>1. HeldFits(page'[g], held'[g])
    <3>1. CASE g = f
      <4>1. page'[g] = p /\ held'[g] = h
        BY <3>1 DEF FetchingInv, Shapes, HeldInv
      <4> QED BY <4>1
    <3>2. CASE g # f
      <4>1. page'[g] = page[g] /\ held'[g] = held[g]
        BY <3>2 DEF FetchingInv, Shapes, HeldInv
      <4> QED BY <4>1 DEF HeldInv
    <3> QED BY <3>1, <3>2
  <2> QED BY <2>1 DEF HeldFits
<1> QED BY <1>1, <1>2 DEF HeldInv

\* An answer taken as it is (http.go:112-142, playwright.go:226-237,
\* provider.go:66-79).
LEMMA HeldGot ==
    ASSUME FetchingInv, HeldInv, NEW f \in Fetches, NEW p \in PagesSeen, setup' = setup,
           Got(f, p, Content(p))
    PROVE  HeldInv'
<1>1. Content(p) \in Contents /\ HeldFits(p, Content(p))
  BY ContentFacts
<1> QED BY <1>1, HeldKept DEF Got

\* The page after the click keeps the first content type (playwright.go:
\* 246-262).
LEMMA HeldClicked ==
    ASSUME FetchingInv, HeldInv, NEW f \in Fetches, RejectClicked(f)
    PROVE  HeldInv'
<1>1. PICK p \in BrowserAnswers : Got(f, p, [Content(p) EXCEPT !.html = held[f].html])
  BY DEF RejectClicked
<1>2. /\ setup' = setup /\ p \in PagesSeen
      /\ setup.fetcher \in {"browser", "hybrid"}
  BY HereFacts, PlaceFacts DEF RejectClicked, httpRest, PagesSeen
<1> DEFINE c == Content(p)
           h == [c EXCEPT !.html = held[f].html]
<1>3. c \in Contents /\ c.status = p.status /\ held[f] \in Contents
  BY <1>2, ContentFacts DEF HeldInv
<1> HIDE DEF c
<1>4. h \in Contents
  BY <1>3, Zenon DEF Contents
<1>5. h.status = p.status
  BY <1>3 DEF Contents
<1>6. HeldFits(p, h)
  BY <1>2, <1>5 DEF HeldFits
<1> QED BY <1>1, <1>2, <1>4, <1>6, HeldKept DEF Got, c

\* The end of render keeps the status, unless there was none (playwright.go:
\* 280-301).
LEMMA HeldWaited ==
    ASSUME FetchingInv, HeldInv, NEW f \in Fetches, SelectorWaited(f)
    PROVE  HeldInv'
<1>1. setup' = setup /\ page' = page /\ setup.fetcher \in {"browser", "hybrid"}
  BY HereFacts, PlaceFacts DEF SelectorWaited, httpRest
<1>2. page' = [page EXCEPT ![f] = page[f]]
  BY <1>1, HereFacts
<1>3. held[f] \in Contents /\ HeldFits(page[f], held[f]) /\ page[f] \in PagesSeen
  BY HereFacts DEF HeldInv
<1>4. CASE held' = held
  BY <1>1, <1>4 DEF HeldInv, HeldFits
<1>5. ASSUME NEW q \in Scripted \cup {page[f]}, NEW marks \in {page[f].marks, q.marks},
             held' = [held EXCEPT ![f] =
                         [status |-> IF @.status = 0 THEN 200 ELSE @.status,
                          html |-> @.html, path |-> q.path, marks |-> marks]]
      PROVE  HeldInv'
  <2> DEFINE n == IF held[f].status = 0 THEN 200 ELSE held[f].status
             h == [status |-> n, html |-> held[f].html, path |-> q.path, marks |-> marks]
  <2>1. held' = [held EXCEPT ![f] = h]
    BY <1>5 DEF HeldInv
  <2>2. q \in PagesSeen
    BY <1>3, FetchingAssumption, AnswersSeen
  <2>3. q.path \in URLs /\ marks \in SUBSET Marks
    BY <1>3, <1>5, <2>2, ContentFacts
  <2>4. n \in Nat /\ held[f].html \in BOOLEAN
    BY <1>3 DEF Contents
  <2>5. page[f].status # 0 => n = page[f].status
    BY <1>3 DEF HeldFits
  <2> HIDE DEF n
  <2>6. h \in Contents
    BY <2>3, <2>4, Zenon DEF Contents, URLs, Marks
  <2>7. h.status = n
    OBVIOUS
  <2>8. HeldFits(page[f], h)
    BY <1>1, <2>5, <2>7 DEF HeldFits
  <2> QED BY <1>1, <1>2, <2>1, <2>6, <2>8, HeldKept
<1> QED BY <1>4, <1>5 DEF SelectorWaited

\* The overview takes the stub's place and nothing else (provider.go:80-84).
LEMMA HeldFollowedUp ==
    ASSUME FetchingInv, HeldInv, NEW f \in Fetches, FollowUp(f)
    PROVE  HeldInv'
<1>1. setup' = setup /\ page' = page /\ setup.fetcher = "provider"
  BY HereFacts, PlaceFacts DEF FollowUp, httpRest
<1>2. page' = [page EXCEPT ![f] = page[f]]
  BY <1>1, HereFacts
<1>3. held[f] \in Contents /\ HeldFits(page[f], held[f])
  BY DEF HeldInv
<1>4. CASE held' = held
  BY <1>1, <1>4 DEF HeldInv, HeldFits
<1>5. CASE held' = [held EXCEPT ![f].marks = (@ \ {"stub"}) \cup {"overview"}]
  <2> DEFINE m == (held[f].marks \ {"stub"}) \cup {"overview"}
             h == [held[f] EXCEPT !.marks = m]
  <2>1. held' = [held EXCEPT ![f] = h]
    BY <1>5 DEF HeldInv
  <2>2. m \in SUBSET Marks
    <3>1. held[f].marks \in SUBSET Marks
      BY <1>3, Zenon DEF Contents, Marks
    <3>2. "overview" \in Marks
      BY DEF Marks
    <3> QED BY <3>1, <3>2
  <2>3. page[f].marks \ {"stub"} \subseteq m
    BY <1>1, <1>3 DEF HeldFits
  <2> HIDE DEF m
  <2>4. h \in Contents
    BY <1>3, <2>2, Zenon DEF Contents, Marks
  <2>5. h.status = held[f].status /\ h.marks = m
    BY <1>3 DEF Contents
  <2>6. HeldFits(page[f], h)
    BY <1>1, <1>3, <2>3, <2>5 DEF HeldFits
  <2> QED BY <1>1, <1>2, <2>1, <2>4, <2>6, HeldKept
<1> QED BY <1>4, <1>5 DEF FollowUp

\* Every step keeps what is held fitting.
LEMMA HeldStep == FetchingInv /\ HeldInv /\ [Next]_vars => HeldInv'
<1> SUFFICES ASSUME FetchingInv, HeldInv, [Next]_vars PROVE HeldInv'
  OBVIOUS
<1>1. CASE UNCHANGED <<setup, page, held>>
  BY <1>1 DEF HeldInv, HeldFits
<1>2. ASSUME NEW f \in Fetches, Answered(f) PROVE HeldInv'
  <2>1. CASE HTTPAnswered(f)
    <3>1. PICK p \in Pages : Got(f, p, Content(p))
      BY <2>1 DEF HTTPAnswered
    <3> QED BY <2>1, <3>1, HeldGot, AnswersSeen DEF HTTPAnswered, httpRest
  <2>2. CASE HTTPConsentAnswered(f)
    <3>1. PICK p \in Pages : Got(f, p, Content(p))
      BY <2>2 DEF HTTPConsentAnswered
    <3> QED BY <2>2, <3>1, HeldGot, AnswersSeen DEF HTTPConsentAnswered, httpRest
  <2>3. CASE Navigated(f)
    <3>1. PICK p \in BrowserAnswers : Got(f, p, Content(p))
      BY <2>3 DEF Navigated
    <3> QED BY <2>3, <3>1, HeldGot, AnswersSeen DEF Navigated, httpRest
  <2>4. CASE SearchAnswered(f)
    <3>1. PICK p \in Pages : Got(f, p, Content(p))
      BY <2>4 DEF SearchAnswered
    <3> QED BY <2>4, <3>1, HeldGot, AnswersSeen DEF SearchAnswered, httpRest
  <2> QED BY <1>2, <2>1, <2>2, <2>3, <2>4, HeldClicked DEF Answered
<1>3. ASSUME NEW f \in Fetches, OwnStep(f) PROVE HeldInv'
  <2>1. \/ UNCHANGED <<setup, page, held>> \/ SelectorWaited(f) \/ FollowUp(f)
    BY <1>3 DEF OwnStep, Start, Load, LoadOrStore, HTTPFails, Failover, Acquire,
       RenderCanceled, NavigationFails, SearchFails, MockTurn, MockReturns, httpRest
  <2> QED BY <1>1, <2>1, HeldWaited, HeldFollowedUp
<1> QED BY <1>1, <1>2, <1>3 DEF Next, Cancel, Finished, vars

\* What a fetch holds fits in every reachable state.
LEMMA HeldInvariant == Spec => []HeldInv
<1>1. Init => HeldInv
  <2> SUFFICES ASSUME Init PROVE HeldInv
    OBVIOUS
  <2>1. NoPage \in PagesSeen
    BY DEF PagesSeen
  <2>2. Content(NoPage) \in Contents /\ HeldFits(NoPage, Content(NoPage))
    BY <2>1, ContentFacts
  <2> QED BY <2>2 DEF Init, HeldInv
<1> QED BY <1>1, HeldStep, FetchingInvariant, PTL DEF Spec
-----------------------------------------------------------------------------
(***************************************************************************)
(* A fetch never holds a page nobody sent and never sends more than two    *)
(* requests over HTTP and two navigations, for any pages the servers       *)
(* answer with: no consent page is submitted twice (http.go:118-142,       *)
(* playwright.go:239-259).                                                 *)
(***************************************************************************)
THEOREM FetchTypeCorrect == Spec => []FetchTypeOK
<1>1. FetchingInv /\ HeldInv => FetchTypeOK
  <2> SUFFICES ASSUME FetchingInv, HeldInv PROVE FetchTypeOK
    OBVIOUS
  <2>1. counter \in 0..Cardinality(Fetches)
    <3>1. /\ IsFiniteSet(Passed) /\ Cardinality(Passed) <= Cardinality(Fetches)
          /\ Cardinality(Fetches) \in Nat
      BY FetchingAssumption, FS_Subset, FS_CardinalityType DEF Passed
    <3>2. Cardinality(Passed) \in Nat
      BY <3>1, FS_CardinalityType
    <3> QED BY <3>1, <3>2 DEF FetchingInv, Counted
  <2>2. ASSUME NEW f \in Fetches
        PROVE  /\ page[f] \in BrowserAnswers \cup {NoPage}
               /\ held[f] \in Contents
               /\ sent[f] \in 0..(IF setup.fetcher = "hybrid" THEN 4 ELSE 2)
    <3>1. page[f] \in PagesSeen /\ sent[f] \in 0..MaxSent(pc[f])
      BY HereFacts
    <3>2. MaxSent(pc[f]) \in 0..(IF setup.fetcher = "hybrid" THEN 4 ELSE 2)
      BY HereFacts, PlaceFacts DEF MaxSent, Before
    <3>3. held[f] \in Contents
      BY DEF HeldInv
    <3> QED BY <3>1, <3>2, <3>3 DEF PagesSeen
  <2>3. /\ pc \in [Fetches -> Locations]
        /\ late \subseteq Fetches
        /\ transports \in [Proxies -> Fetches \cup {None}]
        /\ transport \in [Fetches -> Fetches \cup {None}]
    BY DEF FetchingInv, Shapes
  <2> QED BY <2>1, <2>2, <2>3, Zenon DEF FetchTypeOK
<1> QED BY <1>1, FetchingInvariant, HeldInvariant, PTL

(***************************************************************************)
(* However many fetches race to open the first connection through a proxy, *)
(* they all use the same transport (http.go:176-195).                      *)
(***************************************************************************)
THEOREM TransportsArePooled == Spec => []OneTransportPerProxy
<1>1. FetchingInv => OneTransportPerProxy
  BY DEF FetchingInv, Pooled, OneTransportPerProxy
<1> QED BY <1>1, FetchingInvariant, PTL

(***************************************************************************)
(* Whatever pages servers answer with, no form is submitted, no button     *)
(* clicked and no browser started after a page that shows a block          *)
(* (failover.go:14-16, classify.go:186-187, 232-233).                      *)
(***************************************************************************)
THEOREM BlocksLeftAlone == Spec => []BlocksAreLeftAlone
<1>1. FetchingInv => BlocksAreLeftAlone
  BY HereFacts DEF BlocksAreLeftAlone, Local, Spared
<1> QED BY <1>1, FetchingInvariant, PTL

(***************************************************************************)
(* Once ctx has ended, no fetch still in its HTTP part takes a browser     *)
(* session (failover.go:38).                                               *)
(***************************************************************************)
THEOREM NoBrowserAfterShutdown == Spec => []ShutdownStartsNoBrowser
<1>1. FetchingInv => ShutdownStartsNoBrowser
  BY HereFacts DEF ShutdownStartsNoBrowser, Local, FetchingInv, Shapes
<1> QED BY <1>1, FetchingInvariant, PTL

(***************************************************************************)
(* Whatever pages servers answer with, the result of a fetch is that of    *)
(* its last answer (http.go:135-158, playwright.go:262-310,                *)
(* provider.go:66-84).                                                     *)
(***************************************************************************)
THEOREM ResultOfLastAnswer == Spec => []OutcomeOfLastAnswer
<1>1. FetchingInv /\ HeldInv => OutcomeOfLastAnswer
  <2> SUFFICES ASSUME FetchingInv, HeldInv, NEW f \in Fetches, pc[f] = "done"
               PROVE  LET p == page[f]
                          o == Classify(err[f]) IN
                      IF setup.fetcher = "provider"
                      THEN p.status = 200 =>
                              o = "success" /\ p.marks \ {"stub"} \subseteq held[f].marks
                      ELSE setup.fetcher # "mock" =>
                      /\ o = "success" =>
                            /\ p.status < 400 /\ ~ShowsBlock(p)
                            /\ ~setup.generic => "consentForm" \notin p.marks
                            /\ setup.fetcher = "http" /\ p.html => ~needsJS(p)
                            /\ p.status # 0 => held[f].status = p.status
                            /\ setup.fetcher = "http" => held[f] = Content(p)
                      /\ o = "rate_limited" =>
                            /\ p.status = 429
                            /\ err[f].retryAfter # "zero" => p.retryAfter = "wait"
                      /\ o = "http_4xx" => p.status \in 400..499 \ {429}
                      /\ o = "http_5xx" => p.status >= 500
                      /\ o \in BlockOutcomes => p.marks # {} \/ p.path # "/"
    BY DEF OutcomeOfLastAnswer
  <2>1. Fits(page[f], err[f])
    BY HereFacts DEF Local
  <2>2. Marked(page[f]) => page[f].marks # {} \/ page[f].path # "/"
    BY DEF Marked
  <2>3. HeldFits(page[f], held[f])
    BY DEF HeldInv
  <2>4. CASE setup.fetcher = "provider"
    BY <2>1, <2>3, <2>4, Zenon DEF Fits, HeldFits
  <2>5. CASE setup.fetcher # "provider"
    <3>1. /\ page[f].status # 0 => held[f].status = page[f].status
          /\ setup.fetcher = "http" => held[f] = Content(page[f])
      BY <2>3, Zenon DEF HeldFits
    <3> QED BY <2>1, <2>2, <2>5, <3>1 DEF Fits, Acceptable
  <2> QED BY <2>4, <2>5
<1> QED BY <1>1, FetchingInvariant, HeldInvariant, PTL
=============================================================================
