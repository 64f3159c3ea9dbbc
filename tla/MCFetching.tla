----------------------------- MODULE MCFetching -----------------------------
(* A small set of answers: each block, consent and script page once, and   *)
(* the pages on which two rules compete.                                   *)
EXTENDS Fetching

Page(status, path, marks) ==
    [status |-> status, html |-> TRUE, path |-> path, marks |-> marks, retryAfter |-> "none"]

MCPages == {
    Page(200, "/", {"script"}),
    Page(200, "/", {"stub", "widget", "text"}),
    Page(200, "/", {"enableJS", "text"}),
    Page(302, "/httpservice/retry/enablejs", {}),
    Page(200, "/httpservice/retry/enablejs", {"captchaForm"}),
    Page(200, "/", {"consentForm", "rejectForm", "text"}),
    Page(200, "/", {"consentForm", "text"}),
    Page(503, "/", {"consentForm", "rejectForm", "captchaForm", "widget"}),
    Page(429, "/sorry/", {"captchaForm"}),
    Page(403, "/", {"justAMoment", "script"}),
    Page(503, "/", {"text"}),
    [Page(404, "/", {}) EXCEPT !.html = FALSE],
    [Page(429, "/", {"text"}) EXCEPT !.retryAfter = "wait"] }

\* A page turns into a CAPTCHA, under a URL of its own or another's.
MCScripted == {p \in MCPages : p.path # "/" /\ p.marks # {}}
=============================================================================
