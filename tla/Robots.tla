------------------------------- MODULE Robots -------------------------------
(***************************************************************************)
(* internal/robots/robots.go: what a robots.txt says to one user agent.    *)
(*                                                                         *)
(* A file is a sequence of lines, a line its key and its value.  The value *)
(* of a rule is a pattern, of which its length and the pages it matches    *)
(* are kept (compile and unescape are Go's regexp and url packages); an    *)
(* empty value has length 0.  The value of a user-agent line is "*" or a   *)
(* name: Token is the agent itself, Ours are the non-empty names that it   *)
(* contains, and "other" is any other.  A line without a colon is "blank", *)
(* and "sitemap" stands for every record that is none of the others.       *)
(***************************************************************************)
EXTENDS Integers, Sequences, FiniteSets, SequencesExt, FiniteSetsExt

CONSTANTS
    Pages,
    Token,
    Ours

ASSUME TokenAssumption == Token \in Ours /\ "*" \notin Ours

Lines ==
    [key : {"user-agent"}, name : Ours \cup {"*", "other"}]
    \cup [key : {"allow", "disallow"}, length : Nat, matches : SUBSET Pages]
    \cup [key : {"crawl-delay"}, delay : Nat]
    \cup [key : {"sitemap", "blank"}]

AgentLine(name) == [key |-> "user-agent", name |-> name]
RuleLine(key, length, matches) == [key |-> key, length |-> length, matches |-> matches]
DelayLine(delay) == [key |-> "crawl-delay", delay |-> delay]
OtherLine(key) == [key |-> key]

newRule(allow, length, matches) == [allow |-> allow, length |-> length, matches |-> matches]

Rules(rules, delay) == [rules |-> rules, CrawlDelay |-> delay]
AllowAll == Rules(<<>>, 0)
DisallowAll == Rules(<<newRule(FALSE, 1, Pages)>>, 0)
-----------------------------------------------------------------------------
Group(agents, rules, delay) == [agents |-> agents, rules |-> rules, delay |-> delay]
Reading(groups, lastWasAgent) == [groups |-> groups, lastWasAgent |-> lastWasAgent]

\* One line of the file.  cur is the last group; a line with a colon that
\* names no agent ends the list of agents.
ReadLine(st, line) ==
    LET groups == st.groups
        cur == groups[Len(groups)]
        WithCur(g) == [groups EXCEPT ![Len(groups)] = g] IN
    IF line.key = "blank" THEN st
    ELSE IF line.key = "user-agent" THEN
        IF st.lastWasAgent
        THEN Reading(WithCur(Group(cur.agents \cup {line.name}, cur.rules, cur.delay)), TRUE)
        ELSE Reading(Append(groups, Group({line.name}, <<>>, 0)), TRUE)
    ELSE IF line.key \in {"allow", "disallow"} /\ groups # <<>> /\ line.length > 0 THEN
        LET ru == newRule(line.key = "allow", line.length, line.matches)
        IN Reading(WithCur(Group(cur.agents, Append(cur.rules, ru), cur.delay)), FALSE)
    ELSE IF line.key = "crawl-delay" /\ groups # <<>> /\ line.delay > 0 THEN
        Reading(WithCur(Group(cur.agents, cur.rules, line.delay)), FALSE)
    ELSE Reading(groups, FALSE)

Groups(file) ==
    LET st[n \in 0..Len(file)] ==
          IF n = 0 THEN Reading(<<>>, FALSE) ELSE ReadLine(st[n - 1], file[n])
    IN st[Len(file)].groups

\* The groups that list one of the names, merged.
MergedFor(groups, names) ==
    LET out[n \in 0..Len(groups)] ==
          IF n = 0 THEN AllowAll
          ELSE IF groups[n].agents \cap names = {} THEN out[n - 1]
          ELSE Rules(out[n - 1].rules \o groups[n].rules,
                     Max({out[n - 1].CrawlDelay, groups[n].delay}))
    IN out[Len(groups)]

\* The groups that name the agent; if there is none, those of "*".
Parse(file) ==
    LET groups == Groups(file)
        matched == \E n \in 1..Len(groups) : groups[n].agents \cap Ours # {}
    IN MergedFor(groups, IF matched THEN Ours ELSE {"*"})

\* The longest matching rule wins, Allow wins a tie.
Better(best, ru) ==
    IF ru.length > best.length \/ (ru.length = best.length /\ ru.allow) THEN ru ELSE best

Allowed(r, p) ==
    LET best[n \in 0..Len(r.rules)] ==
          IF n = 0 THEN newRule(TRUE, -1, {})
          ELSE IF p \in r.rules[n].matches THEN Better(best[n - 1], r.rules[n])
          ELSE best[n - 1]
    IN best[Len(r.rules)].allow

\* Cache.For: what becomes of the answer to the request for the file.
AbsentOnAnyStatus(answer, file) ==
    IF answer.err THEN DisallowAll
    ELSE IF answer.status \in 200..299 THEN Parse(file) ELSE AllowAll
RulesFor(answer, file) ==
    IF answer.err THEN DisallowAll
    ELSE IF answer.status \in 200..299 THEN Parse(file)
    ELSE IF answer.status \in 400..499 \ {429} THEN AllowAll
    ELSE DisallowAll

\* RobotsGetter: a success (3xx without a Location included), the status of
\* a StatusError or a RateLimitError, or, for anything else, an error.
RobotsGetter ==
    [err : {FALSE}, status : {200, 304, 404, 429, 503}] \cup {[err |-> TRUE, status |-> 0]}
-----------------------------------------------------------------------------
(***************************************************************************)
(* What RFC 9309 says, line by line.  Its records are user-agent, allow    *)
(* and disallow; any other "must not interfere" (section 2.2.4).  A rule   *)
(* belongs to the agents listed before it, up to the nearest list; the     *)
(* rules that count are those of all groups with the crawler's own product *)
(* token or, if there is none, of "*" (2.2.1); and a page may be fetched   *)
(* unless a matching Disallow is longer than every matching Allow (2.2.2). *)
(***************************************************************************)
Agents(file) == {i \in DOMAIN file : file[i].key = "user-agent"}
RuleLines(file) == {j \in DOMAIN file : file[j].key \in {"allow", "disallow"}}

\* An agent line with no rule between an earlier one and it continues a list.
StartsGroup(file, k) ==
    /\ k \in Agents(file)
    /\ \A i \in Agents(file) : i < k => \E j \in (i + 1)..(k - 1) : j \in RuleLines(file)

Governs(file, i, j) ==
    /\ i \in Agents(file) /\ i < j
    /\ \A k \in (i + 1)..j : ~StartsGroup(file, k)

ForUs(file) ==
    LET own == {i \in Agents(file) : file[i].name = Token} IN
    IF own # {} THEN own ELSE {i \in Agents(file) : file[i].name = "*"}

Matching(file, key, p) ==
    {j \in DOMAIN file :
        /\ file[j].key = key
        /\ file[j].length > 0 /\ p \in file[j].matches
        /\ \E i \in ForUs(file) : Governs(file, i, j)}

RFCAllows(file, p) ==
    \A d \in Matching(file, "disallow", p) :
        \E a \in Matching(file, "allow", p) : file[a].length >= file[d].length

(***************************************************************************)
(* The code departs from it in two places: an agent line that names a part *)
(* of the token is taken for ours (robots.go:103), and any other record    *)
(* ends a list of agents (robots.go:93-96).  A file is plain if it has     *)
(* neither.                                                                *)
(***************************************************************************)
PlainFile(file) ==
    /\ \A i \in Agents(file) : file[i].name \notin Ours \ {Token}
    /\ \A i, k \in Agents(file) :
          (\A j \in (i + 1)..(k - 1) : j \notin RuleLines(file)) =>
              \A j \in (i + 1)..(k - 1) : file[j].key \in {"user-agent", "blank"}
=============================================================================
