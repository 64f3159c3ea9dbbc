----------------------------- MODULE MCCrawler -----------------------------
(***************************************************************************)
(* Instances of Crawler for TLC, and of Robots on all short files.         *)
(***************************************************************************)
EXTENDS Crawler

CONSTANTS s1, s2, a, b, c

\* A file whose rules for every agent are not for us; ours come in two
\* groups, with an Allow that wins a tie and a group shared with others.
TwoGroups ==
    <<AgentLine("*"), RuleLine("disallow", 1, Pages),
      AgentLine("us"), RuleLine("allow", 3, {a}), RuleLine("allow", 2, {c}), DelayLine(1),
      OtherLine("sitemap"), AgentLine("other"), OtherLine("blank"), AgentLine("us"),
      RuleLine("disallow", 3, {a, c}), RuleLine("disallow", 0, {})>>

\* A file with no group for us, whose longer Allow wins.
EveryAgent ==
    <<RuleLine("disallow", 1, Pages), AgentLine("other"), RuleLine("disallow", 1, Pages),
      AgentLine("*"), RuleLine("allow", 4, {b}), RuleLine("disallow", 2, {b, c}),
      DelayLine(0)>>

\* On every short plain file, what Parse and Allowed make of it is what RFC
\* 9309 says of it.
SomeLines == {AgentLine("us"), AgentLine("u"), AgentLine("*"), AgentLine("other"),
              RuleLine("disallow", 2, {a, b, c}), RuleLine("disallow", 0, {}),
              RuleLine("allow", 2, {a}), RuleLine("allow", 1, {b}), OtherLine("sitemap"),
              OtherLine("blank")}

ASSUME ParsedAsRFC9309 ==
    \A f \in UNION {[1..n -> SomeLines] : n \in 0..4}, p \in {a, b} :
        PlainFile(f) => (Allowed(Parse(f), p) <=> RFCAllows(f, p))

\* On others it is not: a page is fetched that RFC 9309 forbids if a Sitemap
\* splits a list of agents (robots.go:93-96), or if a part of the token has
\* a group of its own (robots.go:103).
SplitList == <<AgentLine("us"), OtherLine("sitemap"), AgentLine("other"),
               RuleLine("disallow", 1, Pages)>>
PartOfToken == <<AgentLine("*"), RuleLine("disallow", 1, Pages), AgentLine("u"),
                 RuleLine("disallow", 0, {})>>

ASSUME DepartsFromRFC9309 ==
    \A f \in {SplitList, PartOfToken} :
        ~PlainFile(f) /\ Allowed(Parse(f), a) /\ ~RFCAllows(f, a)

BothFiles == {TwoGroups, EveryAgent}
NoFile == {<<>>}
DelayFile == {<<AgentLine("*"), DelayLine(MaxDelay)>>}

OneStart == <<s1>>
TwoStarts == <<s1, s2, s1>>

\* The request for a ends on c, which both files forbid.
AMoved == {[p \in Pages |-> IF p = a THEN c ELSE p]}
NoMoves == {[p \in Pages |-> p]}

\* Cycles, a link given twice, a page linked from two pages; the first site
\* has more pages than the budget, the second fewer.
SmallSites ==
    {[p \in Pages |-> CASE p = s1 -> <<a, a, b, c>>
                        [] p = c -> <<s1, b, s2>>
                        [] OTHER -> <<>>],
     [p \in Pages |-> CASE p = s1 -> <<a>>
                        [] p = c -> <<b, s1>>
                        [] OTHER -> <<a>>]}

\* b is two links away from s1 and one link away from s2.
TwoPathSites ==
    {[p \in Pages |-> CASE p = s1 -> <<a>>
                        [] p = s2 -> <<b>>
                        [] p = a -> <<b>>
                        [] p = b -> <<c>>
                        [] OTHER -> <<>>]}
=============================================================================
