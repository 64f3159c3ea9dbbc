---------------------------- MODULE MCProxyPool ----------------------------
(***************************************************************************)
(* Instances of ProxyPool for TLC.                                         *)
(***************************************************************************)
EXTENDS ProxyPool

CONSTANTS u1, u2, direct

MCURLs == {u1, u2, direct}
\* Lists with a URL twice, reloaded with fewer URLs, more, or none at all.
MCFirstLists == {<<u1, u2>>, <<u1, u1>>}
MCReloadLists == {<<u2>>, <<u1, u2>>, <<>>}
=============================================================================
