--------------------------- MODULE MCAgentRules -----------------------------
(***************************************************************************)
(* AgentLive has one request at a time (one that was given up holds up the *)
(* next) and three uploads: both lists as the machine starts, and one of   *)
(* them again, as the policy changes or the post is repeated.  AgentFaults *)
(* has two requests at a time, so that one that was given up is still at   *)
(* work when it is repeated, and two uploads.  Two copy threads: two       *)
(* uploads may both wait for a long pass of the rule thread.               *)
(***************************************************************************)
EXTENDS AgentRules, TLC

CONSTANTS none, s1, v1, h1, h2, c1, c2

MCNone == none
MCNothing == {}
MCScripts == {s1}
MCRules == {v1}
MCHandler == {h1}
MCTwoHandlers == {h1, h2}
MCCopiers == {c1, c2}
MCTimeout == {"timeout"}
MCFaults == {"timeout", "unreached", "exit", "late", "long"}

\* The copy threads are alike, and so are the threads of the HTTP server.
MCSymmetry == Permutations(MCCopiers) \cup Permutations(MCTwoHandlers)
=============================================================================
