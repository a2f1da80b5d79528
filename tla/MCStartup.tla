----------------------------- MODULE MCStartup -----------------------------
(* Instances of Startup for TLC: every other event names an approver. *)
EXTENDS Startup

MCWithApprover == {n \in 1..MaxEvents : n % 2 = 0}

MCDefaultLog == <<"/", "d", "/", "log">>
MCLogPaths == {<<>>, MCDefaultLog, <<"/", "link", "/", "log">>, <<"/", "x", "/", "log">>}
MCRootPaths == {<<"/">>, <<"/", "d">>, <<"/", "d", "/">>, <<"/", "link">>, <<"/", "e">>}
MCLinkedRoots == {<<"/", "d">>, <<"/", "link">>, <<"/", "e">>}
=============================================================================
