----------------------------- MODULE MCPublisher -----------------------------
(* Model-checking instance of Publisher: two connections, a literal and a   *)
(* glob pattern, two topics.                                                *)
EXTENDS Publisher

\* The patterns of the model: the literal "l1.BTC" and the glob "trade.*",
\* matched as PubServer::matches_topic does (equality for a literal, an
\* anchored regex match for a glob).
MCTopics == {"l1.BTC", "trade.BTC"}
MCPatterns == {"l1.BTC", "trade.*"}
MCGlobHits == {<<"trade.BTC", "trade.*">>}
MCMatches(t, p) == t = p \/ <<t, p>> \in MCGlobHits

=============================================================================
