--------------------------- MODULE MCQueryPipeline ---------------------------
(* Instances of QueryPipeline for TLC. *)
EXTENDS QueryPipeline, MCAdaptiveAgents

CONSTANTS a, b, c

MCAccounts == {a, b, c}

\* Tables up to the accounts' names: nothing that matches, one row, an account
\* with a row before or between those of another (and one row more than is
\* loaded), and three accounts, one more than a response lists.
MCTables == {<<>>, <<a>>, <<b, a, a>>, <<a, b, a, b>>, <<a, b, c>>}
=============================================================================
