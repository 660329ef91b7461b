--------------------------- MODULE MCPytestRunner ---------------------------
(* Two normal tests and a singleton, in the orders that matter: the         *)
(* singleton last, as the ordering puts it, or between the normal tests, so *)
(* that a normal test queues up behind a waiting singleton.                 *)
EXTENDS PytestRunner

CONSTANTS n1, n2, s1

SingletonLast       == <<n1, n2, s1>>
SingletonBetween    == <<n1, s1, n2>>
NormalThenSingleton == <<n1, s1>>
=============================================================================
