--------------------------- MODULE MCStallWatchdog ---------------------------
(* Two tests, so that one can be busy while the other is idle; a kill       *)
(* window of three and a warn window of two units, and waits of one or two  *)
(* units, so that a late tick can overrun the whole warn window.            *)
EXTENDS StallWatchdog

CONSTANTS a, b

MCTests == {a, b}
=============================================================================
