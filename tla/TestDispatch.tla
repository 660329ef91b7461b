---------------------------- MODULE TestDispatch ----------------------------
(***************************************************************************)
(* What a test run promises about executing tests: each scheduled test is  *)
(* executed at most once, and a singleton test is executed alone.  Workers,*)
(* queue, stops and the database do not appear; PytestRunner.tla is the    *)
(* program that keeps the promise.                                         *)
(***************************************************************************)
CONSTANTS Tests, Singletons

VARIABLES pending,   \* tests whose process has not been started
          running,   \* tests whose process is alive
          ended      \* tests whose process is gone

vars == <<pending, running, ended>>

Init == pending = Tests /\ running = {} /\ ended = {}

Start(t) ==
  /\ t \in pending
  /\ t \in Singletons => running = {}
  /\ running \cap Singletons = {}
  /\ pending' = pending \ {t}
  /\ running' = running \cup {t}
  /\ UNCHANGED ended

End(t) ==
  /\ t \in running
  /\ running' = running \ {t}
  /\ ended' = ended \cup {t}
  /\ UNCHANGED pending

Next == \E t \in Tests : Start(t) \/ End(t)

Spec == Init /\ [][Next]_vars
=============================================================================
