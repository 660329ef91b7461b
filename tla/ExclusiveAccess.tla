--------------------------- MODULE ExclusiveAccess ---------------------------
(***************************************************************************)
(* What the singleton coordinator promises the worker threads: a test runs *)
(* either alongside other normal tests, or - a singleton - on its own.     *)
(* Nothing is said of counters, flags or waiting; SingletonCoordinator.tla *)
(* is the algorithm that keeps the promise.                                *)
(***************************************************************************)
CONSTANT Threads

VARIABLES shared,     \* the threads executing a normal test
          exclusive   \* the threads executing a singleton test

vars == <<shared, exclusive>>

Init == shared = {} /\ exclusive = {}

EnterShared(t) ==
  /\ exclusive = {}
  /\ t \notin shared
  /\ shared' = shared \cup {t}
  /\ UNCHANGED exclusive

EnterExclusive(t) ==
  /\ exclusive = {}
  /\ shared = {}
  /\ exclusive' = {t}
  /\ UNCHANGED shared

Leave(t) ==
  /\ t \in shared \cup exclusive
  /\ shared' = shared \ {t}
  /\ exclusive' = exclusive \ {t}

Next == \E t \in Threads : EnterShared(t) \/ EnterExclusive(t) \/ Leave(t)

Spec == Init /\ [][Next]_vars
==============================================================================
