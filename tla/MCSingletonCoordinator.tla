----------------------- MODULE MCSingletonCoordinator -----------------------
(* Four threads: two singletons can wait behind two normal tests, or two    *)
(* normal tests behind a running and a waiting singleton.                   *)
EXTENDS SingletonCoordinator

CONSTANTS t1, t2, t3, t4

MCThreads == {t1, t2, t3, t4}
=============================================================================
