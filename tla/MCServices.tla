------------------------------ MODULE MCServices ------------------------------
(* Five components that share no state, each with what surrounds it: a test *)
(* process, the throttles of a run, the settings, test discovery and the    *)
(* list of ordering aspects.  A behaviour is one of the component in focus; *)
(* the others rest.                                                         *)
EXTENDS TestProcess, Sequences

CONSTANTS
  Workers, NumberOfTests, MaxCancels,     \* of the throttles
  TestModules, Marked, PipeCapacity,      \* of discovery
  Values, Paths, MaxEdits,                \* of the settings
  Aspects, Seed                           \* of the list of aspects

VARIABLES
  focus,
  waiting, poolWorker, softStop, finalized, sampler, guard, breaches, triggered, wasLow,
  asks, hasty, cancels,
  prefs, mode, parallel, put, widgets, warning, activePut, tab, todo, restored,
  poolSize, numProcesses, prepared, edits,
  finder, collected, buffered, pipe, preparer, abort, tests,
  saved, seeded, rows, writing

FourAspects == <<"failed_first", "never_run_first", "longest_prior_first", "coverage_efficiency">>
FirstTwo    == SubSeq(FourAspects, 1, 2)

Throttles == INSTANCE Throttling
Discovery == INSTANCE TestDiscovery
Config    == INSTANCE Settings
Ordering  == INSTANCE OrderingAspects

ASSUME ServicesConstantsOK == Ordering!AspectsOK

ServicesInit ==
  /\ focus \in {"process", "throttles", "settings", "discovery", "ordering"}
  /\ Init /\ Throttles!Init /\ Config!Init /\ Discovery!Init /\ Ordering!Init

throttlesVars == <<waiting, poolWorker, softStop, finalized, sampler, guard,
                   breaches, triggered, wasLow, asks, hasty, cancels>>
settingsVars == <<prefs, mode, parallel, put, widgets, warning, activePut, tab, todo,
                  restored, poolSize, numProcesses, prepared, edits>>
discoveryVars == <<finder, collected, buffered, pipe, preparer, abort, tests>>
orderingVars == <<saved, seeded, rows, writing>>
allVars == <<focus, vars, throttlesVars, settingsVars, discoveryVars, orderingVars>>

ProcessStep ==
  /\ focus = "process" /\ Next
  /\ UNCHANGED <<focus, throttlesVars, settingsVars, discoveryVars, orderingVars>>

ThrottlesStep ==
  /\ focus = "throttles" /\ Throttles!Next
  /\ UNCHANGED <<focus, vars, settingsVars, discoveryVars, orderingVars>>

SettingsStep ==
  /\ focus = "settings" /\ Config!Next
  /\ UNCHANGED <<focus, vars, throttlesVars, discoveryVars, orderingVars>>

DiscoveryStep ==
  /\ focus = "discovery" /\ Discovery!Next
  /\ UNCHANGED <<focus, vars, throttlesVars, settingsVars, orderingVars>>

OrderingStep ==
  /\ focus = "ordering" /\ Ordering!Next
  /\ UNCHANGED <<focus, vars, throttlesVars, settingsVars, discoveryVars>>

ServicesNext ==
  \/ ProcessStep \/ ThrottlesStep \/ SettingsStep
  \/ DiscoveryStep \/ OrderingStep

(* The fairness of each component's own specification.                     *)
ServicesSpec ==
  /\ ServicesInit /\ [][ServicesNext]_allVars
  /\ WF_vars(focus = "process" /\ TestStep /\ test # "pytest")
  /\ WF_vars(focus = "process" /\ WorkerStep)
  /\ WF_settingsVars(focus = "settings" /\ Config!HandlerStep)
  /\ WF_settingsVars(focus = "settings" /\ Config!AdoptRun)
  /\ WF_settingsVars(focus = "settings" /\ Config!Reconcile)

(* The guard stops a run once and never on one low reading (Throttling).    *)
GuardStopsOnce == Throttles!GuardStopsOnce

(* A running pool comes to have the size the preferences call for           *)
(* (Settings).                                                              *)
PoolFollowsSettings == Config!PoolFollowsSettings

(* A run is prepared with every test module, unless collecting them took    *)
(* the discovery process down (TestDiscovery).                              *)
DiscoveryComplete == Discovery!DiscoveryComplete

(* What the configuration shows is what is stored: a resume that is forced, *)
(* the defaults that were restored (Settings), and the list the tests are   *)
(* ordered by (OrderingAspects).                                            *)
ShownIsStored ==
  Config!ForcedResumeShown /\ Config!DefaultsRestored /\ Ordering!SavedAsShown

(* Not true of the code, whose list lets a row be moved anywhere            *)
(* (OrderingAspects).                                                       *)
EnabledAboveDisabled == Ordering!EnabledAboveDisabled
=============================================================================
