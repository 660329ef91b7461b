------------------------------- MODULE Settings -------------------------------
(* The preferences and the widgets that edit them.  A handler is a series   *)
(* of writes to the store, each saved at once, and of changes to widgets,   *)
(* whose slots run within it; the application may end between any two, and  *)
(* a new window is built from what was saved.  A running pool follows the   *)
(* preferences it depends on.                                               *)
EXTENDS Integers, Sequences

CONSTANTS
  Values,      \* the numbers a user may type
  Paths,       \* directories besides the one the application was launched from
  MaxEdits     \* bound: what the user does

VARIABLES
  prefs,         \* the preferences that one widget edits
  mode,          \* run_mode
  parallel,      \* parallelism
  put,           \* put_path
  widgets,       \* what the widgets show
  warning,       \* is the label below the stall windows visible?
  activePut,     \* _active_put_path, which its field shows
  tab,           \* the tab in front; "none" without a window
  todo,          \* what the handler that runs has left to do
  restored,      \* history: the last handler was Restore Defaults
  poolSize,      \* the runner's number_of_processes; 0 without a run
  numProcesses,  \* ControlWindow.num_processes
  prepared,      \* what a run in preparation was configured with; 0 without one
  edits          \* what the user has done

vars == <<prefs, mode, parallel, put, widgets, warning, activePut, tab, todo, restored,
          poolSize, numProcesses, prepared, edits>>
storeVars  == <<prefs, mode, parallel, put>>
widgetVars == <<widgets, warning, activePut, tab>>
runVars    == <<poolSize, numProcesses, prepared>>

-----------------------------------------------------------------------------
NotANumber == -1
Workspace  == "workspace"     \* the launch directory
Units      == {1, 60}         \* Seconds and Minutes

(* skip is resume_skip_put_check; flag stands for the eight other boxes, as *)
(* processes does for the numeric fields.                                   *)
Names == {"skip", "flag", "processes", "warn_value", "warn_unit", "kill_value", "kill_unit"}
Boxes == {"skip", "flag"}
Texts == {"processes", "warn_value", "kill_value"}
Combos == {"warn_unit", "kill_unit"}

Default == [name \in Names |->
  CASE name \in Boxes -> FALSE [] name = "warn_value" -> 1 [] name \in {"processes", "kill_value"} -> 3
    [] name \in Combos -> 60]

ResolvedPath(path) == IF path = "" THEN Workspace ELSE path   \* get_active_put_path

DesiredProcesses == IF parallel THEN prefs["processes"] ELSE 1

(* duration_to_seconds; the label is about these.                           *)
KillNotAfterWarn ==
  prefs["kill_value"] * prefs["kill_unit"] <= prefs["warn_value"] * prefs["warn_unit"]

(* The steps of a handler: what is done, and to what.                       *)
Saving(name)  == <<"store", name>>
Setting(name) == <<"default", name>>
Showing(name) == <<"show", name>>
Coupling      == <<"couple", "mode">>
Checking      == <<"check", "mode">>
Validating    == <<"validate", "windows">>

(* The slots of the widgets, as what they do one after the other.           *)
Slot(name) ==
  CASE name = "skip" -> <<Saving("skip"), Coupling>>
    [] name \in {"warn_value", "warn_unit"} -> <<Saving("warn_value"), Saving("warn_unit"), Validating>>
    [] name \in {"kill_value", "kill_unit"} -> <<Saving("kill_value"), Saving("kill_unit"), Validating>>
    [] name \in {"flag", "processes"} -> <<Saving(name)>>

(* _apply_defaults: each preference, and then its widget.                   *)
RestoreOps ==
  <<Setting("skip"), Showing("skip"), Setting("flag"), Showing("flag"), Checking,
    Setting("processes"), Showing("processes"),
    Setting("warn_value"), Setting("warn_unit"), Showing("warn_value"), Showing("warn_unit"),
    Setting("kill_value"), Setting("kill_unit"), Showing("kill_value"), Showing("kill_unit"),
    Setting("put"), Showing("put"), Validating>>

(* A slip: the unit selectors are left to their preferences.                *)
RestoreWithoutUnits ==
  SelectSeq(RestoreOps, LAMBDA op : op \notin {Showing("warn_unit"), Showing("kill_unit")})

RestoreDefaultsOps == RestoreOps

Idle == tab # "none" /\ todo = <<>>   \* the GUI thread may take an event

Init ==
  /\ prefs = Default /\ mode = "CHECK" /\ parallel = FALSE /\ put = ""
  /\ widgets = Default /\ warning = FALSE /\ activePut = Workspace /\ tab = "none"
  /\ todo = <<>> /\ restored = FALSE
  /\ poolSize = 0 /\ numProcesses = 1 /\ prepared = 0 /\ edits = 0

-----------------------------------------------------------------------------
(* Start and end.                                                           *)

(* A slip: preferences from before the box existed are left alone.          *)
SkipAsSaved == prefs["skip"]

(* Configuration.__init__: forced resume is shown as such.                  *)
SkipAtLaunch == prefs["skip"] \/ mode = "RESUME"

(* The window is built from the preferences.                                *)
Launch ==
  /\ tab = "none" /\ tab' = "run"
  /\ prefs' = [prefs EXCEPT !["skip"] = SkipAtLaunch]
  /\ widgets' = prefs' /\ warning' = FALSE
  /\ activePut' = ResolvedPath(put)
  /\ UNCHANGED <<mode, parallel, put, todo, restored, runVars, edits>>

(* The application is closed, or ends in the middle of a handler.           *)
End ==
  /\ tab # "none" /\ tab' = "none" /\ todo' = <<>> /\ restored' = FALSE
  /\ poolSize' = 0 /\ numProcesses' = 1 /\ prepared' = 0
  /\ UNCHANGED <<storeVars, widgets, warning, activePut, edits>>

-----------------------------------------------------------------------------
(* What the user does.                                                      *)

UserActs == Idle /\ edits < MaxEdits /\ edits' = edits + 1

(* A box is clicked, a text is typed or a unit is chosen.                   *)
EditWidget(name, value) ==
  /\ UserActs /\ tab = "configuration" /\ value # widgets[name]
  /\ widgets' = [widgets EXCEPT ![name] = value]
  /\ todo' = Slot(name) /\ restored' = FALSE
  /\ UNCHANGED <<storeVars, warning, activePut, tab, runVars>>

ClickRestoreDefaults ==
  /\ UserActs /\ tab = "configuration" /\ todo' = RestoreDefaultsOps /\ restored' = TRUE
  /\ UNCHANGED <<storeVars, widgetVars, runVars>>

(* RunModeControlBox.update_preferences.                                    *)
ChooseRunMode(resume) ==
  /\ UserActs /\ tab = "run"
  /\ mode' = IF ~ resume THEN "RESTART" ELSE IF prefs["skip"] THEN "RESUME" ELSE "CHECK"
  /\ UNCHANGED <<prefs, parallel, put, widgetVars, todo, restored, runVars>>

(* ParallelismControlBox.update_preferences.                                *)
ChooseParallelism ==
  /\ UserActs /\ tab = "run" /\ parallel' = ~ parallel
  /\ UNCHANGED <<prefs, mode, put, widgetVars, todo, restored, runVars>>

(* showEvent: the path may have been changed by the dialog meanwhile.       *)
PutWhenShown == ResolvedPath(put)

ShowTab(t) ==
  /\ Idle /\ t # tab /\ tab' = t
  /\ activePut' = IF t = "configuration" THEN PutWhenShown ELSE activePut
  /\ UNCHANGED <<storeVars, widgets, warning, todo, restored, runVars, edits>>

(* _commit_target_project_path, at the end of editing: nothing is written   *)
(* when the field shows what it showed before.                              *)
CommitPut(text) ==
  /\ UserActs /\ tab = "configuration"
  /\ put' = IF text # "" /\ text = activePut THEN put ELSE text
  /\ activePut' = ResolvedPath(text) /\ restored' = FALSE
  /\ UNCHANGED <<prefs, mode, parallel, widgets, warning, tab, todo, runVars>>

(* TargetProjectPathDialog, accepted; cancelled, it aborts the run.         *)
DialogChoosesPut == \E path \in Paths \ {put} : put' = path /\ restored' = FALSE

(* The Run button; a path that is no directory any more is asked for first. *)
PressRun ==
  /\ UserActs /\ tab = "run" /\ prepared = 0 /\ poolSize = 0
  /\ \E missing \in BOOLEAN :
       \/ ~ missing /\ UNCHANGED <<put, restored>>
       \/ missing /\ DialogChoosesPut
  /\ prepared' = DesiredProcesses
  /\ UNCHANGED <<prefs, mode, parallel, widgetVars, todo, poolSize, numProcesses>>

-----------------------------------------------------------------------------
(* A handler goes on.                                                       *)

Does(op) == todo # <<>> /\ Head(todo) = op
Done == todo' = Tail(todo)

(* What a widget's slot saves: a text that is no number is not, a number of *)
(* processes is at least one.                                               *)
Stored(name) ==
  IF name \in Texts /\ widgets[name] = NotANumber THEN prefs[name]
  ELSE IF name = "processes" /\ widgets[name] < 1 THEN 1 ELSE widgets[name]

(* The slots of the stall windows return when the value is no number.       *)
SlotReturns(name) == name \in {"warn_value", "kill_value"} /\ widgets[name] = NotANumber

StoreWidget(name) ==
  /\ Does(Saving(name))
  /\ prefs' = [prefs EXCEPT ![name] = Stored(name)]
  /\ todo' = IF SlotReturns(name) THEN SubSeq(todo, 4, Len(todo)) ELSE Tail(todo)
  /\ UNCHANGED <<mode, parallel, put, widgetVars, restored, runVars, edits>>

(* update_resume_skip_put_check: run_mode is kept consistent.               *)
CoupleMode ==
  /\ Does(Coupling) /\ Done
  /\ mode' = IF mode = "RESTART" THEN mode ELSE IF widgets["skip"] THEN "RESUME" ELSE "CHECK"
  /\ UNCHANGED <<prefs, parallel, put, widgetVars, restored, runVars, edits>>

SetDefault(name) ==
  /\ Does(Setting(name)) /\ Done
  /\ prefs' = [prefs EXCEPT ![name] = Default[name]]
  /\ UNCHANGED <<mode, parallel, put, widgetVars, restored, runVars, edits>>

(* A widget is set: if that changes it, its slot runs at once.              *)
ShowDefault(name) ==
  /\ Does(Showing(name))
  /\ widgets' = [widgets EXCEPT ![name] = Default[name]]
  /\ todo' = IF widgets[name] = Default[name] THEN Tail(todo) ELSE Slot(name) \o Tail(todo)
  /\ UNCHANGED <<storeVars, warning, activePut, tab, restored, runVars, edits>>

CheckMode ==
  /\ Does(Checking) /\ Done
  /\ mode' = IF mode = "RESTART" THEN mode ELSE "CHECK"
  /\ UNCHANGED <<prefs, parallel, put, widgetVars, restored, runVars, edits>>

DefaultPut ==
  /\ Does(Setting("put")) /\ Done /\ put' = ""
  /\ UNCHANGED <<prefs, mode, parallel, widgetVars, restored, runVars, edits>>

ShowPut ==
  /\ Does(Showing("put")) /\ Done /\ activePut' = ResolvedPath(put)
  /\ UNCHANGED <<storeVars, widgets, warning, tab, restored, runVars, edits>>

Validate ==
  /\ Does(Validating) /\ Done /\ warning' = KillNotAfterWarn
  /\ UNCHANGED <<storeVars, widgets, activePut, tab, restored, runVars, edits>>

-----------------------------------------------------------------------------
(* The run.                                                                 *)

(* A slip: the newest preference is taken for what the runner was given.    *)
AdoptedLive == DesiredProcesses

(* The result of the preparation carries what it was configured with.       *)
AdoptedCount == prepared

AdoptRun ==
  /\ Idle /\ prepared # 0 /\ prepared' = 0
  /\ poolSize' = prepared /\ numProcesses' = AdoptedCount
  /\ UNCHANGED <<storeVars, widgetVars, todo, restored, edits>>

EndRun ==
  /\ poolSize # 0 /\ poolSize' = 0
  /\ UNCHANGED <<storeVars, widgetVars, todo, restored, numProcesses, prepared, edits>>

(* reconcile_process_count, every tick.                                     *)
Reconcile ==
  /\ Idle /\ poolSize # 0 /\ DesiredProcesses # numProcesses
  /\ numProcesses' = DesiredProcesses /\ poolSize' = DesiredProcesses
  /\ UNCHANGED <<storeVars, widgetVars, todo, restored, prepared, edits>>

HandlerStep ==
  \/ \E name \in Names : StoreWidget(name) \/ SetDefault(name) \/ ShowDefault(name)
  \/ CoupleMode \/ CheckMode \/ DefaultPut \/ ShowPut \/ Validate

Next ==
  \/ Launch \/ End
  \/ \E name \in Boxes : EditWidget(name, ~ widgets[name])
  \/ \E name \in Texts, value \in Values \cup {NotANumber} : EditWidget(name, value)
  \/ \E name \in Combos, unit \in Units : EditWidget(name, unit)
  \/ ClickRestoreDefaults \/ ChooseParallelism \/ PressRun
  \/ \E resume \in BOOLEAN : ChooseRunMode(resume)
  \/ \E t \in {"run", "configuration"} : ShowTab(t)
  \/ \E text \in Paths \cup {"", Workspace} : CommitPut(text)
  \/ HandlerStep
  \/ AdoptRun \/ EndRun \/ Reconcile

(* Handlers go on, and the refresh timer fires again and again.             *)
Spec == Init /\ [][Next]_vars /\ WF_vars(HandlerStep) /\ WF_vars(AdoptRun) /\ WF_vars(Reconcile)

-----------------------------------------------------------------------------
(* A window never hides that a resume is forced: whenever the application   *)
(* ended, while the mode is to resume whatever has changed its box is       *)
(* checked.                                                                 *)
ForcedResumeShown == Idle /\ mode = "RESUME" => widgets["skip"]

(* Restore Defaults leaves every preference and every widget at its         *)
(* default, whatever the slots of the widgets it sets write meanwhile and   *)
(* however a widget and its preference had drifted apart.                   *)
DefaultsRestored ==
  Idle /\ restored => prefs = Default /\ widgets = Default /\ put = "" /\ activePut = Workspace

(* The size of a running pool comes to be what the preferences call for,    *)
(* whenever they were changed: before, while or after it was prepared.      *)
PoolFollowsSettings ==
  poolSize # 0 ~> poolSize = 0 \/ ~ Idle \/ poolSize = DesiredProcesses

(* configuration.py: "the kill window must exceed the warn window,          *)
(* otherwise automatic escalation is silently disabled - say so where the   *)
(* user can see it."                                                        *)
BadWindowsShown == Idle /\ KillNotAfterWarn => warning
=============================================================================
