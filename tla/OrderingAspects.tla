--------------------------- MODULE OrderingAspects ---------------------------
(* The list of ordering aspects: rows that are checked, unchecked and moved *)
(* in the Configuration tab, and the enabled ones, in order, as they are    *)
(* saved and as the next run orders its tests by.                           *)
EXTENDS Integers, FiniteSets, SequencesExt

CONSTANTS
  Aspects,       \* OrderingAspect, a sequence in the order of the enumeration
  Seed           \* _default_ordering_aspect_seed

(* The seed is made of aspects.                                             *)
AspectsOK == Aspects \in Seq(ToSet(Aspects)) /\ Seed \in Seq(ToSet(Aspects))

VARIABLES
  saved,     \* the enabled aspects, in the database
  seeded,    \* ordering_aspects_seeded
  rows,      \* the list: [aspect, checked]; empty without a window
  writing    \* what set_ordering_aspects_ordered has still to write; <<>> nothing

vars == <<saved, seeded, rows, writing>>

-----------------------------------------------------------------------------
Row(aspect, checked) == [aspect |-> aspect, checked |-> checked]

(* The positions in a set, from the first.                                  *)
Ascending(S) ==
  [k \in 1..Cardinality(S) |-> CHOOSE i \in S : Cardinality({j \in S : j < i}) = k - 1]

(* _populate_from_prefs: the enabled ones first.                            *)
RowsFor(enabled) ==
  [i \in DOMAIN enabled |-> Row(enabled[i], TRUE)]
  \o LET others == Ascending({k \in DOMAIN Aspects : Aspects[k] \notin ToSet(enabled)})
     IN  [i \in DOMAIN others |-> Row(Aspects[others[i]], FALSE)]

(* _persist: the checked rows from the top.                                 *)
EnabledOf(list) ==
  LET checked == Ascending({i \in DOMAIN list : list[i].checked})
  IN  [i \in DOMAIN checked |-> list[checked[i]].aspect]

Moved(list, from, to) == InsertAt(RemoveAt(list, from), to, list[from])

Idle == rows # <<>> /\ writing = <<>>

Init == saved = <<>> /\ seeded = FALSE /\ rows = <<>> /\ writing = <<>>

-----------------------------------------------------------------------------
(* The window is built; get_ordering_aspects_ordered seeds the list, once.  *)
Open ==
  /\ rows = <<>> /\ writing = <<>>
  /\ saved' = IF seeded THEN saved ELSE Seed
  /\ seeded' = TRUE /\ rows' = RowsFor(saved')
  /\ UNCHANGED writing

(* The application ends, perhaps before the list was written.               *)
Close ==
  /\ rows # <<>> /\ rows' = <<>> /\ writing' = <<>>
  /\ UNCHANGED <<saved, seeded>>

(* A slip: the list is taken before the row has moved.                      *)
PersistBefore(list) == <<EnabledOf(rows)>>

Persist(list) == <<EnabledOf(list)>>

(* _on_item_changed: a row that is unchecked goes to the end, one that is   *)
(* checked to the end of the enabled ones: above the first unchecked row.   *)
Toggle(i) ==
  LET list == [rows EXCEPT ![i].checked = ~ @]
      above == {j \in 1 .. i - 1 : ~ rows[j].checked}
      target == IF ~ list[i].checked THEN Len(rows)
                ELSE CHOOSE j \in above \cup {i} : \A k \in above : j <= k
  IN  /\ Idle
      /\ rows' = Moved(list, i, target) /\ writing' = Persist(rows')
      /\ UNCHANGED <<saved, seeded>>

(* Up and Down move the selected row, whatever is above or below it.        *)
Move(i, j) ==
  /\ Idle /\ j \in {i - 1, i + 1} \cap DOMAIN rows
  /\ rows' = Moved(rows, i, j) /\ writing' = Persist(rows')
  /\ UNCHANGED <<saved, seeded>>

(* set_ordering_aspects_ordered.                                            *)
Write ==
  /\ writing # <<>> /\ saved' = writing[1] /\ writing' = <<>> /\ UNCHANGED <<seeded, rows>>

(* reset_to_defaults writes before it shows: the list is rebuilt from what  *)
(* was saved.                                                               *)
ResetToDefaults ==
  /\ Idle /\ saved' = Seed /\ seeded' = TRUE /\ rows' = RowsFor(Seed)
  /\ UNCHANGED writing

Next ==
  \/ Open \/ Close \/ Write \/ ResetToDefaults
  \/ \E i \in DOMAIN rows : Toggle(i)
  \/ \E i, j \in DOMAIN rows : Move(i, j)

Spec == Init /\ [][Next]_vars

-----------------------------------------------------------------------------
(* What is shown is what orders the tests: whatever rows were toggled and   *)
(* moved, before and after a restart, the saved list is the checked rows    *)
(* from the top.                                                            *)
SavedAsShown == Idle => saved = EnabledOf(rows)

(* ordering_aspects_widget.py, the tooltip: "Enabled rows appear above      *)
(* disabled ones."                                                          *)
EnabledAboveDisabled == \A i, j \in DOMAIN rows : rows[j].checked /\ i < j => rows[i].checked
=============================================================================
