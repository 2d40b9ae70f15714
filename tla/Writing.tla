------------------------------- MODULE Writing -------------------------------
(***************************************************************************)
(* What the writing of a project promises, whatever the model answers and  *)
(* the user asks for: the sections are saved one at a time in the order of *)
(* the plan, the coherence of the whole is arbitrated once, when the plan  *)
(* is written, and the writing ends when nothing is left to write.  A      *)
(* reopening queues sections again, and is not followed by an arbitration. *)
(*                                                                         *)
(* Agent is shown to implement this module.                                *)
(***************************************************************************)
EXTENDS Naturals

CONSTANT Sections    \* numbered in the order of the plan

VARIABLES todo,        \* the sections still to write
          arbitrated,  \* the inconsistencies were ruled upon
          finished,
          rows         \* the statut of each section in the projection

vars == <<todo, arbitrated, finished, rows>>

Init ==
  /\ todo = Sections
  /\ ~arbitrated /\ ~finished
  /\ rows = [s \in Sections |-> "none"]

Save(s) ==
  /\ ~finished
  /\ s \in todo /\ \A t \in todo : s <= t
  /\ todo' = todo \ {s}
  /\ \E statut \in {"done", "skipped"} : rows' = [rows EXCEPT ![s] = statut]
  /\ UNCHANGED <<arbitrated, finished>>

Arbitrate ==
  /\ ~finished /\ ~arbitrated
  /\ todo = {}
  /\ arbitrated'
  /\ todo' \in SUBSET Sections
  /\ finished' = (todo' = {})
  /\ UNCHANGED rows

Finish ==
  /\ ~finished /\ arbitrated
  /\ todo = {}
  /\ finished'
  /\ UNCHANGED <<todo, arbitrated, rows>>

Reopen(wanted) ==
  /\ finished
  /\ wanted # {}
  /\ ~finished'
  /\ todo' = wanted
  /\ rows' = [s \in Sections |-> IF s \in wanted THEN "reopened" ELSE rows[s]]
  /\ UNCHANGED arbitrated

Next ==
  \/ \E s \in Sections : Save(s)
  \/ Arbitrate
  \/ Finish
  \/ \E wanted \in SUBSET Sections : Reopen(wanted)

Spec == Init /\ [][Next]_vars
=============================================================================
