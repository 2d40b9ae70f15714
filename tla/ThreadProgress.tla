--------------------------- MODULE ThreadProgress ----------------------------
(***************************************************************************)
(* What the task that drives a thread sees of the graph: it starts from an *)
(* input, saves sections of its queue, waits for an answer or ends.  The   *)
(* thread waits only while a section is left to save or the arbitration is *)
(* to come, the answer to the arbitration alone may queue sections again,  *)
(* and the end comes with an empty queue.                                  *)
(*                                                                         *)
(* Agent, node by node, is shown to implement this module, and so is       *)
(* RunControl, which keeps no more of the graph than what is here.         *)
(***************************************************************************)
EXTENDS Naturals

CONSTANT Sections

VARIABLES phase,       \* none | active | interrupted | finished
          todo,        \* the sections still to save
          arbitrated   \* no arbitration is to come

vars == <<phase, todo, arbitrated>>

Started == phase = "active" /\ todo = Sections /\ ~arbitrated

Init == (phase = "none" /\ todo = {} /\ ~arbitrated) \/ Started

\* The input of a creation, or of a resume that found no checkpoint.
Start == Started'

\* The input of a reopening.
Rework ==
  /\ phase' = "active"
  /\ todo' \in (SUBSET Sections) \ {{}}
  /\ arbitrated'

Interrupt ==
  /\ phase = "active"
  /\ todo # {} \/ ~arbitrated
  /\ phase' = "interrupted"
  /\ UNCHANGED <<todo, arbitrated>>

\* Once the queue is empty the question is the arbitration.
Resume ==
  /\ phase = "interrupted"
  /\ todo' \in IF todo = {} THEN SUBSET Sections ELSE {todo}
  /\ arbitrated' = (arbitrated \/ todo = {})
  /\ phase' = "active" \/ (phase' = "finished" /\ todo' = {})

Save ==
  /\ phase = "active"
  /\ \E s \in todo : todo' = todo \ {s}
  /\ UNCHANGED <<phase, arbitrated>>

Finish ==
  /\ phase = "active" /\ todo = {}
  /\ phase' = "finished"
  /\ arbitrated'
  /\ UNCHANGED todo

Next == Start \/ Rework \/ Interrupt \/ Resume \/ Save \/ Finish

Spec == Init /\ [][Next]_vars
=============================================================================
