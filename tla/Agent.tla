-------------------------------- MODULE Agent --------------------------------
(***************************************************************************)
(* The LangGraph graph that writes one project: its nodes, the conditional *)
(* edges between them, the queue of rewritings and the three points where  *)
(* it waits for the user.  A node and the edge that leaves it are one      *)
(* action, as a checkpoint is written between two nodes and never inside   *)
(* one.  What the model answers is a choice of its action.                 *)
(*                                                                         *)
(* A node that fails leaves the checkpoint where it was: the failures, the *)
(* restarts and the requests around the graph are those of RunControl.     *)
(***************************************************************************)
EXTENDS Naturals, FiniteSets

CONSTANTS
  PlanLength,     \* the sections are numbered in the order of the plan
  Facts,          \* the facts of the catalogue
  Name,           \* nom_projet, seeded from the row of the project
  Deductible,     \* the facts the extraction may propose
  Tables,         \* the computations of the catalogue
  Needs,          \* table -> the sets of facts any one of which gives its assumptions
  Optional,       \* table -> the facts that count for zero while never asked
  Required,       \* section -> faits_requis
  Calculs,        \* section -> the tables it declares
  Always,         \* the sections whose validation is "toujours"
  Closure,        \* section -> itself and the sections depending on it
  MaxRewrites,    \* bound: rewritings asked for by the user
  MaxReopenings   \* bound: reopenings of the finished project

MAX_QUESTION_ROUNDS == 2
MAX_REVISIONS == 2

Sections == 1..PlanLength

ASSUME AgentPlan ==
  /\ PlanLength \in Nat \ {0}
  /\ Always \subseteq Sections
  /\ Closure \in [Sections -> SUBSET Sections]
  /\ \A s \in Sections : s \in Closure[s]

ASSUME AgentCatalogue ==
  /\ Name \in Facts /\ Deductible \subseteq Facts
  /\ Needs \in [Tables -> SUBSET SUBSET Facts] /\ Optional \in [Tables -> SUBSET Facts]
  /\ Required \in [Sections -> SUBSET Facts]
  /\ Calculs \in [Sections -> SUBSET Tables]

ASSUME AgentBounds == MaxRewrites \in Nat /\ MaxReopenings \in Nat

VARIABLES
  node,             \* the next node to run
  facts,            \* fact -> absent | deduced | answered | unknown
  tables,           \* computations: the tables of the state
  cursor,
  problems,         \* none, or who filled the list
  revisions, question_rounds,
  score,            \* none | low (< 7) | fair (7) | high (8 and more)
  skip_current,
  inconsistencies,  \* of each one, the sections it names
  rework, reworking,
  rows,             \* sections.statut of the projection
  seen,             \* what examined the current draft (history)
  demand,           \* section -> what became of a demand of the user (history)
  asked,            \* replies to the questions of the section in hand (history)
  rewrites, reopenings

knowledge == <<facts, tables>>
counters  == <<revisions, question_rounds>>
draft     == <<problems, counters, score, skip_current>>
queue     == <<cursor, rework, reworking>>
outcome   == <<inconsistencies, rows>>
history   == <<seen, demand, asked>>
bounds    == <<rewrites, reopenings>>
vars      == <<node, knowledge, draft, queue, outcome, history, bounds>>

Nodes == {"START", "extract_facts", "analyse_gaps", "formulate_questions", "ask_questions",
          "compute", "write", "check_numbers", "critique", "review", "save",
          "coherence_check", "arbitrate", "next_rework", "END"}

TypeOK ==
  /\ node \in Nodes
  /\ facts \in [Facts -> {"absent", "deduced", "answered", "unknown"}]
  /\ tables \in SUBSET Tables
  /\ cursor \in 1..(PlanLength + 1)
  /\ problems \in {"none", "orphan", "critique", "demand"}
  /\ revisions \in 0..MAX_REVISIONS
  /\ question_rounds \in 0..MAX_QUESTION_ROUNDS
  /\ score \in {"none", "low", "fair", "high"}
  /\ skip_current \in BOOLEAN
  /\ inconsistencies \in SUBSET SUBSET Sections
  /\ rework \in SUBSET Sections
  /\ reworking \in BOOLEAN
  /\ rows \in [Sections -> {"none", "done", "skipped", "reopened"}]
  /\ seen \in SUBSET {"numbers", "critique", "user", "skip"}
  /\ demand \in [Sections -> {"none", "owed", "served", "dropped"}]
  /\ asked \in 0..MAX_QUESTION_ROUNDS
  /\ rewrites \in 0..MaxRewrites
  /\ reopenings \in 0..MaxReopenings

\* initial_state: the name is an answer, unless it is blank.
Init ==
  /\ node = "START"
  /\ \E name \in {"absent", "answered"} :
       facts = [f \in Facts |-> IF f = Name THEN name ELSE "absent"]
  /\ tables = {}
  /\ cursor = 1
  /\ problems = "none" /\ revisions = 0 /\ question_rounds = 0
  /\ score = "none" /\ skip_current = FALSE
  /\ inconsistencies = {}
  /\ rework = {} /\ reworking = FALSE
  /\ rows = [s \in Sections |-> "none"]
  /\ seen = {} /\ demand = [s \in Sections |-> "none"] /\ asked = 0
  /\ rewrites = 0 /\ reopenings = 0

(* ------------------------------- the facts ----------------------------- *)

\* "absent" in an update: it does not name the fact.
FromUser == {"answered", "unknown"}

merge_factsMutant(current, incoming) ==
  [f \in Facts |-> IF incoming[f] = "absent" THEN current[f] ELSE incoming[f]]

merge_facts(current, incoming) ==
  [f \in Facts |->
     IF incoming[f] = "absent" \/ (current[f] \in FromUser /\ incoming[f] \notin FromUser)
     THEN current[f]
     ELSE incoming[f]]

missing_required_facts == {f \in Required[cursor] : facts[f] = "absent"}

\* build_assumptions: a fact that is missing or has no value is not enough, nor is
\* an optional one that is unknown; the investments need one fact of two, and the
\* other builders all of theirs.
Sufficient(t) ==
  /\ \E enough \in Needs[t] : \A f \in enough : facts[f] \in {"deduced", "answered"}
  /\ \A f \in Optional[t] : facts[f] # "unknown"

(* ------------------------------- the edges ----------------------------- *)

route_after_gaps ==
  IF missing_required_facts # {} /\ question_rounds < MAX_QUESTION_ROUNDS
  THEN "formulate_questions"
  ELSE IF Calculs[cursor] # {} THEN "compute" ELSE "write"

route_after_numbersMutant(found) ==
  IF found # "none" /\ revisions <= MAX_REVISIONS THEN "write" ELSE "critique"

route_after_numbers(found) ==
  IF found # "none" /\ revisions < MAX_REVISIONS THEN "write" ELSE "critique"

route_after_critiqueMutant(note) ==
  IF note = "low" /\ revisions < MAX_REVISIONS THEN "write"
  ELSE IF cursor \in Always \/ note = "low" THEN "review" ELSE "save"

route_after_critique(note) ==
  IF note = "low" /\ revisions < MAX_REVISIONS THEN "write"
  ELSE IF cursor \in Always \/ note # "high" THEN "review" ELSE "save"

route_after_save(next) ==
  IF reworking THEN "next_rework"
  ELSE IF next <= PlanLength THEN "analyse_gaps" ELSE "coherence_check"

route_after_arbitrate(wanted) == IF wanted # {} THEN "next_rework" ELSE "END"

(* ------------------------------- the nodes ----------------------------- *)

RouteFromStart ==
  /\ node = "START"
  /\ node' = IF rework # {} THEN "next_rework" ELSE "extract_facts"
  /\ UNCHANGED <<knowledge, draft, queue, outcome, history, bounds>>

extract_facts ==
  /\ node = "extract_facts"
  /\ \E found \in SUBSET Deductible :
       facts' = merge_facts(facts, [f \in Facts |-> IF f \in found THEN "deduced" ELSE "absent"])
  /\ node' = "analyse_gaps"
  /\ UNCHANGED <<tables, draft, queue, outcome, history, bounds>>

analyse_gaps ==
  /\ node = "analyse_gaps"
  /\ node' = route_after_gaps
  /\ UNCHANGED <<knowledge, draft, queue, outcome, history, bounds>>

formulate_questions ==
  /\ node = "formulate_questions"
  /\ question_rounds' = question_rounds + 1
  /\ node' = "ask_questions"
  /\ UNCHANGED <<knowledge, problems, revisions, score, skip_current, queue, outcome,
                 history, bounds>>

\* The reply may name any fact of the catalogue, asked or not, or none.
ask_questions ==
  /\ node = "ask_questions"
  /\ \E answers \in [Facts -> FromUser \cup {"absent"}] : facts' = merge_facts(facts, answers)
  /\ asked' = asked + 1
  /\ node' = "analyse_gaps"
  /\ UNCHANGED <<tables, draft, queue, outcome, seen, demand, bounds>>

\* A value that is no number or out of bounds is skipped, as are insufficient
\* facts; in every case a table of an earlier computation stays.
compute ==
  /\ node = "compute"
  /\ \E computed \in SUBSET {t \in Calculs[cursor] : Sufficient(t)} :
       tables' = tables \cup computed
  /\ node' = "write"
  /\ UNCHANGED <<facts, draft, queue, outcome, history, bounds>>

\* The prompt carries the facts, the tables and `problems`, never the draft.
Draft ==
  /\ node = "write"
  /\ seen' = {}
  /\ demand' = [demand EXCEPT ![cursor] =
                  IF problems = "demand" THEN "served"
                  ELSE IF @ = "served" THEN "dropped" ELSE @]
  /\ node' = "check_numbers"
  /\ UNCHANGED <<knowledge, problems, question_rounds, score, skip_current, queue, outcome,
                 asked, bounds>>

writeMutant == Draft /\ UNCHANGED revisions

write == Draft /\ revisions' = revisions + 1

check_numbers ==
  /\ node = "check_numbers"
  /\ \E found \in {"none", "orphan"} :
       /\ problems' = found
       /\ node' = route_after_numbers(found)
  /\ seen' = seen \cup {"numbers"}
  /\ UNCHANGED <<knowledge, counters, score, skip_current, queue, outcome, demand, asked,
                 bounds>>

critique ==
  /\ node = "critique"
  /\ \E note \in {"low", "fair", "high"} :
       /\ score' = note
       /\ node' = route_after_critique(note)
  /\ problems' \in {"none", "critique"}
  /\ seen' = seen \cup {"critique"}
  /\ UNCHANGED <<knowledge, counters, skip_current, queue, outcome, demand, asked,
                 bounds>>

\* Anything but a rewriting or a skip is an acceptance.
Accept ==
  /\ node = "review"
  /\ problems' = "none"
  /\ seen' = seen \cup {"user"}
  /\ node' = "save"
  /\ UNCHANGED <<knowledge, counters, score, skip_current, queue, outcome, demand, asked,
                 bounds>>

Skip ==
  /\ node = "review"
  /\ problems' = "none"
  /\ skip_current' = TRUE
  /\ seen' = seen \cup {"user", "skip"}
  /\ node' = "save"
  /\ UNCHANGED <<knowledge, counters, score, queue, outcome, demand, asked,
                 bounds>>

AskRewriting(given) ==
  /\ node = "review" /\ rewrites < MaxRewrites
  /\ problems' = given
  /\ revisions' = 0
  /\ demand' = [demand EXCEPT ![cursor] = "owed"]
  /\ node' = IF given = "none" THEN "save" ELSE "write"
  /\ rewrites' = rewrites + 1
  /\ UNCHANGED <<knowledge, question_rounds, score, skip_current, queue, outcome, seen,
                 asked, reopenings>>

\* An empty list of reasons passed on as it is.
RewriteMutant == \E given \in {"none", "demand"} : AskRewriting(given)

\* Without a reason too, `problems` says that a rewriting was asked for.
Rewrite == AskRewriting("demand")

SaveAndAdvance ==
  /\ node = "save"
  /\ rows' = [rows EXCEPT ![cursor] = IF skip_current THEN "skipped" ELSE "done"]
  /\ demand' = [demand EXCEPT ![cursor] = "none"] /\ asked' = 0
  /\ cursor' = cursor + 1
  /\ rework' = IF reworking THEN rework \ {cursor} ELSE rework
  /\ problems' = "none" /\ revisions' = 0 /\ score' = "none"
  /\ node' = route_after_save(cursor + 1)
  /\ UNCHANGED <<knowledge, reworking, inconsistencies, seen, bounds>>

saveSkipMutant == SaveAndAdvance /\ question_rounds' = 0 /\ UNCHANGED skip_current

saveRoundsMutant == SaveAndAdvance /\ UNCHANGED question_rounds /\ skip_current' = FALSE

save == SaveAndAdvance /\ question_rounds' = 0 /\ skip_current' = FALSE

coherence_check ==
  /\ node = "coherence_check"
  /\ inconsistencies' \in SUBSET SUBSET Sections
  /\ node' = "arbitrate"
  /\ UNCHANGED <<knowledge, draft, queue, rows, history, bounds>>

\* Nothing found: the interruption is not raised and the queue is left alone.
NothingToArbitrate ==
  /\ node = "arbitrate" /\ inconsistencies = {}
  /\ node' = route_after_arbitrate(rework)
  /\ UNCHANGED <<knowledge, draft, queue, outcome, history, bounds>>

\* A ruling that is not a correction, or is not understood, queues nothing.
arbitrate ==
  /\ node = "arbitrate" /\ inconsistencies # {}
  /\ \E corrected \in SUBSET inconsistencies :
       /\ rework' = UNION corrected
       /\ node' = route_after_arbitrate(UNION corrected)
       /\ demand' = [s \in Sections |-> IF s \in UNION corrected THEN "owed" ELSE demand[s]]
  /\ UNCHANGED <<knowledge, draft, cursor, reworking, outcome, seen, asked, bounds>>

StartReworkOf(target) ==
  /\ node = "next_rework"
  /\ target \in rework
  /\ cursor' = target
  /\ reworking' = TRUE
  /\ problems' = "demand" /\ revisions' = 0 /\ question_rounds' = 0
  /\ score' = "none" /\ skip_current' = FALSE
  /\ asked' = 0
  /\ node' = "analyse_gaps"
  /\ UNCHANGED <<knowledge, rework, outcome, seen, demand, bounds>>

StartReworkMutant == \E target \in Sections : StartReworkOf(target)

\* The first of the queue in the order of the plan, with its note or with
\* REOPENED_WITHOUT_NOTE: in both cases the writer is told why.
StartRework ==
  \E target \in Sections : StartReworkOf(target) /\ \A s \in rework : target <= s

ReworkOver ==
  /\ node = "next_rework" /\ rework = {}
  /\ reworking' = FALSE
  /\ cursor' = PlanLength + 1
  /\ node' = "END"
  /\ UNCHANGED <<knowledge, draft, rework, outcome, history, bounds>>

\* POST /reopen on the finished thread: the rows marked, then a new input.
Reopen ==
  /\ node = "END" /\ reopenings < MaxReopenings
  /\ \E s \in Sections :
       /\ rework' = Closure[s]
       /\ rows' = [t \in Sections |-> IF t \in Closure[s] THEN "reopened" ELSE rows[t]]
       /\ demand' = [t \in Sections |-> IF t \in Closure[s] THEN "owed" ELSE demand[t]]
  /\ node' = "START"
  /\ reopenings' = reopenings + 1
  /\ UNCHANGED <<knowledge, draft, cursor, reworking, inconsistencies, seen, asked, rewrites>>

\* What the background task does by itself, the user having nothing to say.
Advance ==
  \/ RouteFromStart \/ extract_facts \/ analyse_gaps \/ formulate_questions
  \/ compute \/ write \/ check_numbers \/ critique \/ save
  \/ coherence_check \/ NothingToArbitrate \/ StartRework \/ ReworkOver

Reply == ask_questions \/ Accept \/ Skip \/ Rewrite \/ arbitrate

Next == Advance \/ Reply \/ Reopen

Spec == Init /\ [][Next]_vars

\* The task runs on: a node that is not an interruption is always reached and
\* run.  Nobody has to answer or to reopen.
FairSpec == Spec /\ WF_vars(Advance)

(* ------------------------------ properties ----------------------------- *)

Written == {"check_numbers", "critique", "review", "save"}

\* What is saved was judged: the version in hand went through the number
\* check and the critique after its last rewriting, and the user saw that
\* very version when the section always asks for it or its score is under
\* the threshold (route_after_numbers, route_after_critique, review).
SavedAsJudged ==
  node = "save" =>
    /\ {"numbers", "critique"} \subseteq seen
    /\ (cursor \in Always \/ score # "high") => "user" \in seen

\* A section is recorded `skipped`, which makes the documents drafts, if and
\* only if the user skipped the version being saved (review, save).
SkipIsTheUsers == node = "save" => (skip_current <=> "skip" \in seen)

\* A section with a required fact missing is written only after the user was
\* asked twice about it, for this writing (route_after_gaps, save).
AskedBeforeWritten ==
  node \in Written \cup {"compute", "write"} =>
    missing_required_facts = {} \/ asked = MAX_QUESTION_ROUNDS

\* A demand of the user - a rewriting, a ruling, a reopening - is put to the
\* writer at least once before the section is saved, and none is pending when
\* the run ends (review, arbitrate, next_rework, write).
NoDemandIsLost ==
  /\ node = "save" => demand[cursor] # "owed"
  /\ node = "END" => \A s \in Sections : demand[s] = "none"

\* What the user answered, "I do not know" included, stays an answer: no
\* deduction replaces it, at the start or after a reopening (merge_facts).
DeductionKeepsAnswers ==
  [][\A f \in Facts : facts[f] \in FromUser => facts'[f] \in FromUser]_vars

Waiting ==
  \/ node \in {"ask_questions", "review"}
  \/ node = "arbitrate" /\ inconsistencies # {}

\* The loops of rewritings and of questions are bounded: left to itself the
\* run always comes to the user or to its end (MAX_REVISIONS, MAX_QUESTION_ROUNDS).
ComesToRest == []<>(Waiting \/ node = "END")

ToSave == IF reworking \/ rework # {} THEN rework ELSE cursor..PlanLength

\* The run writes, arbitrates and rewrites as Writing promises.
WritingOf == INSTANCE Writing WITH
  Sections <- Sections,
  todo <- ToSave,
  arbitrated <- node = "END" \/ reworking \/ rework # {},
  finished <- node = "END",
  rows <- rows

WritingSpec == WritingOf!Spec

\* What the task that drives the thread sees of it: where it waits, where it
\* ends, and what is left to save.
ProgressOf == INSTANCE ThreadProgress WITH
  phase <- IF node = "END" THEN "finished" ELSE IF Waiting THEN "interrupted" ELSE "active",
  todo <- ToSave,
  arbitrated <- node = "END" \/ reworking \/ rework # {}

ProgressSpec == ProgressOf!Spec

(* ------------------- the inductive invariant of the proofs ------------- *)

Gathering == {"analyse_gaps", "formulate_questions", "ask_questions", "compute"}
Working   == Gathering \cup {"write"} \cup Written

\* The section in hand is the first of the queue, or the queue is empty.
CursorLeads ==
  /\ node \in Working => cursor \in Sections
  /\ node \in Working /\ reworking => cursor \in rework /\ \A s \in rework : cursor <= s
  /\ node \in Working \cup {"extract_facts", "coherence_check", "arbitrate"} /\ ~reworking =>
       rework = {}

StageOfRun ==
  /\ node \in {"START", "extract_facts", "coherence_check", "arbitrate", "END"} => ~reworking
  /\ node \in {"START", "extract_facts"} /\ rework = {} =>
       cursor = 1 /\ \A s \in Sections : demand[s] = "none"
  /\ node \in {"coherence_check", "arbitrate", "END"} => cursor = PlanLength + 1
  /\ node = "next_rework" => reworking \/ rework # {}
  /\ node = "END" => rework = {}

RoundsLeft ==
  /\ node \notin Written \cup {"write"} => revisions = 0
  /\ node = "write" => revisions < MAX_REVISIONS
  /\ node = "formulate_questions" => question_rounds < MAX_QUESTION_ROUNDS
  /\ question_rounds = IF node = "ask_questions" THEN asked + 1 ELSE asked

Judged ==
  /\ node \in {"critique", "review", "save"} => "numbers" \in seen
  /\ node \in {"review", "save"} => "critique" \in seen
  /\ node \in Written \ {"save"} => "skip" \notin seen
  /\ node # "save" => ~skip_current

DemandFollowed ==
  /\ \A s \in Sections : demand[s] # "none" => s \in rework \/ (node \in Working /\ s = cursor)
  /\ node \in Gathering \cup {"write"} =>
       (demand[cursor] = "owed" => problems = "demand")
  /\ node \in Written => demand[cursor] # "owed"

\* Where a run may be, and what it carries from one node to the next.
AgentInv ==
  /\ TypeOK /\ CursorLeads /\ StageOfRun /\ RoundsLeft /\ Judged /\ DemandFollowed
  /\ SavedAsJudged /\ SkipIsTheUsers /\ AskedBeforeWritten

\* "The user's return was collected then thrown away" (prompts.py:215) is told
\* as a fault of the past: a version saved without being shown again to the
\* user was written from what the user demanded.
DemandIsInTheText ==
  node = "save" /\ "user" \notin seen => demand[cursor] # "dropped"
=============================================================================
