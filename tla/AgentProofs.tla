----------------------------- MODULE AgentProofs -----------------------------
(***************************************************************************)
(* What Agent promises for any plan, catalogue, answers of the model and   *)
(* replies of the user.                                                    *)
(***************************************************************************)
EXTENDS Agent, TLAPS, FiniteSetTheorems

\* Any node, any reply and a reopening keep the types, given that a section is
\* in hand when one is worked on and that the loops have a round left.
LEMMA NextType ==
  ASSUME TypeOK, [Next]_vars, CursorLeads, RoundsLeft
  PROVE  TypeOK'
<1> USE AgentPlan, AgentCatalogue, AgentBounds DEF TypeOK, CursorLeads,
         Sections, MAX_REVISIONS, MAX_QUESTION_ROUNDS, Nodes, Working, Gathering, Written,
         knowledge, counters, draft, queue, outcome, history, bounds,
         RoundsLeft
<1>1. CASE RouteFromStart
  BY <1>1 DEF RouteFromStart
<1>2. CASE extract_facts
  BY <1>2 DEF extract_facts, merge_facts, FromUser
<1>3. CASE analyse_gaps
  BY <1>3 DEF analyse_gaps, route_after_gaps, missing_required_facts
<1>4. CASE formulate_questions
  BY <1>4 DEF formulate_questions
<1>5. CASE ask_questions
  BY <1>5 DEF ask_questions, merge_facts, FromUser
<1>6. CASE compute
  BY <1>6 DEF compute
<1>7. CASE write
  BY <1>7 DEF write, Draft
<1>8. CASE check_numbers
  BY <1>8 DEF check_numbers, route_after_numbers
<1>9. CASE critique
  BY <1>9 DEF critique, route_after_critique
<1>10. CASE Accept
  BY <1>10 DEF Accept
<1>11. CASE Skip
  BY <1>11 DEF Skip
<1>12. CASE Rewrite
  BY <1>12 DEF Rewrite, AskRewriting
<1>13. CASE save
  <2>1. cursor \in 1..PlanLength
    BY <1>13 DEF save, SaveAndAdvance
  <2>2. cursor' \in 1..(PlanLength + 1)
    BY <1>13, <2>1 DEF save, SaveAndAdvance
  <2>3. rework' \in SUBSET Sections
    BY <1>13 DEF save, SaveAndAdvance
  <2>4. node' \in Nodes
    BY <1>13 DEF save, SaveAndAdvance, route_after_save
  <2>5. /\ rows' \in [Sections -> {"none", "done", "skipped", "reopened"}]
        /\ demand' \in [Sections -> {"none", "owed", "served", "dropped"}]
    BY <1>13, <2>1 DEF save, SaveAndAdvance
  <2>6. /\ skip_current' \in BOOLEAN /\ reworking' \in BOOLEAN
        /\ problems' = "none" /\ score' = "none"
        /\ revisions' = 0 /\ question_rounds' = 0 /\ asked' = 0
    BY <1>13 DEF save, SaveAndAdvance
  <2>7. UNCHANGED <<facts, tables, inconsistencies, seen, rewrites, reopenings>>
    BY <1>13 DEF save, SaveAndAdvance
  <2> QED
    BY <2>2, <2>3, <2>4, <2>5, <2>6, <2>7
<1>14. CASE coherence_check
  BY <1>14 DEF coherence_check
<1>15. CASE NothingToArbitrate
  BY <1>15 DEF NothingToArbitrate, route_after_arbitrate
<1>16. CASE arbitrate
  BY <1>16 DEF arbitrate, route_after_arbitrate
<1>17. CASE StartRework
  <2>1. PICK target \in Sections : StartReworkOf(target)
    BY <1>17 DEF StartRework
  <2>2. cursor' \in 1..(PlanLength + 1)
    BY <2>1 DEF StartReworkOf
  <2> QED
    BY <2>1, <2>2 DEF StartReworkOf
<1>18. CASE ReworkOver
  <2>1. cursor' \in 1..(PlanLength + 1)
    BY <1>18 DEF ReworkOver
  <2> QED
    BY <1>18, <2>1 DEF ReworkOver
<1>19. CASE Reopen
  BY <1>19 DEF Reopen
<1>20. CASE UNCHANGED vars
  BY <1>20 DEF vars
<1> QED
  BY <1>1, <1>2, <1>3, <1>4, <1>5, <1>6, <1>7, <1>8, <1>9, <1>10, <1>11, <1>12,
     <1>13, <1>14, <1>15, <1>16, <1>17, <1>18, <1>19, <1>20 DEF Next, Advance, Reply

\* The section in hand leads the queue, the run is where its queue says, and no
\* loop passes its bound.
LEMMA NextStage ==
  ASSUME AgentInv, [Next]_vars, TypeOK'
  PROVE  CursorLeads' /\ StageOfRun' /\ RoundsLeft'
<1> USE AgentPlan, AgentCatalogue, AgentBounds DEF AgentInv, TypeOK,
         Sections, MAX_REVISIONS, MAX_QUESTION_ROUNDS, Nodes, Working, Gathering, Written,
         knowledge, counters, draft, queue, outcome, history, bounds,
         CursorLeads, StageOfRun, RoundsLeft
<1>1. CASE RouteFromStart
  BY <1>1 DEF RouteFromStart
<1>2. CASE extract_facts
  BY <1>2 DEF extract_facts, merge_facts, FromUser
<1>3. CASE analyse_gaps
  BY <1>3 DEF analyse_gaps, route_after_gaps, missing_required_facts
<1>4. CASE formulate_questions
  BY <1>4 DEF formulate_questions
<1>5. CASE ask_questions
  BY <1>5 DEF ask_questions, merge_facts, FromUser
<1>6. CASE compute
  BY <1>6 DEF compute
<1>7. CASE write
  BY <1>7 DEF write, Draft
<1>8. CASE check_numbers
  BY <1>8 DEF check_numbers, route_after_numbers
<1>9. CASE critique
  BY <1>9 DEF critique, route_after_critique
<1>10. CASE Accept
  BY <1>10 DEF Accept
<1>11. CASE Skip
  BY <1>11 DEF Skip
<1>12. CASE Rewrite
  BY <1>12 DEF Rewrite, AskRewriting
<1>13. CASE save
  BY <1>13 DEF save, SaveAndAdvance, route_after_save
<1>14. CASE coherence_check
  BY <1>14 DEF coherence_check
<1>15. CASE NothingToArbitrate
  BY <1>15 DEF NothingToArbitrate, route_after_arbitrate
<1>16. CASE arbitrate
  BY <1>16 DEF arbitrate, route_after_arbitrate
<1>17. CASE StartRework
  BY <1>17 DEF StartRework, StartReworkOf
<1>18. CASE ReworkOver
  BY <1>18 DEF ReworkOver
<1>19. CASE Reopen
  BY <1>19 DEF Reopen
<1>20. CASE UNCHANGED vars
  BY <1>20 DEF vars
<1> QED
  BY <1>1, <1>2, <1>3, <1>4, <1>5, <1>6, <1>7, <1>8, <1>9, <1>10, <1>11, <1>12,
     <1>13, <1>14, <1>15, <1>16, <1>17, <1>18, <1>19, <1>20 DEF Next, Advance, Reply

\* The path to `save` goes through the number check, the critique and, where it
\* must, the user; every new draft starts it again.
LEMMA NextJudged ==
  ASSUME AgentInv, [Next]_vars, TypeOK'
  PROVE  Judged' /\ SavedAsJudged' /\ SkipIsTheUsers'
<1> USE AgentPlan, AgentCatalogue, AgentBounds DEF AgentInv, TypeOK,
         Sections, MAX_REVISIONS, MAX_QUESTION_ROUNDS, Nodes, Working, Gathering, Written,
         knowledge, counters, draft, queue, outcome, history, bounds,
         Judged, SavedAsJudged, SkipIsTheUsers
<1>1. CASE RouteFromStart
  BY <1>1 DEF RouteFromStart
<1>2. CASE extract_facts
  BY <1>2 DEF extract_facts, merge_facts, FromUser
<1>3. CASE analyse_gaps
  BY <1>3 DEF analyse_gaps, route_after_gaps, missing_required_facts
<1>4. CASE formulate_questions
  BY <1>4 DEF formulate_questions
<1>5. CASE ask_questions
  BY <1>5 DEF ask_questions, merge_facts, FromUser
<1>6. CASE compute
  BY <1>6 DEF compute
<1>7. CASE write
  BY <1>7 DEF write, Draft
<1>8. CASE check_numbers
  BY <1>8 DEF check_numbers, route_after_numbers
<1>9. CASE critique
  BY <1>9 DEF critique, route_after_critique
<1>10. CASE Accept
  BY <1>10 DEF Accept
<1>11. CASE Skip
  BY <1>11 DEF Skip
<1>12. CASE Rewrite
  BY <1>12 DEF Rewrite, AskRewriting
<1>13. CASE save
  BY <1>13 DEF save, SaveAndAdvance, route_after_save
<1>14. CASE coherence_check
  BY <1>14 DEF coherence_check
<1>15. CASE NothingToArbitrate
  BY <1>15 DEF NothingToArbitrate, route_after_arbitrate
<1>16. CASE arbitrate
  BY <1>16 DEF arbitrate, route_after_arbitrate
<1>17. CASE StartRework
  BY <1>17 DEF StartRework, StartReworkOf
<1>18. CASE ReworkOver
  BY <1>18 DEF ReworkOver
<1>19. CASE Reopen
  BY <1>19 DEF Reopen
<1>20. CASE UNCHANGED vars
  BY <1>20 DEF vars
<1> QED
  BY <1>1, <1>2, <1>3, <1>4, <1>5, <1>6, <1>7, <1>8, <1>9, <1>10, <1>11, <1>12,
     <1>13, <1>14, <1>15, <1>16, <1>17, <1>18, <1>19, <1>20 DEF Next, Advance, Reply

\* A demand stays with its section, in the queue or in hand, until it is put to
\* the writer.
LEMMA NextDemand ==
  ASSUME AgentInv, [Next]_vars, TypeOK'
  PROVE  DemandFollowed'
<1> USE AgentPlan, AgentCatalogue, AgentBounds DEF AgentInv, TypeOK,
         Sections, MAX_REVISIONS, MAX_QUESTION_ROUNDS, Nodes, Working, Gathering, Written,
         knowledge, counters, draft, queue, outcome, history, bounds,
         CursorLeads, StageOfRun, DemandFollowed
<1>1. CASE RouteFromStart
  BY <1>1 DEF RouteFromStart
<1>2. CASE extract_facts
  BY <1>2 DEF extract_facts, merge_facts, FromUser
<1>3. CASE analyse_gaps
  BY <1>3 DEF analyse_gaps, route_after_gaps, missing_required_facts
<1>4. CASE formulate_questions
  BY <1>4 DEF formulate_questions
<1>5. CASE ask_questions
  BY <1>5 DEF ask_questions, merge_facts, FromUser
<1>6. CASE compute
  BY <1>6 DEF compute
<1>7. CASE write
  BY <1>7 DEF write, Draft
<1>8. CASE check_numbers
  BY <1>8 DEF check_numbers, route_after_numbers
<1>9. CASE critique
  BY <1>9 DEF critique, route_after_critique
<1>10. CASE Accept
  BY <1>10 DEF Accept
<1>11. CASE Skip
  BY <1>11 DEF Skip
<1>12. CASE Rewrite
  BY <1>12 DEF Rewrite, AskRewriting
<1>13. CASE save
  BY <1>13 DEF save, SaveAndAdvance, route_after_save
<1>14. CASE coherence_check
  BY <1>14 DEF coherence_check
<1>15. CASE NothingToArbitrate
  BY <1>15 DEF NothingToArbitrate, route_after_arbitrate
<1>16. CASE arbitrate
  BY <1>16 DEF arbitrate, route_after_arbitrate
<1>17. CASE StartRework
  BY <1>17 DEF StartRework, StartReworkOf
<1>18. CASE ReworkOver
  BY <1>18 DEF ReworkOver
<1>19. CASE Reopen
  BY <1>19 DEF Reopen
<1>20. CASE UNCHANGED vars
  BY <1>20 DEF vars
<1> QED
  BY <1>1, <1>2, <1>3, <1>4, <1>5, <1>6, <1>7, <1>8, <1>9, <1>10, <1>11, <1>12,
     <1>13, <1>14, <1>15, <1>16, <1>17, <1>18, <1>19, <1>20 DEF Next, Advance, Reply

\* Facts are never lost and the rounds of the section in hand are counted afresh.
LEMMA NextAsked ==
  ASSUME AgentInv, [Next]_vars, TypeOK'
  PROVE  AskedBeforeWritten'
<1> USE AgentPlan, AgentCatalogue, AgentBounds DEF AgentInv, TypeOK,
         Sections, MAX_REVISIONS, MAX_QUESTION_ROUNDS, Nodes, Working, Gathering, Written,
         knowledge, counters, draft, queue, outcome, history, bounds,
         RoundsLeft, CursorLeads, AskedBeforeWritten, missing_required_facts
<1>1. CASE RouteFromStart
  BY <1>1 DEF RouteFromStart
<1>2. CASE extract_facts
  BY <1>2 DEF extract_facts, merge_facts, FromUser
<1>3. CASE analyse_gaps
  BY <1>3 DEF analyse_gaps, route_after_gaps, missing_required_facts
<1>4. CASE formulate_questions
  BY <1>4 DEF formulate_questions
<1>5. CASE ask_questions
  BY <1>5 DEF ask_questions, merge_facts, FromUser
<1>6. CASE compute
  BY <1>6 DEF compute
<1>7. CASE write
  BY <1>7 DEF write, Draft
<1>8. CASE check_numbers
  BY <1>8 DEF check_numbers, route_after_numbers
<1>9. CASE critique
  BY <1>9 DEF critique, route_after_critique
<1>10. CASE Accept
  BY <1>10 DEF Accept
<1>11. CASE Skip
  BY <1>11 DEF Skip
<1>12. CASE Rewrite
  BY <1>12 DEF Rewrite, AskRewriting
<1>13. CASE save
  BY <1>13 DEF save, SaveAndAdvance, route_after_save
<1>14. CASE coherence_check
  BY <1>14 DEF coherence_check
<1>15. CASE NothingToArbitrate
  BY <1>15 DEF NothingToArbitrate, route_after_arbitrate
<1>16. CASE arbitrate
  BY <1>16 DEF arbitrate, route_after_arbitrate
<1>17. CASE StartRework
  BY <1>17 DEF StartRework, StartReworkOf
<1>18. CASE ReworkOver
  BY <1>18 DEF ReworkOver
<1>19. CASE Reopen
  BY <1>19 DEF Reopen
<1>20. CASE UNCHANGED vars
  BY <1>20 DEF vars
<1> QED
  BY <1>1, <1>2, <1>3, <1>4, <1>5, <1>6, <1>7, <1>8, <1>9, <1>10, <1>11, <1>12,
     <1>13, <1>14, <1>15, <1>16, <1>17, <1>18, <1>19, <1>20 DEF Next, Advance, Reply

\* A new run is at its start, with every section to write and nothing judged.
LEMMA InitInv == Init => AgentInv
<1> SUFFICES ASSUME Init PROVE AgentInv
  OBVIOUS
<1> USE AgentPlan, AgentCatalogue, AgentBounds DEF Init, Sections, MAX_REVISIONS,
         MAX_QUESTION_ROUNDS, Nodes, Working, Gathering, Written
<1>1. TypeOK
  <2>1. facts \in [Facts -> {"absent", "deduced", "answered", "unknown"}]
    OBVIOUS
  <2>2. cursor \in 1..(PlanLength + 1)
    OBVIOUS
  <2>3. /\ rows \in [Sections -> {"none", "done", "skipped", "reopened"}]
        /\ demand \in [Sections -> {"none", "owed", "served", "dropped"}]
    OBVIOUS
  <2>4. /\ skip_current \in BOOLEAN /\ reworking \in BOOLEAN
        /\ node \in Nodes /\ problems = "none" /\ score = "none"
        /\ revisions = 0 /\ question_rounds = 0 /\ asked = 0
        /\ tables = {} /\ inconsistencies = {} /\ rework = {} /\ seen = {}
        /\ rewrites = 0 /\ reopenings = 0
    OBVIOUS
  <2> HIDE DEF Init
  <2> QED
    BY <2>1, <2>2, <2>3, <2>4 DEF TypeOK
<1>2. CursorLeads /\ StageOfRun /\ RoundsLeft
  BY DEF CursorLeads, StageOfRun, RoundsLeft
<1>3. Judged /\ DemandFollowed /\ SavedAsJudged /\ SkipIsTheUsers /\ AskedBeforeWritten
  BY DEF Judged, DemandFollowed, SavedAsJudged, SkipIsTheUsers, AskedBeforeWritten
<1> QED
  BY <1>1, <1>2, <1>3 DEF AgentInv

\* The inductive invariant, for any plan, catalogue, answers and bounds.
THEOREM AgentInvariant == Spec => []AgentInv
<1>1. AgentInv /\ [Next]_vars => AgentInv'
  <2> SUFFICES ASSUME AgentInv, [Next]_vars PROVE AgentInv'
    OBVIOUS
  <2>1. TypeOK'
    BY NextType DEF AgentInv
  <2> QED
    BY <2>1, NextStage, NextJudged, NextDemand, NextAsked DEF AgentInv
<1> QED
  BY <1>1, InitInv, PTL DEF Spec

\* The revisions and the rounds of questions stay under their caps, the cursor
\* within the plan.
THEOREM TypeCorrect == Spec => []TypeOK
<1>1. AgentInv => TypeOK
  BY DEF AgentInv
<1> QED
  BY <1>1, AgentInvariant, PTL

\* No version is saved that was not judged after its last rewriting.
THEOREM SavedOnlyJudged == Spec => []SavedAsJudged
<1>1. AgentInv => SavedAsJudged
  BY DEF AgentInv
<1> QED
  BY <1>1, AgentInvariant, PTL

\* Only the user makes a section `skipped`, and for that section alone.
THEOREM OnlyTheUserSkips == Spec => []SkipIsTheUsers
<1>1. AgentInv => SkipIsTheUsers
  BY DEF AgentInv
<1> QED
  BY <1>1, AgentInvariant, PTL

\* Every writing of a section asks for what it misses, twice at most.
THEOREM AskedFirst == Spec => []AskedBeforeWritten
<1>1. AgentInv => AskedBeforeWritten
  BY DEF AgentInv
<1> QED
  BY <1>1, AgentInvariant, PTL

\* Every demand reaches the writer before its section is saved.
THEOREM DemandsServed == Spec => []NoDemandIsLost
<1>1. AgentInv => NoDemandIsLost
  BY DEF AgentInv, NoDemandIsLost, DemandFollowed, StageOfRun, Working, Gathering, Written
<1> QED
  BY <1>1, AgentInvariant, PTL

\* merge_facts: an answer yields to an answer only, along any run.
THEOREM AnswersAreKept == Spec => DeductionKeepsAnswers
<1>1. TypeOK /\ [Next]_vars =>
        [\A f \in Facts : facts[f] \in FromUser => facts'[f] \in FromUser]_vars
  <2> SUFFICES ASSUME TypeOK, Next, NEW f \in Facts, facts[f] \in FromUser
               PROVE  facts'[f] \in FromUser
    BY DEF vars
  <2>1. CASE extract_facts
    BY <2>1, AgentCatalogue DEF extract_facts, merge_facts, FromUser, TypeOK
  <2>2. CASE ask_questions
    BY <2>2 DEF ask_questions, merge_facts, FromUser, TypeOK
  <2>3. CASE ~extract_facts /\ ~ask_questions
    <3>1. facts' = facts
      BY <2>3 DEF Next, Advance, Reply, knowledge, RouteFromStart, analyse_gaps,
                  formulate_questions, compute, write, Draft, check_numbers, critique, Accept,
                  Skip, Rewrite, AskRewriting, save, SaveAndAdvance, coherence_check,
                  NothingToArbitrate, arbitrate, StartRework, StartReworkOf, ReworkOver, Reopen
    <3> QED
      BY <3>1
  <2> QED
    BY <2>1, <2>2, <2>3
<1> QED
  BY <1>1, TypeCorrect, PTL DEF Spec, DeductionKeepsAnswers

(* ------------------------ Agent implements Writing --------------------- *)

\* initial_state: the whole plan is to write.
LEMMA InitRefines == Init => WritingOf!Init
  BY AgentPlan DEF Init, WritingOf!Init, Sections, ToSave

\* Each node is a step of Writing, or hidden from it.
LEMMA NextRefines ==
  ASSUME AgentInv, AgentInv', [Next]_vars
  PROVE  [WritingOf!Next]_(WritingOf!vars)
<1> USE AgentPlan DEF ToSave, AgentInv, CursorLeads, StageOfRun, Sections, Working, Gathering, Written,
         knowledge, counters, draft, queue, outcome, history, bounds
<1>1. CASE save
  <2>1. cursor \in Sections /\ rows \in [Sections -> {"none", "done", "skipped", "reopened"}]
    BY <1>1 DEF save, SaveAndAdvance, TypeOK
  <2>2. WritingOf!Save(cursor)
    <3>1. CASE reworking
      BY <1>1, <2>1, <3>1 DEF save, SaveAndAdvance, route_after_save, WritingOf!Save
    <3>2. CASE ~reworking
      <4>1. rework = {} /\ rework' = {} /\ cursor' = cursor + 1 /\ ~reworking'
        BY <1>1, <3>2 DEF save, SaveAndAdvance
      <4>2. (cursor + 1)..PlanLength = (cursor..PlanLength) \ {cursor}
        BY <2>1
      <4>3. cursor \in cursor..PlanLength /\ \A t \in cursor..PlanLength : cursor <= t
        BY <2>1
      <4>4. node = "save" /\ node' \in {"analyse_gaps", "coherence_check"}
        BY <1>1, <3>2 DEF save, SaveAndAdvance, route_after_save
      <4>5. \E statut \in {"done", "skipped"} : rows' = [rows EXCEPT ![cursor] = statut]
        BY <1>1 DEF save, SaveAndAdvance
      <4> QED
        BY <3>2, <4>1, <4>2, <4>3, <4>4, <4>5 DEF WritingOf!Save
    <3> QED
      BY <3>1, <3>2
  <2> QED
    BY <2>1, <2>2 DEF WritingOf!Next
<1>2. CASE NothingToArbitrate \/ arbitrate
  <2>1. /\ node = "arbitrate" /\ rework = {} /\ ~reworking /\ ~reworking'
        /\ cursor = PlanLength + 1 /\ cursor' = PlanLength + 1 /\ rows' = rows
    BY <1>2 DEF NothingToArbitrate, arbitrate
  <2>2. /\ rework' \in SUBSET Sections
        /\ node' = IF rework' # {} THEN "next_rework" ELSE "END"
    BY <1>2 DEF NothingToArbitrate, arbitrate, route_after_arbitrate, TypeOK
  <2>3. (PlanLength + 1)..PlanLength = {}
    OBVIOUS
  <2>4. WritingOf!Arbitrate
    <3>1. CASE rework' = {}
      BY <2>1, <2>2, <2>3, <3>1 DEF WritingOf!Arbitrate
    <3>2. CASE rework' # {}
      BY <2>1, <2>2, <2>3, <3>2 DEF WritingOf!Arbitrate
    <3> QED
      BY <3>1, <3>2
  <2> QED
    BY <2>4 DEF WritingOf!Next
<1>3. CASE ReworkOver
  <2>1. WritingOf!Finish
    BY <1>3 DEF ReworkOver, TypeOK, WritingOf!Finish
  <2> QED
    BY <2>1 DEF WritingOf!Next
<1>4. CASE Reopen
  <2>1. PICK s \in Sections :
          /\ rework' = Closure[s]
          /\ rows' = [t \in Sections |-> IF t \in Closure[s] THEN "reopened" ELSE rows[t]]
    BY <1>4 DEF Reopen
  <2>2. WritingOf!Reopen(Closure[s])
    BY <1>4, <2>1 DEF Reopen, WritingOf!Reopen
  <2> QED
    BY <2>2 DEF WritingOf!Next
<1>5. CASE /\ [Next]_vars /\ ~save /\ ~NothingToArbitrate /\ ~arbitrate
           /\ ~ReworkOver /\ ~Reopen
  <2>1. CASE StartRework
    BY <2>1 DEF StartRework, StartReworkOf, WritingOf!vars
  <2>2. CASE extract_facts \/ analyse_gaps \/ formulate_questions \/ ask_questions \/ compute
    BY <2>2 DEF extract_facts, analyse_gaps, route_after_gaps, formulate_questions,
                ask_questions, compute, WritingOf!vars
  <2>3. CASE write \/ check_numbers \/ critique
    BY <2>3 DEF write, Draft, check_numbers, route_after_numbers, critique,
                route_after_critique, WritingOf!vars
  <2>4. CASE Accept \/ Skip \/ Rewrite
    BY <2>4 DEF Accept, Skip, Rewrite, AskRewriting, WritingOf!vars
  <2>5. CASE RouteFromStart \/ coherence_check
    BY <2>5 DEF RouteFromStart, coherence_check, WritingOf!vars
  <2>6. CASE UNCHANGED vars
    BY <2>6 DEF vars, WritingOf!vars
  <2> QED
    BY <1>5, <2>1, <2>2, <2>3, <2>4, <2>5, <2>6 DEF Next, Advance, Reply
<1> QED
  BY <1>1, <1>2, <1>3, <1>4, <1>5

\* The sections are saved in the order of the plan, arbitrated once, rewritten as
\* asked for, and the run ends with nothing left to write.
THEOREM AgentImplementsWriting == Spec => WritingSpec
<1>1. AgentInv /\ AgentInv' /\ [Next]_vars => [WritingOf!Next]_(WritingOf!vars)
  BY NextRefines
<1> QED
  BY <1>1, InitRefines, AgentInvariant, PTL DEF Spec, WritingSpec, WritingOf!Spec

(* --------------------- Agent implements ThreadProgress ------------------ *)

LEMMA InitProgresses == Init => ProgressOf!Init
  BY AgentPlan DEF Init, ProgressOf!Init, ProgressOf!Started, Sections, Waiting, ToSave

\* What is left to save while a section is worked on, and once all are written.
LEMMA WhatIsLeft ==
  ASSUME AgentInv
  PROVE  /\ node \in Working => cursor \in ToSave
         /\ node \in {"coherence_check", "arbitrate"} => rework = {} /\ ~reworking /\ ToSave = {}
         /\ node = "END" => ToSave = {}
<1> USE AgentPlan DEF AgentInv, TypeOK, CursorLeads, StageOfRun, Sections, ToSave
<1>1. ASSUME node \in Working PROVE cursor \in ToSave
  <2>1. cursor \in cursor..PlanLength
    BY <1>1
  <2>2. reworking \/ rework # {} => cursor \in rework
    BY <1>1
  <2> QED
    BY <2>1, <2>2
<1>2. (PlanLength + 1)..PlanLength = {}
  OBVIOUS
<1>3. ASSUME node \in {"coherence_check", "arbitrate"}
      PROVE  rework = {} /\ ~reworking /\ ToSave = {}
  BY <1>2, <1>3
<1>4. ASSUME node = "END" PROVE ToSave = {}
  BY <1>2, <1>4
<1> QED
  BY <1>1, <1>3, <1>4

\* Each node is a step of the thread, or hidden from its driver.
LEMMA NextProgresses ==
  ASSUME AgentInv, AgentInv', [Next]_vars
  PROVE  [ProgressOf!Next]_(ProgressOf!vars)
<1> USE DEF knowledge, counters, draft, queue, outcome, history, bounds
<1>1. CASE save
  <2>1. node = "save" /\ node' \in {"next_rework", "analyse_gaps", "coherence_check"}
    BY <1>1 DEF save, SaveAndAdvance, route_after_save
  <2>2. cursor \in ToSave /\ cursor \in Sections
    BY <2>1, WhatIsLeft DEF AgentInv, CursorLeads, Working, Written
  <2>3. ToSave' = ToSave \ {cursor} /\ (reworking' \/ rework' # {} <=> reworking \/ rework # {})
    BY <1>1, <2>1, <2>2, AgentPlan DEF save, SaveAndAdvance, AgentInv, TypeOK, CursorLeads, Working,
       Written, Sections, ToSave
  <2>4. ProgressOf!Save
    BY <2>1, <2>2, <2>3 DEF ProgressOf!Save, Waiting
  <2> QED
    BY <2>4 DEF ProgressOf!Next
<1>2. CASE formulate_questions \/ (critique /\ node' = "review")
           \/ (coherence_check /\ inconsistencies' # {})
  <2>1. /\ node \in {"formulate_questions", "critique", "coherence_check"}
        /\ node' \in {"ask_questions", "review", "arbitrate"} /\ Waiting'
        /\ UNCHANGED <<reworking, rework, cursor>>
    BY <1>2 DEF formulate_questions, critique, coherence_check, Waiting
  <2>2. ToSave # {} \/ ~(reworking \/ rework # {})
    BY <2>1, WhatIsLeft DEF Working, Gathering, Written
  <2>3. ProgressOf!Interrupt
    BY <2>1, <2>2 DEF ProgressOf!Interrupt, ToSave, Waiting
  <2> QED
    BY <2>3 DEF ProgressOf!Next
<1>3. CASE ask_questions \/ Accept \/ Skip \/ Rewrite
  <2>1. /\ node \in {"ask_questions", "review"}
        /\ node' \in {"analyse_gaps", "save", "write"}
        /\ UNCHANGED <<reworking, rework, cursor>>
    BY <1>3 DEF ask_questions, Accept, Skip, Rewrite, AskRewriting
  <2>2. ToSave # {} /\ ToSave' = ToSave
    BY <2>1, WhatIsLeft DEF Working, Gathering, Written, ToSave
  <2>3. ProgressOf!Resume
    BY <2>1, <2>2 DEF ProgressOf!Resume, Waiting
  <2> QED
    BY <2>3 DEF ProgressOf!Next
<1>4. CASE NothingToArbitrate \/ arbitrate
  <2>1. /\ node = "arbitrate" /\ ~reworking' /\ cursor' = cursor
        /\ rework = {} /\ ~reworking /\ ToSave = {}
        /\ node' = IF rework' # {} THEN "next_rework" ELSE "END"
        /\ rework' \in SUBSET Sections
        /\ arbitrate => inconsistencies # {}
        /\ NothingToArbitrate => inconsistencies = {} /\ rework' = {}
    BY <1>4, WhatIsLeft DEF NothingToArbitrate, arbitrate, route_after_arbitrate, AgentInv, TypeOK
  <2>2. ToSave' = rework'
    BY <2>1 DEF ToSave
  <2>3. CASE NothingToArbitrate
    <3>1. ProgressOf!Finish
      BY <2>1, <2>2, <2>3 DEF ProgressOf!Finish, Waiting
    <3> QED
      BY <3>1 DEF ProgressOf!Next
  <2>4. CASE arbitrate
    <3>1. ProgressOf!Resume
      BY <2>1, <2>2, <2>4 DEF ProgressOf!Resume, Waiting
    <3> QED
      BY <3>1 DEF ProgressOf!Next
  <2> QED
    BY <1>4, <2>3, <2>4
<1>5. CASE ReworkOver
  <2>1. /\ node = "next_rework" /\ node' = "END" /\ rework = {} /\ rework' = {} /\ reworking
    BY <1>5 DEF ReworkOver, AgentInv, StageOfRun
  <2>2. ToSave = {}
    BY <2>1 DEF ToSave
  <2>3. ToSave' = {}
    <3>1. cursor' = PlanLength + 1 /\ ~reworking' /\ (PlanLength + 1)..PlanLength = {}
      BY <1>5, AgentPlan DEF ReworkOver
    <3> QED
      BY <2>1, <3>1 DEF ToSave
  <2>4. ProgressOf!Finish
    BY <2>1, <2>2, <2>3 DEF ProgressOf!Finish, Waiting
  <2> QED
    BY <2>4 DEF ProgressOf!Next
<1>6. CASE Reopen
  <2>1. PICK s \in Sections : rework' = Closure[s]
    BY <1>6 DEF Reopen
  <2>2. s \in Closure[s] /\ Closure[s] \in SUBSET Sections
    BY AgentPlan
  <2>3. ToSave' = Closure[s] /\ rework' # {} /\ node' = "START"
    BY <1>6, <2>1, <2>2 DEF Reopen, ToSave
  <2>4. ProgressOf!Rework
    BY <2>2, <2>3 DEF ProgressOf!Rework, Waiting
  <2> QED
    BY <2>4 DEF ProgressOf!Next
<1>7. CASE RouteFromStart \/ extract_facts \/ analyse_gaps \/ compute \/ write \/ check_numbers
           \/ (critique /\ node' # "review") \/ (coherence_check /\ inconsistencies' = {})
  <2>1. /\ node \notin {"ask_questions", "review", "arbitrate", "END"}
        /\ node' \notin {"ask_questions", "review", "END"} /\ ~Waiting'
        /\ UNCHANGED <<reworking, rework, cursor>>
    BY <1>7 DEF RouteFromStart, extract_facts, analyse_gaps, route_after_gaps, compute, write, Draft,
       check_numbers, route_after_numbers, critique, route_after_critique, coherence_check, Waiting
  <2> QED
    BY <2>1 DEF ProgressOf!vars, ToSave, Waiting
<1>8. CASE StartRework
  <2>1. /\ node = "next_rework" /\ node' = "analyse_gaps" /\ rework # {} /\ rework' = rework
    BY <1>8 DEF StartRework, StartReworkOf
  <2> QED
    BY <2>1 DEF ProgressOf!vars, ToSave, Waiting
<1>9. CASE UNCHANGED vars
  BY <1>9 DEF vars, ProgressOf!vars, ToSave, Waiting
<1> QED
  BY <1>1, <1>2, <1>3, <1>4, <1>5, <1>6, <1>7, <1>8, <1>9 DEF Next, Advance, Reply

\* The nodes show their driver what run control takes for granted of a graph:
\* it waits only with a section left to save or the arbitration to come, an
\* answer queues sections only there, and the end finds the queue empty.
THEOREM AgentProgresses == Spec => ProgressSpec
<1>1. AgentInv /\ AgentInv' /\ [Next]_vars => [ProgressOf!Next]_(ProgressOf!vars)
  BY NextProgresses
<1> QED
  BY <1>1, InitProgresses, AgentInvariant, PTL DEF Spec, ProgressSpec, ProgressOf!Spec

(* --------------------- the nodes that need no user end ------------------ *)

\* How far the run is from a section saved or an end, by node.
StepsLeft ==
  CASE node = "START" -> 15
    [] node \in {"extract_facts", "next_rework"} -> 14
    [] node = "analyse_gaps" -> 13
    [] node = "formulate_questions" -> 12
    [] node = "compute" -> 11
    [] node = "check_numbers" -> 3 * (MAX_REVISIONS - revisions) + 6
    [] node = "critique" -> 3 * (MAX_REVISIONS - revisions) + 5
    [] node = "write" -> 3 * (MAX_REVISIONS - revisions) + 4
    [] node \in {"review", "coherence_check"} -> 2
    [] node \in {"save", "ask_questions", "arbitrate"} -> 1
    [] node = "END" -> 0

StepsAhead == 16 * Cardinality(ToSave) + StepsLeft

\* What is left to save is a finite set.
LEMMA ToSaveFinite == ASSUME TypeOK PROVE IsFiniteSet(ToSave) /\ Cardinality(ToSave) \in Nat
<1>1. IsFiniteSet(1..PlanLength) /\ IsFiniteSet(cursor..PlanLength)
  BY FS_Interval, AgentPlan DEF TypeOK, Sections
<1>2. ToSave \subseteq 1..PlanLength \/ ToSave = cursor..PlanLength
  BY DEF TypeOK, ToSave, Sections
<1>3. IsFiniteSet(ToSave)
  BY <1>1, <1>2, FS_Subset
<1> QED
  BY <1>3, FS_CardinalityType

LEMMA StepsLeftType == ASSUME TypeOK PROVE StepsLeft \in 0..15
<1> USE DEF TypeOK
<1>1. CASE node \in {"write", "check_numbers", "critique"}
  <2>1. revisions \in 0..2
    BY DEF MAX_REVISIONS
  <2> QED
    BY <1>1, <2>1 DEF StepsLeft, MAX_REVISIONS
<1>2. CASE node \in Nodes \ {"write", "check_numbers", "critique"}
  BY <1>2 DEF StepsLeft, Nodes
<1> QED
  BY <1>1, <1>2

\* A section saved is one less to save.
LEMMA SaveDescends ==
  ASSUME AgentInv, AgentInv', save
  PROVE  StepsAhead' < StepsAhead
<1>1. node = "save" /\ node' \in {"next_rework", "analyse_gaps", "coherence_check"}
  BY DEF save, SaveAndAdvance, route_after_save
<1>2. cursor \in ToSave /\ cursor \in Sections
  BY <1>1, WhatIsLeft DEF AgentInv, CursorLeads, Working, Written
<1>3. ToSave' = ToSave \ {cursor}
  BY <1>1, <1>2, AgentPlan DEF save, SaveAndAdvance, AgentInv, TypeOK, CursorLeads, Working,
     Written, Sections, ToSave, queue
<1>4. /\ Cardinality(ToSave) \in Nat
      /\ Cardinality(ToSave') = Cardinality(ToSave) - 1
  BY <1>2, <1>3, ToSaveFinite, FS_RemoveElement DEF AgentInv
<1>5. StepsLeft = 1 /\ StepsLeft' \in 0..14
  BY <1>1 DEF StepsLeft
<1> QED
  BY <1>4, <1>5 DEF StepsAhead

\* Every other node that needs no user brings the run nearer to the next save,
\* the rounds of writing being counted.
LEMMA AdvanceDescends ==
  ASSUME AgentInv, AgentInv', Advance
  PROVE  StepsAhead' < StepsAhead
<1> USE DEF knowledge, counters, draft, queue, outcome, history, bounds
<1>1. CASE save
  BY <1>1, SaveDescends
<1>2. CASE ~save
  <2>1. StepsLeft \in Nat /\ StepsLeft' \in Nat /\ StepsLeft' < StepsLeft
    <3>1. CASE RouteFromStart \/ extract_facts \/ formulate_questions \/ coherence_check
               \/ NothingToArbitrate \/ StartRework \/ ReworkOver
      <4>1. \/ node = "START" /\ node' \in {"next_rework", "extract_facts"}
            \/ node \in {"extract_facts", "next_rework"} /\ node' \in {"analyse_gaps", "END"}
            \/ node = "formulate_questions" /\ node' = "ask_questions"
            \/ node = "coherence_check" /\ node' = "arbitrate"
            \/ node = "arbitrate" /\ node' = "END"
        BY <3>1 DEF RouteFromStart, extract_facts, formulate_questions, coherence_check,
           NothingToArbitrate, route_after_arbitrate, StartRework, StartReworkOf, ReworkOver,
           AgentInv, CursorLeads, StageOfRun
      <4> QED
        BY <4>1 DEF StepsLeft
    <3>2. CASE analyse_gaps \/ compute
      <4>1. /\ \/ node = "analyse_gaps" /\ node' \in {"formulate_questions", "compute", "write"}
               \/ node = "compute" /\ node' = "write"
            /\ revisions = 0 /\ revisions' = 0
        BY <3>2 DEF analyse_gaps, route_after_gaps, compute, AgentInv, RoundsLeft, Written
      <4> QED
        BY <4>1 DEF StepsLeft, MAX_REVISIONS
    <3>3. CASE write \/ check_numbers \/ critique
      <4>1. /\ \/ node = "write" /\ node' = "check_numbers" /\ revisions' = revisions + 1
               \/ /\ node = "check_numbers" /\ node' \in {"write", "critique"}
                  /\ revisions' = revisions
               \/ /\ node = "critique" /\ node' \in {"write", "review", "save"}
                  /\ revisions' = revisions
            /\ revisions \in 0..MAX_REVISIONS
        BY <3>3 DEF write, Draft, check_numbers, route_after_numbers, critique,
           route_after_critique, AgentInv, TypeOK
      <4> QED
        BY <4>1 DEF StepsLeft, MAX_REVISIONS
    <3> QED
      BY <1>2, <3>1, <3>2, <3>3 DEF Advance
  <2>2. ToSave' = ToSave
    <3>1. CASE NothingToArbitrate \/ StartRework \/ ReworkOver
      <4>1. CASE NothingToArbitrate
        BY <4>1 DEF NothingToArbitrate, ToSave
      <4>2. CASE StartRework
        BY <4>2 DEF StartRework, StartReworkOf, ToSave
      <4>3. CASE ReworkOver
        <5>1. ToSave = {} /\ (PlanLength + 1)..PlanLength = {}
          BY <4>3, AgentPlan DEF ReworkOver, AgentInv, StageOfRun, ToSave
        <5> QED
          BY <4>3, <5>1 DEF ReworkOver, ToSave
      <4> QED
        BY <3>1, <4>1, <4>2, <4>3
    <3>2. CASE ~NothingToArbitrate /\ ~StartRework /\ ~ReworkOver
      BY <1>2, <3>2 DEF Advance, RouteFromStart, extract_facts, analyse_gaps, formulate_questions,
         compute, write, Draft, check_numbers, critique, coherence_check, ToSave
    <3> QED
      BY <3>1, <3>2
  <2> QED
    BY <2>1, <2>2, ToSaveFinite DEF StepsAhead, AgentInv
<1> QED
  BY <1>1, <1>2

LEMMA AheadIsBounded == ASSUME AgentInv PROVE StepsAhead \in 0..(16 * PlanLength + 15)
<1>1. ToSave \subseteq 1..PlanLength
  <2>1. cursor..PlanLength \subseteq 1..PlanLength
    BY AgentPlan DEF AgentInv, TypeOK, Sections
  <2> QED
    BY <2>1 DEF AgentInv, TypeOK, Sections, ToSave
<1>2. IsFiniteSet(1..PlanLength) /\ Cardinality(1..PlanLength) = PlanLength
  BY FS_Interval, AgentPlan
<1>3. Cardinality(ToSave) <= PlanLength
  BY <1>1, <1>2, FS_Subset
<1> QED
  BY <1>3, ToSaveFinite, StepsLeftType, AgentPlan DEF AgentInv, StepsAhead

\* The run cannot turn round between two gestures of the user: each node that
\* needs none brings it nearer to a question or to the end, and however many
\* sections the plan has, there are never more than 16 nodes for each and 15
\* besides.  It is what ComesToRest rests on (MAX_REVISIONS,
\* MAX_QUESTION_ROUNDS).
RunDescends == [][Advance => StepsAhead' < StepsAhead]_vars

THEOREM NoEndlessRun == Spec => [](StepsAhead \in 0..(16 * PlanLength + 15)) /\ RunDescends
<1>1. AgentInv /\ AgentInv' /\ [Next]_vars => [Advance => StepsAhead' < StepsAhead]_vars
  BY AdvanceDescends
<1> QED
  BY <1>1, AheadIsBounded, AgentInvariant, PTL DEF Spec, RunDescends
=============================================================================
