--------------------------- MODULE TemplatesProofs --------------------------
(* What a reopening rewrites, for any catalogue and any plan. *)
EXTENDS Templates, TLAPS, FiniteSetTheorems

\* The graph never changes, and what is said of it neither.
LEMMA GraphStays ==
  ASSUME UNCHANGED depend_de
  PROVE  /\ \A s \in Sections : DirectDependents(s)' = DirectDependents(s)
         /\ \A S \in SUBSET Sections : Closed(S)' <=> Closed(S)
         /\ WritingOrder' <=> WritingOrder
BY DEF DirectDependents, Closed, WritingOrder

LEMMA InitInv == Init => ReopeningInv
BY DEF Init, ReopeningInv, TypeOK, Worklist, RewrittenInOrder

\* Nothing is reached nor queued before a reopening, whatever the plan.
LEMMA CreateKeepsInv == ASSUME ReopeningInv, Create PROVE ReopeningInv'
<1>1. /\ pc = "new" /\ pc' = "written" /\ plan' \in SUBSET Sections
      /\ UNCHANGED <<depend_de, target, to_reopen, queue, rework, stale>>
  BY DEF Create, plan_for
<1>2. target = 0 /\ rework = {} /\ to_reopen = {} /\ queue = {} /\ stale = {}
  BY <1>1 DEF ReopeningInv, TypeOK, Worklist
<1>3. TypeOK'
  BY <1>1, <1>2 DEF ReopeningInv, TypeOK
<1>4. Worklist'
  BY <1>1, <1>2 DEF Worklist
<1>5. RewrittenInOrder'
  BY <1>1, <1>2 DEF RewrittenInOrder
<1> QED
  BY <1>3, <1>4, <1>5 DEF ReopeningInv

\* The closure starts from the target alone, which any closed set holds.
LEMMA ReopenKeepsInv == ASSUME ReopeningInv, Reopen PROVE ReopeningInv'
<1>1. /\ pc = "written" /\ pc' = "closing" /\ target' \in plan
      /\ to_reopen' = {target'} /\ queue' = {target'}
      /\ UNCHANGED <<depend_de, plan, rework, stale>>
  BY DEF Reopen
<1>2. rework = {}
  BY <1>1 DEF ReopeningInv, Worklist
<1>3. TypeOK'
  BY <1>1 DEF ReopeningInv, TypeOK
<1>4. Worklist'
  BY <1>1, <1>2 DEF Worklist
<1>5. RewrittenInOrder'
  BY <1>1, <1>2, GraphStays DEF ReopeningInv, RewrittenInOrder
<1> QED
  BY <1>3, <1>4, <1>5 DEF ReopeningInv

\* A visit reaches the dependents of one section, which any closed set that
\* holds the section holds too.
LEMMA VisitKeepsInv == ASSUME ReopeningInv, Visit PROVE ReopeningInv'
<1>0. PICK current \in queue :
        LET fresh == DirectDependents(current) \ to_reopen
        IN /\ to_reopen' = to_reopen \cup fresh
           /\ queue' = (queue \ {current}) \cup fresh
  BY DEF Visit
<1> DEFINE fresh == DirectDependents(current) \ to_reopen
<1>1. /\ pc = "closing" /\ to_reopen' = to_reopen \cup fresh
      /\ queue' = (queue \ {current}) \cup fresh
      /\ UNCHANGED <<depend_de, plan, target, rework, stale, pc>>
  BY <1>0 DEF Visit
<1>2. /\ current \in to_reopen /\ to_reopen \in SUBSET Sections
      /\ DirectDependents(current) \in SUBSET Sections
  BY DEF ReopeningInv, TypeOK, DirectDependents
<1>3. TypeOK'
  BY <1>1, <1>2 DEF ReopeningInv, TypeOK
<1>4. \A s \in (to_reopen \ queue)' : DirectDependents(s)' \subseteq to_reopen'
  <2> SUFFICES ASSUME NEW s \in (to_reopen \ queue)'
               PROVE  DirectDependents(s)' \subseteq to_reopen'
    OBVIOUS
  <2>1. s \in Sections /\ DirectDependents(s)' = DirectDependents(s)
    BY <1>1, <1>2, GraphStays
  <2>2. CASE s = current
    BY <2>1, <2>2, <1>1
  <2>3. CASE s # current
    BY <2>1, <2>3, <1>1 DEF ReopeningInv, Worklist
  <2> QED
    BY <2>2, <2>3
<1>5. ASSUME NEW S \in SUBSET Sections, target' \in S, Closed(S)'
      PROVE  to_reopen' \subseteq S
  <2>1. target \in S /\ Closed(S)
    BY <1>1, <1>5, GraphStays
  <2>2. to_reopen \subseteq S
    BY <2>1 DEF ReopeningInv, Worklist
  <2>3. DirectDependents(current) \subseteq S
    BY <2>1, <2>2, <1>2 DEF Closed
  <2> QED
    BY <2>2, <2>3, <1>1
<1>6. Worklist'
  BY <1>1, <1>4, <1>5 DEF ReopeningInv, Worklist
<1>7. RewrittenInOrder'
  BY <1>1, GraphStays DEF ReopeningInv, RewrittenInOrder
<1> QED
  BY <1>3, <1>6, <1>7 DEF ReopeningInv

\* The whole queue is still to rewrite.
LEMMA QueueKeepsInv == ASSUME ReopeningInv, Queue PROVE ReopeningInv'
<1>1. /\ pc = "closing" /\ pc' = "rewriting" /\ queue = {}
      /\ rework' = plan \cap to_reopen
      /\ UNCHANGED <<depend_de, plan, target, to_reopen, queue, stale>>
  BY DEF Queue, rework_queue
<1>2. TypeOK'
  BY <1>1 DEF ReopeningInv, TypeOK
<1>3. Worklist'
  BY <1>1, GraphStays DEF ReopeningInv, TypeOK, Worklist
<1>4. RewrittenInOrder'
  BY <1>1, GraphStays DEF ReopeningInv, Worklist, RewrittenInOrder
<1> QED
  BY <1>2, <1>3, <1>4 DEF ReopeningInv

\* What leans on the section just written is queued (the closure holds it and
\* the plan has it) and not written yet (it comes later in writing order).
LEMMA RewriteNextKeepsInv == ASSUME ReopeningInv, RewriteNext PROVE ReopeningInv'
<1>0. PICK s \in rework :
        /\ IsFirst(s, rework)
        /\ rework' = rework \ {s}
        /\ stale' = (stale \ {s}) \cup ((DirectDependents(s) \cap plan) \ {s})
  BY DEF RewriteNext
<1>1. /\ pc = "rewriting"
      /\ UNCHANGED <<depend_de, plan, target, to_reopen, queue, pc>>
  BY DEF RewriteNext
<1>2. /\ s \in Sections /\ s \in to_reopen /\ s \in plan /\ queue = {}
      /\ rework \in SUBSET Sections /\ plan \in SUBSET Sections
  BY <1>1 DEF ReopeningInv, TypeOK, Worklist, RewrittenInOrder
<1>3. TypeOK'
  BY <1>0, <1>1 DEF ReopeningInv, TypeOK
<1>4. Worklist'
  BY <1>1, GraphStays DEF ReopeningInv, TypeOK, Worklist
<1>5. ASSUME NEW t \in (to_reopen \cap plan) \ rework', NEW u \in rework'
      PROVE  t < u
  <2>1. CASE t = s
    <3>1. s <= u /\ s # u /\ s \in Nat /\ u \in Nat
      BY <1>0, <1>2 DEF IsFirst, Sections
    <3> QED
      BY <3>1, <2>1
  <2>2. CASE t # s
    BY <2>2, <1>0, <1>1 DEF ReopeningInv, RewrittenInOrder
  <2> QED
    BY <2>1, <2>2
<1>6. ASSUME WritingOrder
      PROVE  stale' \subseteq rework'
  <2> SUFFICES ASSUME NEW t \in stale', t # s
               PROVE  t \in rework
    BY <1>0
  <2>1. CASE t \in stale
    BY <2>1, <1>6 DEF ReopeningInv, RewrittenInOrder
  <2>2. CASE t \in DirectDependents(s) \cap plan
    <3>1. t \in to_reopen
      BY <2>2, <1>2 DEF ReopeningInv, Worklist
    <3>2. t \in Sections /\ s \in depend_de[t]
      BY <2>2 DEF DirectDependents
    <3>3. s < t /\ s \in Nat /\ t \in Nat
      BY <3>2, <1>2, <1>6 DEF WritingOrder, Sections
    <3>4. ASSUME t \notin rework
          PROVE  FALSE
      <4>1. t < s
        BY <3>1, <3>4, <2>2, <1>0, <1>1 DEF ReopeningInv, RewrittenInOrder
      <4> QED
        BY <4>1, <3>3
    <3> QED
      BY <3>4
  <2> QED
    BY <2>1, <2>2, <1>0
<1>7. RewrittenInOrder'
  <2>1. rework' \subseteq to_reopen'
    BY <1>0, <1>1 DEF ReopeningInv, RewrittenInOrder
  <2>2. WritingOrder' => stale' \subseteq rework'
    BY <1>1, <1>6, GraphStays
  <2> QED
    BY <2>1, <2>2, <1>1, <1>5 DEF RewrittenInOrder
<1> QED
  BY <1>3, <1>4, <1>7 DEF ReopeningInv

\* Nothing is left in the queue, and so no text leans on a changed one.
LEMMA EndKeepsInv == ASSUME ReopeningInv, End PROVE ReopeningInv'
<1>1. /\ pc = "rewriting" /\ rework = {} /\ pc' = "written" /\ target' = 0 /\ to_reopen' = {}
      /\ UNCHANGED <<depend_de, plan, queue, rework, stale>>
  BY DEF End
<1>2. queue = {}
  BY <1>1 DEF ReopeningInv, Worklist
<1>3. TypeOK'
  BY <1>1, <1>2 DEF ReopeningInv, TypeOK
<1>4. Worklist'
  BY <1>1, <1>2 DEF Worklist
<1>5. RewrittenInOrder'
  BY <1>1, GraphStays DEF ReopeningInv, RewrittenInOrder
<1> QED
  BY <1>3, <1>4, <1>5 DEF ReopeningInv

\* Closure, queue and rewriting agree in every state of every project.
THEOREM ReopeningInvariant == Spec => []ReopeningInv
<1>1. ReopeningInv /\ [Next]_vars => ReopeningInv'
  <2> SUFFICES ASSUME ReopeningInv, [Next]_vars
               PROVE  ReopeningInv'
    OBVIOUS
  <2>1. CASE UNCHANGED vars
    <3>1. TypeOK'
      BY <2>1 DEF vars, ReopeningInv, TypeOK
    <3>2. Worklist'
      BY <2>1, GraphStays DEF vars, ReopeningInv, TypeOK, Worklist
    <3>3. RewrittenInOrder'
      BY <2>1, GraphStays DEF vars, ReopeningInv, RewrittenInOrder
    <3> QED
      BY <3>1, <3>2, <3>3 DEF ReopeningInv
  <2> QED
    BY <2>1, CreateKeepsInv, ReopenKeepsInv, VisitKeepsInv, QueueKeepsInv,
       RewriteNextKeepsInv, EndKeepsInv DEF Next
<1> QED
  BY <1>1, InitInv, PTL DEF Spec

\* The types hold.
THEOREM ReopeningTypeCorrect == Spec => []TypeOK
<1>1. ReopeningInv => TypeOK
  BY DEF ReopeningInv
<1> QED
  BY <1>1, ReopeningInvariant, PTL

\* What depends on the target, directly or not, and nothing else, is reopened.
THEOREM LeastClosure == Spec => []ClosureIsLeast
<1>1. ReopeningInv => ClosureIsLeast
  BY DEF ReopeningInv, TypeOK, Worklist, ClosureIsLeast, Closed
<1> QED
  BY <1>1, ReopeningInvariant, PTL

\* A project at rest has no text that leans on one changed after it.
THEOREM UpToDate == Spec => []NothingLeansOnTheOld
<1>1. ReopeningInv => NothingLeansOnTheOld
  BY DEF ReopeningInv, Worklist, RewrittenInOrder, NothingLeansOnTheOld
<1> QED
  BY <1>1, ReopeningInvariant, PTL

(* -------------------------- a reopening ends ---------------------------- *)

\* The sections the loop has not looked at: those not reached, those queued.
ToVisit == (Sections \ to_reopen) \cup queue

\* How many steps the reopening has left, at most.
StepsLeft ==
  CASE pc = "closing"   -> Cardinality(ToVisit) + N + 2
    [] pc = "rewriting" -> Cardinality(rework) + 1
    [] OTHER            -> 0

\* Any set of sections is finite, and no larger than the catalogue.
LEMMA SectionsAreFew ==
  ASSUME NEW S \in SUBSET Sections
  PROVE  IsFiniteSet(S) /\ Cardinality(S) \in Nat /\ Cardinality(S) <= N
<1>1. IsFiniteSet(1..N) /\ Cardinality(1..N) = N
  BY FS_Interval, CatalogueAssumption
<1> QED
  BY <1>1, FS_Subset, FS_CardinalityType DEF Sections

\* A section is looked at once: what a visit queues was not reached before.
LEMMA VisitShrinks ==
  ASSUME TypeOK, Visit
  PROVE  \E s \in ToVisit : ToVisit' = ToVisit \ {s}
<1>1. PICK current \in queue :
        /\ to_reopen' = to_reopen \cup (DirectDependents(current) \ to_reopen)
        /\ queue' = (queue \ {current}) \cup (DirectDependents(current) \ to_reopen)
  BY DEF Visit
<1>2. current \in to_reopen /\ DirectDependents(current) \subseteq Sections
  BY DEF TypeOK, DirectDependents
<1> QED
  BY <1>1, <1>2 DEF ToVisit

\* Each step of the loop and of the run that follows it leaves fewer to come.
LEMMA StepDescends ==
  ASSUME TypeOK, TypeOK', Visit \/ Queue \/ RewriteNext \/ End
  PROVE  StepsLeft' < StepsLeft
<1>1. N \in Nat
  BY CatalogueAssumption
<1>2. ToVisit \in SUBSET Sections /\ rework \in SUBSET Sections /\ rework' \in SUBSET Sections
  BY DEF TypeOK, ToVisit
<1>3. CASE Visit
  <2>1. PICK s \in ToVisit : ToVisit' = ToVisit \ {s}
    BY <1>3, VisitShrinks
  <2>2. Cardinality(ToVisit') = Cardinality(ToVisit) - 1 /\ Cardinality(ToVisit) \in Nat
    BY <1>2, <2>1, SectionsAreFew, FS_RemoveElement
  <2>3. pc = "closing" /\ pc' = "closing"
    BY <1>3 DEF Visit
  <2> QED
    BY <1>1, <2>2, <2>3 DEF StepsLeft
<1>4. CASE Queue
  <2>1. pc = "closing" /\ pc' = "rewriting"
    BY <1>4 DEF Queue
  <2>2. Cardinality(ToVisit) \in Nat /\ Cardinality(rework') \in Nat /\ Cardinality(rework') <= N
    BY <1>2, SectionsAreFew
  <2> QED
    BY <1>1, <2>1, <2>2 DEF StepsLeft
<1>5. CASE RewriteNext
  <2>1. PICK s \in rework : rework' = rework \ {s}
    BY <1>5 DEF RewriteNext
  <2>2. Cardinality(rework') = Cardinality(rework) - 1 /\ Cardinality(rework) \in Nat
    BY <1>2, <2>1, SectionsAreFew, FS_RemoveElement
  <2>3. pc = "rewriting" /\ pc' = "rewriting"
    BY <1>5 DEF RewriteNext
  <2> QED
    BY <2>2, <2>3 DEF StepsLeft
<1>6. CASE End
  <2>1. pc = "rewriting" /\ pc' = "written" /\ Cardinality(rework) \in Nat
    BY <1>2, <1>6, SectionsAreFew DEF End
  <2> QED
    BY <2>1 DEF StepsLeft
<1> QED
  BY <1>3, <1>4, <1>5, <1>6

LEMMA StepsAreBounded == ASSUME TypeOK PROVE StepsLeft \in 0..(2 * N + 2)
<1>1. ToVisit \in SUBSET Sections /\ rework \in SUBSET Sections /\ N \in Nat
  BY CatalogueAssumption DEF TypeOK, ToVisit
<1>2. /\ Cardinality(ToVisit) \in Nat /\ Cardinality(ToVisit) <= N
      /\ Cardinality(rework) \in Nat /\ Cardinality(rework) <= N
  BY <1>1, SectionsAreFew
<1> QED
  BY <1>1, <1>2 DEF StepsLeft

\* Even on a cycle of dependencies the loop visits each section at most once,
\* and a reopening takes at most two steps for each section of the catalogue
\* and two more: what ReopeningEnds rests on (templates.py, next_rework).
ReopeningDescends == [][Visit \/ Queue \/ RewriteNext \/ End => StepsLeft' < StepsLeft]_vars

THEOREM NoEndlessReopening == Spec => [](StepsLeft \in 0..(2 * N + 2)) /\ ReopeningDescends
<1>1. TypeOK /\ TypeOK' /\ [Next]_vars =>
        [Visit \/ Queue \/ RewriteNext \/ End => StepsLeft' < StepsLeft]_vars
  BY StepDescends
<1> QED
  BY <1>1, StepsAreBounded, ReopeningTypeCorrect, PTL DEF Spec, ReopeningDescends
=============================================================================
