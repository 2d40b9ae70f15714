----------------------------- MODULE Templates ------------------------------
(***************************************************************************)
(* What a reopening rewrites: the plan a profile selects, the closure of   *)
(* the declared dependencies, the queue made of both, and its rewriting    *)
(* section by section.  A section is its place in writing order, the cdc   *)
(* first, then the bp, each by its `ordre`.                                *)
(***************************************************************************)
EXTENDS Naturals

CONSTANTS N,   \* sections of the two templates together
          Cdc  \* how many of them belong to the cdc

ASSUME CatalogueAssumption == N \in Nat /\ Cdc \in 0..N

Sections == 1..N
Document(s) == IF s <= Cdc THEN "cdc" ELSE "bp"

VARIABLES
  depend_de,  \* what the templates declare: any graph inside each document
  plan,       \* the sections of the project
  target,     \* the section the user reopens, 0 for none
  to_reopen, queue,  \* the loop of sections_depending_on
  rework,     \* the rewriting queue of the run
  stale,      \* sections whose text leans on a text changed since (history)
  pc

vars == <<depend_de, plan, target, to_reopen, queue, rework, stale, pc>>

Graphs == {g \in [Sections -> SUBSET Sections] :
             \A s \in Sections : \A d \in g[s] : Document(d) = Document(s)}

TypeOK ==
  /\ depend_de \in Graphs
  /\ plan \in SUBSET Sections /\ target \in {0} \cup plan
  /\ to_reopen \in SUBSET Sections /\ queue \in SUBSET to_reopen
  /\ rework \in SUBSET plan /\ stale \in SUBSET plan
  /\ pc \in {"new", "written", "closing", "rewriting"}

Init ==
  /\ depend_de \in Graphs
  /\ plan = {} /\ target = 0 /\ to_reopen = {} /\ queue = {}
  /\ rework = {} /\ stale = {} /\ pc = "new"

\* The sections of the documents asked for that name the chosen profile.
plan_for(documents, profile) == {s \in profile : Document(s) \in documents}

\* A project is created, for one document or both, and written once in full.
Create ==
  /\ pc = "new" /\ pc' = "written"
  /\ \E documents \in {{"cdc"}, {"bp"}, {"cdc", "bp"}}, profile \in SUBSET Sections :
       plan' = plan_for(documents, profile)
  /\ UNCHANGED <<depend_de, target, to_reopen, queue, rework, stale>>

\* The user reopens a section of the plan: the closure starts from it.
Reopen ==
  /\ pc = "written" /\ pc' = "closing"
  /\ target' \in plan
  /\ to_reopen' = {target'} /\ queue' = {target'}
  /\ UNCHANGED <<depend_de, plan, rework, stale>>

DirectDependents(s) == {t \in Sections : s \in depend_de[t]}

\* The dependents are reached, what depends on them is not looked for.
VisitMutant ==
  /\ pc = "closing"
  /\ \E current \in queue :
       /\ to_reopen' = to_reopen \cup DirectDependents(current)
       /\ queue' = queue \ {current}
  /\ UNCHANGED <<depend_de, plan, target, rework, stale, pc>>

\* A section is queued each time it is seen, reached before or not.
VisitAgainMutant ==
  /\ pc = "closing"
  /\ \E current \in queue :
       /\ to_reopen' = to_reopen \cup DirectDependents(current)
       /\ queue' = (queue \ {current}) \cup DirectDependents(current)
  /\ UNCHANGED <<depend_de, plan, target, rework, stale, pc>>

\* One turn of the `while`.  The code pops the last of a list; any order is
\* taken here.
Visit ==
  /\ pc = "closing"
  /\ \E current \in queue :
       LET fresh == DirectDependents(current) \ to_reopen
       IN /\ to_reopen' = to_reopen \cup fresh
          /\ queue' = (queue \ {current}) \cup fresh
  /\ UNCHANGED <<depend_de, plan, target, rework, stale, pc>>

\* The plan is not looked at.
rework_queueMutant(wanted) == wanted

\* Those wanted that the plan has.
rework_queue(wanted) == plan \cap wanted

\* The loop is over: the queue of the run.
Queue ==
  /\ pc = "closing" /\ queue = {}
  /\ rework' = rework_queue(to_reopen) /\ pc' = "rewriting"
  /\ UNCHANGED <<depend_de, plan, target, to_reopen, queue, stale>>

\* The last of the queue is taken.
IsFirstMutant(s, q) == \A t \in q : t <= s

IsFirst(s, q) == \A t \in q : s <= t

\* next_rework, then the section is written again, and no longer queued.
RewriteNext ==
  /\ pc = "rewriting"
  /\ \E s \in rework :
        /\ IsFirst(s, rework)
        /\ rework' = rework \ {s}
        /\ stale' = (stale \ {s}) \cup ((DirectDependents(s) \cap plan) \ {s})
  /\ UNCHANGED <<depend_de, plan, target, to_reopen, queue, pc>>

\* Nothing is queued any more: the run ends, another reopening may come.
End ==
  /\ pc = "rewriting" /\ rework = {}
  /\ pc' = "written" /\ target' = 0 /\ to_reopen' = {}
  /\ UNCHANGED <<depend_de, plan, queue, rework, stale>>

Next == Create \/ Reopen \/ Visit \/ Queue \/ RewriteNext \/ End

Spec == Init /\ [][Next]_vars

\* The loop is plain code and the run goes on; the user reopens or does not.
FairSpec == Spec /\ WF_vars(Visit \/ Queue \/ RewriteNext \/ End)

-----------------------------------------------------------------------------
(* Properties. *)

Closed(S) == \A s \in S : DirectDependents(s) \subseteq S

\* sections_depending_on returns the least set with the section and, for each
\* of its own, what depends on it: nothing more is rewritten, and nothing
\* less, whatever the order of the visit and even on a cycle.
ClosureIsLeast ==
  pc = "closing" /\ queue = {} =>
    /\ target \in to_reopen /\ Closed(to_reopen)
    /\ \A S \in SUBSET Sections : target \in S /\ Closed(S) => to_reopen \subseteq S

\* Each section is written after those it depends on.
WritingOrder == \A s \in Sections : \A d \in depend_de[s] : d < s

\* When templates number their sections in writing order, a reopening leaves
\* no section of the plan on a text that changed after it was written, also
\* when the profile leaves out a section in between.
NothingLeansOnTheOld == WritingOrder /\ pc = "written" => stale = {}

\* A reopening comes to its end, even on a cycle of dependencies.
ReopeningEnds == pc = "closing" ~> pc = "written"

-----------------------------------------------------------------------------
(* The inductive invariant. *)

\* What the closure has reached and what is left to look at.
Worklist ==
  /\ pc = "new" => plan = {}
  /\ pc \in {"new", "written"} => to_reopen = {} /\ queue = {} /\ rework = {}
  /\ pc = "closing" => target \in to_reopen /\ rework = {}
  /\ pc = "rewriting" => queue = {} /\ target \in to_reopen
  /\ \A s \in to_reopen \ queue : DirectDependents(s) \subseteq to_reopen
  /\ \A S \in SUBSET Sections : target \in S /\ Closed(S) => to_reopen \subseteq S

\* The sections of the queue are rewritten in writing order, and a text that
\* leans on a changed one is still to come.
RewrittenInOrder ==
  /\ pc = "rewriting" =>
       /\ rework \subseteq to_reopen
       /\ \A s \in (to_reopen \cap plan) \ rework : \A t \in rework : s < t
  /\ WritingOrder => stale \subseteq rework

ReopeningInv == TypeOK /\ Worklist /\ RewrittenInOrder
=============================================================================
