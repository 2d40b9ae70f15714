--------------------------- MODULE ReopeningProofs ---------------------------
(***************************************************************************)
(* What RunControl promises at rest: every task ends, no row is left       *)
(* `running`, no section is left to rewrite; and that what a task says of  *)
(* its end is what the row says.                                           *)
(*                                                                         *)
(* All but the first are false of two reopenings at once (RunReopenRace    *)
(* shows it).  They are proved here under a condition on the states met:   *)
(* that no run goes on behind a reopening, which is proved of a project    *)
(* whose requests come one at a time; or that no other request is handled  *)
(* while a reopening writes, whatever the runs do.                         *)
(***************************************************************************)
EXTENDS RunControlProofs, FiniteSetTheorems

\* No task is alive while a reopening that was let through writes its marks
\* and its status.
LaunchesAlone ==
  \A r \in Reopeners : hpc[r] \in {"mark", "status", "launch"} =>
    \A q \in Requests : ~Live(q)

\* From the moment a reopening has read `done`, no run goes on but the end of
\* the one that wrote it, which purges, or fails if its write went unacknowledged.
ReopensAtRest ==
  \A r \in Reopeners : hpc[r] \in InFlight /\ seen[r].row = "done" =>
    \A q \in Requests : Live(q) => tpc[q] \in {"purge", "toFailed"}

-----------------------------------------------------------------------------
(* What a step leaves alone. *)

\* A request moves itself, and starts its task only when no other is alive.
LEMMA RequestMoves ==
  ASSUME TypeOK, NEW r \in Requests, Arrival(r) \/ HandlerStep(r) \/ HandlerFault(r)
  PROVE  /\ up \/ hpc[r] \in InFlight
         /\ UNCHANGED <<up, said, crashes>>
         /\ \A q \in Requests \ {r} : hpc'[q] = hpc[q] /\ seen'[q] = seen[q] /\ input'[q] = input[q]
         /\ \A q \in Reopeners \ {r} : target'[q] = target[q]
         /\ \A q \in Answerers \ {r} : named'[q] = named[q]
         /\ \/ UNCHANGED <<tpc, input>>
            \/ /\ ~is_running
               /\ tpc' = [tpc EXCEPT ![r] = "begin"]
               /\ hpc'[r] = "started" /\ seen'[r] = Unread
<1> USE DEF database, thread, handlers, tasks, TypeOK, HandlerType, TaskType, Reply, Goto
<1>1. CASE Arrival(r)
  BY <1>1 DEF Arrival, InsertRow, ReceiveAnswer, ReceiveResume, ReceiveReopen, ReadRow, Requests
<1>2. CASE HandlerFault(r)
  BY <1>2 DEF HandlerFault, InFlight, Requests
<1>3. CASE HandlerStep(r)
  <2>1. hpc[r] \in InFlight /\ UNCHANGED <<up, said, crashes, target, named>>
    BY <1>3 DEF HandlerStep, StartCreated, ReadSnapshot, DecideAnswer, CheckResume, DecideResume,
                SaveFacts, LaunchResume, DecideReopen, MarkForReopening, SetReopenStatus,
                LaunchReopen, start_run, InFlight
  <2>2. \A q \in Requests \ {r} : hpc'[q] = hpc[q] /\ seen'[q] = seen[q] /\ input'[q] = input[q]
    BY <1>3 DEF HandlerStep, StartCreated, ReadSnapshot, DecideAnswer, CheckResume, DecideResume,
                SaveFacts, LaunchResume, DecideReopen, MarkForReopening, SetReopenStatus,
                LaunchReopen, start_run
  <2>3. \/ UNCHANGED <<tpc, input>>
        \/ /\ ~is_running
           /\ tpc' = [tpc EXCEPT ![r] = "begin"]
           /\ hpc'[r] = "started" /\ seen'[r] = Unread
    BY <1>3 DEF HandlerStep, StartCreated, ReadSnapshot, DecideAnswer, CheckResume, DecideResume,
                SaveFacts, LaunchResume, DecideReopen, MarkForReopening, SetReopenStatus,
                LaunchReopen, start_run
  <2> QED
    BY <2>1, <2>2, <2>3, RequestKinds DEF Requests
<1> QED
  BY <1>1, <1>2, <1>3

\* Only a reopening writes the row of a project that exists.
LEMMA OthersWriteNoRow ==
  ASSUME TypeOK, NEW r \in Requests \ Reopeners, Arrival(r) \/ HandlerStep(r) \/ HandlerFault(r)
  PROVE  /\ UNCHANGED sections
         /\ run_status' = run_status \/ run_status' = "idle"
  BY DEF Arrival, InsertRow, ReceiveAnswer, ReceiveResume, HandlerFault, HandlerStep, StartCreated,
         ReadSnapshot, DecideAnswer, CheckResume, DecideResume, SaveFacts, LaunchResume, database

\* What a reopening does.
LEMMA ReopenerMoves ==
  ASSUME NEW r \in Reopeners, Arrival(r) \/ HandlerStep(r) \/ HandlerFault(r)
  PROVE  \/ ReceiveReopen(r) \/ ReadSnapshot(r) \/ DecideReopen(r) \/ MarkForReopening(r)
         \/ SetReopenStatus(r) \/ LaunchReopen(r) \/ HandlerFault(r)
  BY RequestKinds DEF Arrival, HandlerStep, Requests

\* A step of a task is its own.
LEMMA TaskMoves ==
  ASSUME TypeOK, NEW r \in Requests, TaskStep(r) \/ TaskFault(r)
  PROVE  /\ UNCHANGED <<up, crashes, input>>
         /\ tpc[r] \in LivePcs \cup {"ended"}
         /\ \A q \in Requests \ {r} : said'[q] = said[q]
         /\ tpc'[r] # "begin"
  BY DEF TaskStep, WriteRunning, InvokeState, InvokeNothing, InvokeResume,
         Interrupt, SaveRow, CommitSave, Finish, Settle, WriteWaiting, PublishInteraction,
         WriteDone, PurgeThenPublishDone, WriteFailed, TaskFault, RunningFault, RunFault,
         WriteFailedFault, Forget, LivePcs, At, Move, Publish, tasks, TypeOK, TaskType

-----------------------------------------------------------------------------
(* What is announced is written. *)

\* The row says what the task is about to publish.
RowSaysFirst ==
  \A r \in Requests : /\ tpc[r] = "pubInteraction" => run_status = "waiting"
                      /\ tpc[r] = "purge" => run_status = "done"

\* Only a reopening could write the row between the write of the task that
\* ends and its publication.
LEMMA RowSaysStep == RunInv /\ LaunchesAlone /\ RowSaysFirst /\ [Next]_vars => RowSaysFirst'
<1> SUFFICES ASSUME RunInv, LaunchesAlone, RowSaysFirst, [Next]_vars PROVE RowSaysFirst'
  OBVIOUS
<1> USE DEF RunInv, TypeOK, TaskType, RowSaysFirst
<1>1. ASSUME NEW r \in Requests, Arrival(r) \/ HandlerStep(r) \/ HandlerFault(r)
      PROVE  RowSaysFirst'
  <2>1. \A q \in Requests : tpc'[q] = tpc[q] \/ tpc'[q] = "begin"
    BY <1>1, RequestFrame
  <2>2. CASE r \notin Reopeners
    <3>1. run_status' = run_status \/ run_status = "absent"
      BY <1>1, <2>2 DEF Arrival, InsertRow, ReceiveAnswer, ReceiveResume, HandlerFault, HandlerStep,
           StartCreated, ReadSnapshot, DecideAnswer, CheckResume, DecideResume, SaveFacts,
           LaunchResume, database
    <3> QED
      BY <2>1, <3>1
  <2>3. CASE r \in Reopeners
    <3>1. run_status' # run_status => hpc[r] = "status"
      BY <1>1, <2>3, ReopenerMoves, RequestKinds DEF ReceiveReopen, ReadSnapshot, DecideReopen,
         MarkForReopening, SetReopenStatus, LaunchReopen, HandlerFault, database
    <3>2. hpc[r] = "status" => \A q \in Requests : tpc[q] \notin {"pubInteraction", "purge"}
      BY <2>3 DEF LaunchesAlone, Live, LivePcs
    <3> QED
      BY <2>1, <3>1, <3>2
  <2> QED
    BY <2>2, <2>3
<1>2. ASSUME NEW r \in Requests, TaskStep(r) \/ TaskFault(r)
      PROVE  RowSaysFirst'
  <2>1. CASE Forget(r)
    BY <2>1 DEF Forget, Move, database
  <2>2. CASE ~Forget(r)
    <3>1. \A q \in Requests \ {r} : tpc'[q] \notin {"pubInteraction", "purge"}
      BY <1>2, <2>2, TaskFrame DEF Live, LivePcs
    <3>2. /\ tpc'[r] = "pubInteraction" => run_status' = "waiting"
          /\ tpc'[r] = "purge" => run_status' = "done"
      BY <1>2, <2>2 DEF TaskStep, WriteRunning, InvokeState, InvokeNothing, InvokeResume,
         Interrupt, SaveRow, CommitSave, Finish, Settle, WriteWaiting, PublishInteraction,
         WriteDone, PurgeThenPublishDone, WriteFailed, TaskFault, RunningFault, RunFault,
         WriteFailedFault, Move, Publish, At
    <3> QED
      BY <3>1, <3>2
  <2> QED
    BY <2>1, <2>2
<1>3. CASE Stop
  BY <1>3 DEF Stop, LivePcs
<1>4. CASE Restart
  <2>1. run_status' # run_status => run_status = "running"
    BY <1>4 DEF Restart
  <2> QED
    BY <1>4, <2>1 DEF Restart, tasks
<1>5. CASE RestartUnreconciled \/ UNCHANGED vars
  BY <1>5 DEF RestartUnreconciled, vars, database, tasks
<1> QED
  BY <1>1, <1>2, <1>3, <1>4, <1>5 DEF Next

\* A task alone publishes.
LEMMA WhoPublishes ==
  ASSUME TypeOK, [Next]_vars, NEW r \in Requests, said'[r] # said[r],
         said'[r] \in {"interaction", "done"}
  PROVE  \/ tpc[r] = "pubInteraction" /\ said'[r] = "interaction"
         \/ tpc[r] = "purge" /\ said'[r] = "done"
<1>1. PICK q \in Requests : TaskStep(q) \/ TaskFault(q)
  BY RequestMoves DEF Next, Stop, Restart, RestartUnreconciled, vars, tasks
<1>2. q = r
  BY <1>1, TaskMoves
<1> QED
  BY <1>1, <1>2 DEF TypeOK, TaskType, TaskStep, WriteRunning, InvokeState, InvokeNothing,
     InvokeResume, Interrupt, SaveRow, CommitSave, Finish, Settle, WriteWaiting,
     PublishInteraction, WriteDone, PurgeThenPublishDone, WriteFailed, Forget, TaskFault,
     RunningFault, RunFault, WriteFailedFault, At, Move, Publish, tasks

\* Whatever answers, resumes, failures and stops race with it, a task that
\* publishes a question or the end finds the row and the thread saying so, if no
\* reopening is writing meanwhile.
THEOREM AnnouncedIsTrue == Spec /\ []LaunchesAlone => AnnouncedAsWritten
<1> DEFINE Told == \A r \in Requests : said'[r] # said[r] =>
       /\ said'[r] = "interaction" => run_status = "waiting" /\ phase = "interrupted"
       /\ said'[r] = "done" => run_status = "done" /\ phase = "finished"
<1>1. RunInv /\ RowSaysFirst /\ [Next]_vars => [Told]_vars
  <2> SUFFICES ASSUME RunInv, RowSaysFirst, [Next]_vars PROVE Told
    OBVIOUS
  <2> SUFFICES ASSUME NEW r \in Requests, said'[r] # said[r]
               PROVE  /\ said'[r] = "interaction" => run_status = "waiting" /\ phase = "interrupted"
                      /\ said'[r] = "done" => run_status = "done" /\ phase = "finished"
    OBVIOUS
  <2> QED
    BY WhoPublishes DEF RunInv, RowSaysFirst, StatusTellsThread
<1>2. Init => RowSaysFirst
  BY DEF Init, RowSaysFirst
<1> QED
  BY <1>1, <1>2, RowSaysStep, RunInvariant, PTL DEF Spec, AnnouncedAsWritten

-----------------------------------------------------------------------------
(* Every task ends. *)

\* How many steps of its own the task of a request has left, at most.
StepsLeft(r) ==
  CASE tpc[r] = "begin"  -> 2 * Cardinality(Sections) + 9
    [] tpc[r] = "invoke" -> 2 * Cardinality(Sections) + 8
    [] tpc[r] = "graph"  -> 2 * Cardinality(todo) + 7
    [] tpc[r] = "commit" -> 2 * Cardinality(todo) + 6
    [] tpc[r] = "settle" -> 5
    [] tpc[r] \in {"toWaiting", "toDone"} -> 4
    [] tpc[r] = "toFailed" -> 3
    [] tpc[r] \in {"pubInteraction", "purge"} -> 2
    [] tpc[r] = "ended" -> 1
    [] OTHER -> 0

\* The section being saved is one the graph still has to save.
SavingIsQueued == \A r \in Requests : tpc[r] = "commit" => saving[r] \in todo

\* A request that started its task was answered: it starts no other.
StartedOnce == \A r \in Requests : tpc[r] # "none" => hpc[r] = "started"

EndingInv == RunInv /\ SavingIsQueued /\ StartedOnce

\* Only a request that has not been answered moves.
LEMMA RequestIsOpen ==
  ASSUME NEW r \in Requests, Arrival(r) \/ HandlerStep(r) \/ HandlerFault(r)
  PROVE  hpc[r] \in {"new"} \cup InFlight
  BY DEF Arrival, InsertRow, ReceiveAnswer, ReceiveResume, ReceiveReopen, ReadRow, HandlerFault,
         HandlerStep, StartCreated, ReadSnapshot, DecideAnswer, CheckResume, DecideResume,
         SaveFacts, LaunchResume, DecideReopen, MarkForReopening, SetReopenStatus, LaunchReopen,
         InFlight

\* So a request leaves every task that exists where it is.
LEMMA RequestKeepsTasks ==
  ASSUME TypeOK, StartedOnce, NEW r \in Requests, Arrival(r) \/ HandlerStep(r) \/ HandlerFault(r)
  PROVE  \A q \in Requests : tpc[q] # "none" => tpc'[q] = tpc[q] /\ hpc'[q] = hpc[q]
<1>1. tpc[r] = "none"
  BY RequestIsOpen DEF StartedOnce, InFlight
<1>2. tpc' = tpc \/ tpc' = [tpc EXCEPT ![r] = "begin"]
  BY RequestMoves
<1> QED
  BY <1>1, <1>2, RequestMoves DEF TypeOK, TaskType

\* The thread is moved by the task that saves, and by no other.
LEMMA EndingStep == EndingInv /\ [Next]_vars => SavingIsQueued' /\ StartedOnce'
<1> SUFFICES ASSUME EndingInv, [Next]_vars PROVE SavingIsQueued' /\ StartedOnce'
  OBVIOUS
<1> USE DEF EndingInv, RunInv, SavingIsQueued, StartedOnce
<1>1. ASSUME NEW r \in Requests, Arrival(r) \/ HandlerStep(r) \/ HandlerFault(r)
      PROVE  SavingIsQueued' /\ StartedOnce'
  <2>1. UNCHANGED <<thread, saving>> /\ \A q \in Requests : tpc'[q] = tpc[q] \/ tpc'[q] = "begin"
    BY <1>1, RequestFrame
  <2>2. \A q \in Requests : tpc[q] # "none" => hpc'[q] = hpc[q]
    BY <1>1, RequestKeepsTasks
  <2>3. \A q \in Requests : tpc[q] = "none" /\ tpc'[q] # "none" => hpc'[q] = "started"
    BY <1>1, RequestMoves DEF TypeOK, TaskType
  <2> QED
    BY <2>1, <2>2, <2>3 DEF thread
<1>2. ASSUME NEW r \in Requests, TaskStep(r) \/ TaskFault(r)
      PROVE  SavingIsQueued' /\ StartedOnce'
  <2>1. StartedOnce'
    <3>1. UNCHANGED hpc /\ \A q \in Requests \ {r} : tpc'[q] = tpc[q]
      BY <1>2, TaskFrame DEF handlers
    <3>2. tpc[r] # "none"
      BY <1>2, TaskMoves DEF LivePcs
    <3> QED
      BY <3>1, <3>2
  <2>2. \A q \in Requests \ {r} : tpc'[q] = "commit" => saving'[q] \in todo'
    <3>1. CASE Forget(r)
      BY <3>1 DEF Forget, Move, thread, TypeOK, TaskType
    <3>2. CASE ~Forget(r)
      BY <1>2, <3>2, TaskFrame DEF Live, LivePcs
    <3> QED
      BY <3>1, <3>2
  <2>3. tpc'[r] = "commit" => saving'[r] \in todo'
    <3>1. CASE SaveRow(r)
      BY <3>1 DEF SaveRow, thread, TypeOK, TaskType
    <3>2. CASE ~SaveRow(r)
      BY <1>2, <3>2 DEF TaskStep, WriteRunning, InvokeState, InvokeNothing, InvokeResume,
         Interrupt, CommitSave, Finish, Settle, WriteWaiting, PublishInteraction, WriteDone,
         PurgeThenPublishDone, WriteFailed, TaskFault, RunningFault, RunFault,
         WriteFailedFault, Forget, Move, Publish, TypeOK, TaskType
    <3> QED
      BY <3>1, <3>2
  <2> QED
    BY <2>1, <2>2, <2>3
<1>3. CASE Stop
  BY <1>3 DEF Stop, LivePcs, InFlight, TypeOK, TaskType
<1>4. CASE Restart \/ RestartUnreconciled \/ UNCHANGED vars
  BY <1>4 DEF Restart, RestartUnreconciled, vars, thread, handlers, tasks
<1> QED
  BY <1>1, <1>2, <1>3, <1>4 DEF Next

\* What is left to save is finite, and no more than the plan.
LEMMA PlanIsFinite ==
  ASSUME IsFiniteSet(Sections), NEW S \in SUBSET Sections
  PROVE  IsFiniteSet(S) /\ Cardinality(S) \in Nat /\ Cardinality(S) <= Cardinality(Sections)
  BY FS_Subset, FS_CardinalityType

LEMMA OneLess ==
  ASSUME NEW S, IsFiniteSet(S), NEW x \in S
  PROVE  Cardinality(S \ {x}) = Cardinality(S) - 1
  BY FS_RemoveElement

\* A task that moves has fewer steps left.
LEMMA TaskDescends ==
  ASSUME IsFiniteSet(Sections), EndingInv, NEW r \in Requests, TaskStep(r) \/ TaskFault(r)
  PROVE  StepsLeft(r)' \in Nat /\ StepsLeft(r)' < StepsLeft(r)
<1> USE DEF EndingInv, RunInv, TypeOK, TaskType, ThreadType, At, Move, Publish
<1>1. Cardinality(Sections) \in Nat /\ Cardinality(todo) \in Nat
      /\ Cardinality(todo) <= Cardinality(Sections)
  BY PlanIsFinite
<1>2. CASE WriteRunning(r) \/ RunningFault(r)
  BY <1>1, <1>2 DEF WriteRunning, RunningFault, StepsLeft
<1>3. CASE InvokeState(r) \/ InvokeNothing(r) \/ InvokeResume(r)
  <2>1. todo' \in SUBSET Sections
    BY <1>3, PlanClosure DEF InvokeState, InvokeNothing, InvokeResume, thread, InputKinds, HandlerType
  <2>2. Cardinality(todo') \in Nat /\ Cardinality(todo') <= Cardinality(Sections)
    BY <2>1, PlanIsFinite
  <2>3. tpc[r] = "invoke" /\ tpc'[r] \in {"graph", "settle"}
    BY <1>3 DEF InvokeState, InvokeNothing, InvokeResume
  <2> QED
    BY <1>1, <2>2, <2>3 DEF StepsLeft
<1>4. CASE Interrupt(r) \/ Finish(r)
  BY <1>1, <1>4 DEF Interrupt, Finish, StepsLeft
<1>5. CASE SaveRow(r)
  BY <1>1, <1>5 DEF SaveRow, thread, StepsLeft
<1>6. CASE CommitSave(r)
  <2>1. saving[r] \in todo /\ todo' = todo \ {saving[r]} /\ IsFiniteSet(todo)
    BY <1>6, PlanIsFinite DEF CommitSave, SavingIsQueued
  <2>2. Cardinality(todo') = Cardinality(todo) - 1
    BY <2>1, OneLess
  <2>3. tpc[r] = "commit" /\ tpc'[r] = "graph"
    BY <1>6 DEF CommitSave
  <2> QED
    BY <1>1, <2>2, <2>3 DEF StepsLeft
<1>7. CASE RunFault(r)
  <2>1. tpc'[r] = "toFailed"
    BY <1>7 DEF RunFault
  <2> QED
    BY <1>1, <1>7, <2>1 DEF RunFault, StepsLeft
<1>8. CASE Settle(r) \/ WriteWaiting(r) \/ PublishInteraction(r) \/ WriteDone(r)
           \/ PurgeThenPublishDone(r) \/ WriteFailed(r) \/ WriteFailedFault(r) \/ Forget(r)
  BY <1>8 DEF Settle, WriteWaiting, PublishInteraction, WriteDone, PurgeThenPublishDone,
     WriteFailed, WriteFailedFault, Forget, StepsLeft
<1> QED
  BY <1>2, <1>3, <1>4, <1>5, <1>6, <1>7, <1>8 DEF TaskStep, TaskFault

\* A task that another step moves has no more of them.
LEMMA NobodyAddsSteps ==
  ASSUME IsFiniteSet(Sections), EndingInv, [Next]_vars, NEW q \in Requests, tpc[q] # "none"
  PROVE  StepsLeft(q)' <= StepsLeft(q)
<1> USE DEF EndingInv, RunInv, TypeOK, TaskType, ThreadType
<1>1. StepsLeft(q) \in Nat /\ Cardinality(todo) \in Nat
  BY PlanIsFinite DEF StepsLeft
<1>2. CASE tpc'[q] = tpc[q] /\ UNCHANGED todo
  BY <1>1, <1>2 DEF StepsLeft
<1>3. ASSUME NEW r \in Requests, Arrival(r) \/ HandlerStep(r) \/ HandlerFault(r)
      PROVE  StepsLeft(q)' <= StepsLeft(q)
  BY <1>2, <1>3, RequestFrame, RequestKeepsTasks DEF thread
<1>4. ASSUME NEW r \in Requests \ {q}, TaskStep(r) \/ TaskFault(r)
      PROVE  StepsLeft(q)' <= StepsLeft(q)
  <2>1. tpc'[q] = tpc[q]
    BY <1>4, TaskFrame
  <2>2. CASE Forget(r)
    BY <1>2, <2>1, <2>2 DEF Forget, thread
  <2>3. CASE ~Forget(r)
    <3>1. tpc[q] \notin LivePcs
      BY <1>4, <2>3, TaskFrame DEF Live
    <3> QED
      BY <2>1, <3>1 DEF StepsLeft, LivePcs
  <2> QED
    BY <2>2, <2>3
<1>5. CASE TaskStep(q) \/ TaskFault(q)
  BY <1>1, <1>5, TaskDescends
<1>6. CASE Stop
  <2>1. tpc'[q] \in {"killed", "forgotten"}
    BY <1>6 DEF Stop, TaskPcs
  <2> QED
    BY <1>1, <2>1 DEF StepsLeft
<1>7. CASE Restart \/ RestartUnreconciled \/ UNCHANGED vars
  BY <1>2, <1>7 DEF Restart, RestartUnreconciled, vars, thread, tasks
<1> QED
  BY <1>3, <1>4, <1>5, <1>6, <1>7 DEF Next

LEMMA StepsAreBounded ==
  ASSUME IsFiniteSet(Sections), TypeOK, NEW r \in Requests
  PROVE  StepsLeft(r) \in 0..(2 * Cardinality(Sections) + 9)
<1>1. Cardinality(Sections) \in Nat /\ Cardinality(todo) \in Nat
      /\ Cardinality(todo) <= Cardinality(Sections)
  BY PlanIsFinite DEF TypeOK, ThreadType
<1> QED
  BY <1>1 DEF StepsLeft

\* A run takes at most two steps for each section of the plan and nine more,
\* failures included, and nothing that races with it gives it any more to do:
\* what RunSettles rests on (runner.py, advance).
RunDescends ==
  [][\A r \in Requests : tpc[r] # "none" =>
       /\ StepsLeft(r)' <= StepsLeft(r)
       /\ (TaskStep(r) \/ TaskFault(r)) => StepsLeft(r)' < StepsLeft(r)]_vars

THEOREM NoEndlessTask ==
  ASSUME IsFiniteSet(Sections)
  PROVE  Spec => /\ [](\A r \in Requests : StepsLeft(r) \in 0..(2 * Cardinality(Sections) + 9))
                 /\ RunDescends
<1>1. Init => SavingIsQueued /\ StartedOnce
  BY DEF Init, SavingIsQueued, StartedOnce
<1>2. EndingInv /\ [Next]_vars => SavingIsQueued' /\ StartedOnce'
  BY EndingStep
<1>3. RunInv => \A r \in Requests : StepsLeft(r) \in 0..(2 * Cardinality(Sections) + 9)
  BY StepsAreBounded DEF RunInv
<1>4. EndingInv /\ [Next]_vars =>
        [\A r \in Requests : tpc[r] # "none" =>
           /\ StepsLeft(r)' <= StepsLeft(r)
           /\ (TaskStep(r) \/ TaskFault(r)) => StepsLeft(r)' < StepsLeft(r)]_vars
  BY NobodyAddsSteps, TaskDescends
<1> QED
  BY <1>1, <1>2, <1>3, <1>4, RunInvariant, PTL DEF Spec, EndingInv, RunDescends

-----------------------------------------------------------------------------
(* No row is left `running`. *)

\* A task on its way to a status at rest.
Driving(r) == tpc[r] \in {"begin", "invoke", "graph", "commit", "settle", "toWaiting", "toDone"}

\* A process that is down has neither task nor handler.
DownIsIdle == ~up => \A r \in Requests : ~Live(r) /\ hpc[r] \notin InFlight

\* As long as nothing failed, a row says `running` because a task drives the
\* thread or because a reopening is about to start one.
RunningHasDriver ==
  faults = 0 /\ up /\ run_status = "running" =>
    \/ \E r \in Requests : Driving(r)
    \/ \E r \in Reopeners : hpc[r] = "launch"

\* Requests arrive at a process that is up.
LEMMA DownStep == TypeOK /\ DownIsIdle /\ [Next]_vars => DownIsIdle'
<1> SUFFICES ASSUME TypeOK, DownIsIdle, [Next]_vars PROVE DownIsIdle'
  OBVIOUS
<1> USE DEF DownIsIdle, handlers, tasks
<1>1. ASSUME NEW r \in Requests, Arrival(r) \/ HandlerStep(r) \/ HandlerFault(r)
      PROVE  DownIsIdle'
  BY <1>1, RequestMoves
<1>2. ASSUME NEW r \in Requests, TaskStep(r) \/ TaskFault(r)
      PROVE  DownIsIdle'
  <2>1. CASE up
    BY <1>2, <2>1, TaskMoves
  <2>2. CASE ~up
    <3>1. tpc[r] = "ended" /\ UNCHANGED up
      BY <1>2, <2>2, TaskMoves DEF Live
    <3>2. Forget(r)
      BY <1>2, <3>1 DEF TaskStep, WriteRunning, InvokeState, InvokeNothing, InvokeResume,
         Interrupt, SaveRow, CommitSave, Finish, Settle, WriteWaiting, PublishInteraction,
         WriteDone, PurgeThenPublishDone, WriteFailed, TaskFault, RunningFault, RunFault,
         WriteFailedFault, At
    <3> QED
      BY <2>2, <3>1, <3>2 DEF Forget, Move, Live, LivePcs, TypeOK, TaskType
  <2> QED
    BY <2>1, <2>2
<1>3. CASE Stop
  BY <1>3 DEF Stop, Live, LivePcs, InFlight
<1>4. CASE Restart \/ RestartUnreconciled
  BY <1>4 DEF Restart, RestartUnreconciled
<1>5. CASE UNCHANGED vars
  BY <1>5 DEF vars, Live
<1> QED
  BY <1>1, <1>2, <1>3, <1>4, <1>5 DEF Next

\* A task about to write `failed` met an exception.
OnlyFaultsFail == \A r \in Requests : tpc[r] = "toFailed" => faults > 0

LEMMA FaultsStep == TypeOK /\ OnlyFaultsFail /\ [Next]_vars => OnlyFaultsFail'
<1> SUFFICES ASSUME TypeOK, OnlyFaultsFail, [Next]_vars PROVE OnlyFaultsFail'
  OBVIOUS
<1> USE DEF TypeOK, ProcessType, TaskType, OnlyFaultsFail
<1>1. ASSUME NEW r \in Requests, Arrival(r) \/ HandlerStep(r) \/ HandlerFault(r)
      PROVE  OnlyFaultsFail'
  <2>1. faults' = faults \/ faults' = faults + 1
    BY <1>1 DEF Arrival, InsertRow, ReceiveAnswer, ReceiveResume, ReceiveReopen, HandlerFault,
                HandlerStep, StartCreated, ReadSnapshot, DecideAnswer, CheckResume, DecideResume,
                SaveFacts, LaunchResume, DecideReopen, MarkForReopening, SetReopenStatus, LaunchReopen
  <2>2. faults > 0 => faults' > 0
    BY <2>1, Bounds
  <2>3. tpc' = tpc \/ tpc' = [tpc EXCEPT ![r] = "begin"]
    BY <1>1, RequestMoves
  <2> QED
    BY <2>2, <2>3
<1>2. ASSUME NEW r \in Requests, TaskStep(r)
      PROVE  OnlyFaultsFail'
  BY <1>2 DEF TaskStep, WriteRunning, InvokeState, InvokeNothing, InvokeResume,
         Interrupt, SaveRow, CommitSave, Finish, Settle, WriteWaiting, PublishInteraction,
         WriteDone, PurgeThenPublishDone, WriteFailed, Forget, At, Move, Publish, tasks
<1>3. ASSUME NEW r \in Requests, TaskFault(r)
      PROVE  OnlyFaultsFail'
  BY <1>3, Bounds DEF TaskFault, RunningFault, RunFault, WriteFailedFault, At, Move, tasks
<1>4. CASE Stop
  BY <1>4 DEF Stop
<1>5. CASE Restart \/ RestartUnreconciled
  BY <1>5, Bounds DEF Restart, RestartUnreconciled, tasks
<1>6. CASE UNCHANGED vars
  BY <1>6 DEF vars, tasks
<1> QED
  BY <1>1, <1>2, <1>3, <1>4, <1>5, <1>6 DEF Next

\* A request that finds the row `running` leaves somebody to end it: a task
\* that drives goes on, and a reopening that is alone starts one.
LEMMA RequestKeepsDriver ==
  ASSUME TypeOK, EntryIsTheLiveTask, LaunchesAlone, RunningHasDriver, NEW r \in Requests,
         Arrival(r) \/ HandlerStep(r) \/ HandlerFault(r), faults' = 0
  PROVE  RunningHasDriver'
<1> USE DEF TypeOK, ProcessType, HandlerType, TaskType
<1>0. faults = 0 /\ ~HandlerFault(r)
  <2>1. ~HandlerFault(r)
    BY Bounds DEF HandlerFault
  <2> QED
    BY <2>1 DEF Arrival, InsertRow, ReceiveAnswer, ReceiveResume, ReceiveReopen,
                HandlerStep, StartCreated, ReadSnapshot, DecideAnswer, CheckResume, DecideResume,
                SaveFacts, LaunchResume, DecideReopen, MarkForReopening, SetReopenStatus, LaunchReopen
<1>1. SUFFICES ASSUME up, run_status' = "running"
               PROVE  (\E q \in Requests : Driving(q)') \/ (\E q \in Reopeners : hpc'[q] = "launch")
  BY RequestMoves DEF RunningHasDriver
<1>2. CASE run_status = "running" /\ \E q \in Requests : Driving(q)
  <2>1. PICK q \in Requests : Driving(q)
    BY <1>2
  <2>2. tpc'[q] = tpc[q] \/ tpc'[q] = "begin"
    BY RequestFrame
  <2> QED
    BY <2>1, <2>2 DEF Driving
<1>3. CASE run_status = "running" /\ \E q \in Reopeners : hpc[q] = "launch"
  <2>1. PICK q \in Reopeners : hpc[q] = "launch"
    BY <1>3
  <2>2. CASE q = r
    <3>1. LaunchReopen(r)
      BY <1>0, <2>1, <2>2, ReopenerMoves
         DEF ReceiveReopen, ReadRow, ReadSnapshot, DecideReopen, MarkForReopening, SetReopenStatus
    <3>2. ~is_running
      BY <2>1, RequestKinds DEF LaunchesAlone, is_running
    <3>3. tpc' = [tpc EXCEPT ![r] = "begin"]
      BY <3>1, <3>2 DEF LaunchReopen, start_run
    <3> QED
      BY <3>3 DEF Driving
  <2>3. CASE q # r
    <3>1. hpc'[q] = "launch"
      BY <2>1, <2>3, RequestMoves DEF Requests
    <3> QED
      BY <3>1
  <2> QED
    BY <2>2, <2>3
<1>4. CASE run_status # "running"
  <2>1. r \in Reopeners
    BY <1>1, <1>4, OthersWriteNoRow
  <2>2. SetReopenStatus(r)
    BY <1>0, <1>1, <1>4, <2>1, ReopenerMoves
       DEF ReceiveReopen, ReadSnapshot, DecideReopen, MarkForReopening, LaunchReopen, database
  <2>3. hpc'[r] = "launch"
    BY <2>2 DEF SetReopenStatus, Goto
  <2> QED
    BY <2>1, <2>3
<1> QED
  BY <1>0, <1>1, <1>2, <1>3, <1>4 DEF RunningHasDriver

\* A task that stops driving has written the status at rest.
LEMMA TaskKeepsDriving ==
  ASSUME TypeOK, OnlyFaultsFail, EntryIsTheLiveTask, RunningHasDriver, NEW r \in Requests,
         TaskStep(r) \/ TaskFault(r), faults' = 0
  PROVE  RunningHasDriver'
<1> USE DEF TypeOK, ProcessType, TaskType
<1>1. faults = 0 /\ TaskStep(r) /\ tpc[r] # "toFailed"
  <2>1. ~RunningFault(r) /\ ~RunFault(r)
    BY Bounds DEF RunningFault, RunFault
  <2>2. UNCHANGED faults
    BY <2>1 DEF TaskFault, TaskStep, WriteRunning, InvokeState, InvokeNothing, InvokeResume,
         Interrupt, SaveRow, CommitSave, Finish, Settle, WriteWaiting, PublishInteraction,
         WriteDone, PurgeThenPublishDone, WriteFailed, WriteFailedFault, Forget
  <2>3. tpc[r] # "toFailed"
    BY <2>2, Bounds DEF OnlyFaultsFail
  <2> QED
    BY <2>1, <2>2, <2>3 DEF TaskFault, WriteFailedFault, At
<1>2. SUFFICES ASSUME up, run_status' = "running"
               PROVE  (\E q \in Requests : Driving(q)') \/ (\E q \in Reopeners : hpc'[q] = "launch")
  BY TaskMoves DEF RunningHasDriver
<1>3. CASE Driving(r)
  <2>1. Driving(r)'
    BY <1>1, <1>2, <1>3 DEF Driving, TaskStep, WriteRunning, InvokeState, InvokeNothing, InvokeResume,
         Interrupt, SaveRow, CommitSave, Finish, Settle, WriteWaiting, PublishInteraction,
         WriteDone, PurgeThenPublishDone, WriteFailed, Forget, At, Move
  <2> QED
    BY <2>1
<1>4. CASE ~Driving(r)
  <2>1. run_status = "running"
    BY <1>1, <1>2, <1>4 DEF Driving, TaskStep, WriteRunning, InvokeState, InvokeNothing, InvokeResume,
         Interrupt, SaveRow, CommitSave, Finish, Settle, WriteWaiting, PublishInteraction,
         WriteDone, PurgeThenPublishDone, WriteFailed, Forget, At, database
  <2>2. (\E q \in Requests \ {r} : Driving(q)) \/ (\E q \in Reopeners : hpc[q] = "launch")
    BY <1>1, <1>2, <1>4, <2>1 DEF RunningHasDriver
  <2>3. UNCHANGED hpc /\ \A q \in Requests \ {r} : tpc'[q] = tpc[q]
    BY TaskFrame DEF handlers
  <2> QED
    BY <2>2, <2>3 DEF Driving
<1> QED
  BY <1>3, <1>4

\* A restart reconciles the row.
LEMMA RunningStep ==
  ASSUME RunInv, OnlyFaultsFail, DownIsIdle, LaunchesAlone, RunningHasDriver, [Next]_vars
  PROVE  RunningHasDriver'
<1> USE DEF RunInv
<1>1. SUFFICES ASSUME faults' = 0 PROVE RunningHasDriver'
  BY DEF RunningHasDriver
<1>2. CASE Stop
  BY <1>2 DEF Stop, RunningHasDriver
<1>3. CASE Restart
  <2>1. ~is_running
    BY <1>3, RequestKinds DEF Restart, DownIsIdle, is_running, TypeOK, ProcessType
  <2> QED
    BY <1>3, <2>1 DEF Restart, RunningHasDriver
<1>4. CASE RestartUnreconciled
  BY <1>1, <1>4, Bounds DEF RestartUnreconciled, TypeOK, ProcessType
<1>5. CASE UNCHANGED vars
  BY <1>5 DEF vars, database, handlers, tasks, RunningHasDriver, Driving
<1> QED
  BY <1>1, <1>2, <1>3, <1>4, <1>5, RequestKeepsDriver, TaskKeepsDriving DEF Next

\* As long as nothing failed, and if every reopening that is let through finds
\* no run when it starts its own, no row is left `running` by the requests,
\* the stops and the restarts: there is always a task to end it.
THEOREM NoRowIsOrphaned == Spec /\ []LaunchesAlone => [](faults = 0 => NoOrphanRun)
<1> DEFINE Inv == OnlyFaultsFail /\ DownIsIdle /\ RunningHasDriver
<1>1. Init => Inv
  BY DEF Init, OnlyFaultsFail, DownIsIdle, RunningHasDriver
<1>2. Inv /\ RunInv /\ LaunchesAlone /\ [Next]_vars => Inv'
  BY FaultsStep, DownStep, RunningStep DEF RunInv
<1>3. Inv => (faults = 0 => NoOrphanRun)
  BY DEF RunningHasDriver, NoOrphanRun, Quiet, Live, LivePcs, Driving, InFlight, Requests
<1> HIDE DEF Inv
<1> QED
  BY <1>1, <1>2, <1>3, RunInvariant, PTL DEF Spec

-----------------------------------------------------------------------------
(* No section is left to rewrite. *)

\* A reopening goes past its decision on a row that was `done` when read.
DecidedOnDone ==
  \A r \in Reopeners : hpc[r] \in {"mark", "status", "launch"} => seen[r].row = "done"

\* Behind a reopening that has read `done`, the thread stays where it ended.
ReadDoneStaysDone ==
  \A r \in Reopeners : hpc[r] \in InFlight /\ seen[r].row = "done" => phase = "finished"

\* The run of a reopening starts from the end of the former one.
ReworkFromTheEnd ==
  \A r \in Requests : tpc[r] \in {"begin", "invoke"} /\ input[r] = "rework" => phase = "finished"

\* What is being saved was not marked meanwhile.
SavedIsDone == \A r \in Requests : tpc[r] = "commit" => sections[saving[r]] = "done"

Marked == {s \in Sections : sections[s] = "reopened"}

\* A section marked `reopened` is one that a reopening is about to have
\* rewritten, that its run is about to queue, or that the graph has queued.
WillRewrite(s) ==
  \/ \E r \in Reopeners : hpc[r] \in {"status", "launch"} /\ s \in Closure[target[r]]
  \/ \E r \in Reopeners : /\ tpc[r] \in {"begin", "invoke"} /\ input[r] = "rework"
                          /\ s \in Closure[target[r]]
  \/ phase \in {"active", "interrupted"} /\ s \in todo

MarkedIsQueued ==
  faults = 0 /\ crashes = 0 => \A s \in Sections : sections[s] = "reopened" => WillRewrite(s)

\* The four together, with what the condition adds to them.
ReopenInv ==
  /\ DecidedOnDone
  /\ ReadDoneStaysDone
  /\ ReworkFromTheEnd
  /\ SavedIsDone
  /\ MarkedIsQueued
  /\ LaunchesAlone

\* The row read is kept until the reopening is answered.
LEMMA DecidedStep == TypeOK /\ DecidedOnDone /\ [Next]_vars => DecidedOnDone'
<1> SUFFICES ASSUME TypeOK, DecidedOnDone, [Next]_vars PROVE DecidedOnDone'
  OBVIOUS
<1> USE DEF TypeOK, HandlerType, DecidedOnDone
<1>1. ASSUME NEW r \in Requests, Arrival(r) \/ HandlerStep(r) \/ HandlerFault(r)
      PROVE  DecidedOnDone'
  <2>1. \A q \in Reopeners \ {r} : hpc'[q] = hpc[q] /\ seen'[q] = seen[q]
    BY <1>1, RequestMoves DEF Requests
  <2>2. ASSUME r \in Reopeners, hpc'[r] \in {"mark", "status", "launch"}
        PROVE  seen'[r].row = "done"
    BY <1>1, <2>2, ReopenerMoves DEF ReceiveReopen, ReadRow, ReadSnapshot, DecideReopen,
       MarkForReopening, SetReopenStatus, LaunchReopen, HandlerFault, start_run, Reply, Goto, Requests
  <2> QED
    BY <2>1, <2>2
<1>2. ASSUME NEW r \in Requests, TaskStep(r) \/ TaskFault(r)
      PROVE  UNCHANGED handlers
  BY <1>2 DEF TaskStep, WriteRunning, InvokeState, InvokeNothing, InvokeResume,
         Interrupt, SaveRow, CommitSave, Finish, Settle, WriteWaiting, PublishInteraction,
         WriteDone, PurgeThenPublishDone, WriteFailed, TaskFault, RunningFault, RunFault,
         WriteFailedFault, Forget
<1>3. CASE Stop
  BY <1>3 DEF Stop, InFlight, Requests
<1>4. CASE Restart \/ RestartUnreconciled \/ UNCHANGED vars
  BY <1>4 DEF Restart, RestartUnreconciled, vars, handlers
<1> QED
  BY <1>1, <1>2, <1>3, <1>4 DEF Next, handlers

\* A reopening is let through when no task is alive, and stays alone as long
\* as no run starts behind it.
LEMMA AloneStep ==
  ASSUME RunInv, LaunchesAlone, [Next]_vars,
         \A r \in Requests : ~Live(r) /\ tpc'[r] = "begin" =>
           \A q \in Reopeners : hpc'[q] \notin {"mark", "status", "launch"}
  PROVE  LaunchesAlone'
<1> USE DEF RunInv, TypeOK, HandlerType, TaskType, LaunchesAlone
<1>1. ASSUME NEW r \in Requests, Arrival(r) \/ HandlerStep(r) \/ HandlerFault(r)
      PROVE  LaunchesAlone'
  <2>1. CASE UNCHANGED <<tpc, input>>
    <3>1. \A q \in Requests : Live(q)' <=> Live(q)
      BY <2>1 DEF Live
    <3>2. \A q \in Reopeners \ {r} : hpc'[q] = hpc[q]
      BY <1>1, RequestMoves DEF Requests
    <3>3. ASSUME r \in Reopeners, hpc'[r] \in {"mark", "status", "launch"}
          PROVE  \A q \in Requests : ~Live(q)
      <4>1. CASE hpc[r] \in {"mark", "status", "launch"}
        BY <3>3, <4>1
      <4>2. CASE hpc[r] \notin {"mark", "status", "launch"}
        <5>1. DecideReopen(r)
          BY <1>1, <3>3, <4>2, ReopenerMoves DEF ReceiveReopen, ReadRow, ReadSnapshot,
             MarkForReopening, SetReopenStatus, LaunchReopen, HandlerFault, Reply, Goto, Requests
        <5>2. ~is_running
          BY <3>3, <5>1 DEF DecideReopen, Reply, Requests
        <5> QED
          BY <5>2, RequestKinds DEF is_running, EntryIsTheLiveTask
      <4> QED
        BY <4>1, <4>2
    <3> QED
      BY <3>1, <3>2, <3>3
  <2>2. CASE ~is_running /\ tpc' = [tpc EXCEPT ![r] = "begin"]
    <3>1. ~Live(r)
      BY <2>2, RequestKinds DEF is_running, EntryIsTheLiveTask
    <3> QED
      BY <2>2, <3>1
  <2> QED
    BY <1>1, <2>1, <2>2, RequestMoves
<1>2. ASSUME NEW r \in Requests, TaskStep(r) \/ TaskFault(r)
      PROVE  LaunchesAlone'
  <2>1. UNCHANGED handlers
    BY <1>2, TaskFrame
  <2>2. ASSUME ~Live(r) PROVE \A q \in Requests : Live(q)' <=> Live(q)
    <3>1. Forget(r)
      BY <1>2, <2>2 DEF TaskStep, WriteRunning, InvokeState, InvokeNothing, InvokeResume,
         Interrupt, SaveRow, CommitSave, Finish, Settle, WriteWaiting, PublishInteraction,
         WriteDone, PurgeThenPublishDone, WriteFailed, TaskFault, RunningFault, RunFault,
         WriteFailedFault, At, Live, LivePcs
    <3> QED
      BY <3>1 DEF Forget, Move, At, Live, LivePcs
  <2> QED
    BY <2>1, <2>2 DEF handlers
<1>3. CASE Stop
  BY <1>3 DEF Stop, InFlight, Requests
<1>4. CASE Restart \/ RestartUnreconciled \/ UNCHANGED vars
  BY <1>4 DEF Restart, RestartUnreconciled, vars, handlers, tasks, Live
<1> QED
  BY <1>1, <1>2, <1>3, <1>4 DEF Next

\* The phase and what is queued move with a task that invokes or runs the graph.
LEMMA ThreadMoves ==
  ASSUME TypeOK, NEW r \in Requests, TaskStep(r) \/ TaskFault(r),
         tpc[r] \notin {"invoke", "graph", "commit"}
  PROVE  UNCHANGED <<phase, todo, sections>>
  BY DEF TaskStep, WriteRunning, InvokeState, InvokeNothing, InvokeResume,
         Interrupt, SaveRow, CommitSave, Finish, Settle, WriteWaiting, PublishInteraction,
         WriteDone, PurgeThenPublishDone, WriteFailed, TaskFault, RunningFault, RunFault,
         WriteFailedFault, Forget, At, thread, database

\* Behind a reopening that has read `done` no task moves the thread, and a row
\* read `done` is read of a finished thread.
LEMMA ReadDoneStep ==
  ASSUME RunInv, ReopensAtRest, ReadDoneStaysDone, [Next]_vars
  PROVE  ReadDoneStaysDone'
<1> USE DEF RunInv, TypeOK, HandlerType, TaskType, ReadDoneStaysDone
<1>1. ASSUME NEW r \in Requests, Arrival(r) \/ HandlerStep(r) \/ HandlerFault(r)
      PROVE  ReadDoneStaysDone'
  <2>1. phase' = phase
    BY <1>1, RequestFrame DEF thread
  <2>2. \A q \in Reopeners \ {r} : hpc'[q] = hpc[q] /\ seen'[q] = seen[q]
    BY <1>1, RequestMoves DEF Requests
  <2>3. ASSUME r \in Reopeners, hpc'[r] \in InFlight, seen'[r].row = "done"
        PROVE  phase = "finished"
    <3>1. CASE ReceiveReopen(r)
      BY <2>3, <3>1 DEF ReceiveReopen, ReadRow, StatusTellsThread, Requests
    <3>2. CASE ~ReceiveReopen(r)
      BY <1>1, <2>3, <3>2, ReopenerMoves DEF ReadSnapshot, DecideReopen, MarkForReopening, Unread,
         SetReopenStatus, LaunchReopen, HandlerFault, start_run, Reply, Goto, Requests, InFlight
    <3> QED
      BY <3>1, <3>2
  <2> QED
    BY <2>1, <2>2, <2>3
<1>2. ASSUME NEW r \in Requests, TaskStep(r) \/ TaskFault(r)
      PROVE  ReadDoneStaysDone'
  <2>1. UNCHANGED handlers
    BY <1>2, TaskFrame
  <2>2. ASSUME NEW q \in Reopeners, hpc[q] \in InFlight, seen[q].row = "done"
        PROVE  phase' = phase
    BY <1>2, <2>2, ThreadMoves DEF ReopensAtRest, Live, LivePcs
  <2> QED
    BY <2>1, <2>2 DEF handlers
<1>3. CASE Stop
  BY <1>3 DEF Stop, InFlight, Requests
<1>4. CASE Restart \/ RestartUnreconciled \/ UNCHANGED vars
  BY <1>4 DEF Restart, RestartUnreconciled, vars, handlers, thread
<1> QED
  BY <1>1, <1>2, <1>3, <1>4 DEF Next

\* The run of a reopening is started on the finished thread it has read, and
\* is then the only one to move it.
LEMMA ReworkStep ==
  ASSUME RunInv, DecidedOnDone, ReadDoneStaysDone, ReworkFromTheEnd, [Next]_vars
  PROVE  ReworkFromTheEnd'
<1> USE DEF RunInv, TypeOK, HandlerType, TaskType, ReworkFromTheEnd
<1>1. ASSUME NEW r \in Requests, Arrival(r) \/ HandlerStep(r) \/ HandlerFault(r)
      PROVE  ReworkFromTheEnd'
  <2>1. phase' = phase
    BY <1>1, RequestFrame DEF thread
  <2>2. CASE UNCHANGED <<tpc, input>>
    BY <2>1, <2>2
  <2>3. CASE tpc' = [tpc EXCEPT ![r] = "begin"] /\ hpc'[r] = "started"
    <3>1. \A q \in Requests \ {r} : tpc'[q] = tpc[q] /\ input'[q] = input[q]
      BY <1>1, <2>3, RequestMoves
    <3>2. ASSUME input'[r] = "rework" PROVE phase = "finished"
      <4>1. InputKinds'
        BY <1>1, InputKindsStep DEF Next
      <4>2. r \in Reopeners
        BY <3>2, <4>1 DEF InputKinds
      <4>3. hpc[r] = "launch"
        BY <1>1, <2>3, <4>2, ReopenerMoves DEF ReceiveReopen, ReadRow, ReadSnapshot, DecideReopen,
           MarkForReopening, SetReopenStatus, LaunchReopen, HandlerFault, Reply, Goto, Requests
      <4> QED
        BY <4>2, <4>3 DEF DecidedOnDone, ReadDoneStaysDone, InFlight
    <3> QED
      BY <2>1, <3>1, <3>2
  <2> QED
    BY <1>1, <2>2, <2>3, RequestMoves
<1>2. ASSUME NEW r \in Requests, TaskStep(r) \/ TaskFault(r)
      PROVE  ReworkFromTheEnd'
  <2>1. UNCHANGED input /\ \A q \in Requests \ {r} : tpc'[q] = tpc[q]
    BY <1>2, TaskMoves, TaskFrame
  <2>2. CASE tpc'[r] \in {"begin", "invoke"}
    <3>1. tpc[r] = "begin" /\ phase' = phase
      BY <1>2, <2>2 DEF TaskStep, WriteRunning, InvokeState, InvokeNothing, InvokeResume,
         Interrupt, SaveRow, CommitSave, Finish, Settle, WriteWaiting, PublishInteraction,
         WriteDone, PurgeThenPublishDone, WriteFailed, TaskFault, RunningFault, RunFault,
         WriteFailedFault, Forget, At, Move, Publish, thread
    <3>2. \A q \in Requests \ {r} : ~Live(q)
      BY <3>1 DEF EntryIsTheLiveTask, Live, LivePcs
    <3> QED
      BY <2>1, <3>1, <3>2 DEF Live, LivePcs
  <2>3. CASE tpc'[r] \notin {"begin", "invoke"}
    <3>1. ASSUME NEW q \in Requests \ {r}, tpc[q] \in {"begin", "invoke"}
          PROVE  phase' = phase
      <4>1. ~Live(r)
        BY <3>1 DEF EntryIsTheLiveTask, Live, LivePcs
      <4> QED
        BY <1>2, <4>1, ThreadMoves DEF Live, LivePcs
    <3> QED
      BY <2>1, <2>3, <3>1
  <2> QED
    BY <2>2, <2>3
<1>3. CASE Stop
  BY <1>3 DEF Stop, LivePcs
<1>4. CASE Restart \/ RestartUnreconciled \/ UNCHANGED vars
  BY <1>4 DEF Restart, RestartUnreconciled, vars, tasks, thread
<1> QED
  BY <1>1, <1>2, <1>3, <1>4 DEF Next

\* Marks are written when no task is alive: none is between the row it has
\* written and the checkpoint.
LEMMA SavedStep ==
  ASSUME RunInv, LaunchesAlone, SavedIsDone, [Next]_vars
  PROVE  SavedIsDone'
<1> USE DEF RunInv, TypeOK, DatabaseType, TaskType, SavedIsDone
<1>1. ASSUME NEW r \in Requests, Arrival(r) \/ HandlerStep(r) \/ HandlerFault(r)
      PROVE  SavedIsDone'
  <2>1. saving' = saving /\ \A q \in Requests : tpc'[q] = "commit" => tpc[q] = "commit"
    BY <1>1, RequestFrame
  <2>2. CASE UNCHANGED sections
    BY <2>1, <2>2
  <2>3. CASE ~UNCHANGED sections
    <3>1. r \in Reopeners
      BY <1>1, <2>3, OthersWriteNoRow
    <3>2. hpc[r] = "mark"
      BY <1>1, <2>3, <3>1, ReopenerMoves, RequestKinds DEF ReceiveReopen, ReadSnapshot, DecideReopen,
         MarkForReopening, SetReopenStatus, LaunchReopen, HandlerFault, database
    <3>3. \A q \in Requests : tpc[q] # "commit"
      BY <3>1, <3>2 DEF LaunchesAlone, Live, LivePcs
    <3> QED
      BY <2>1, <3>3
  <2> QED
    BY <2>2, <2>3
<1>2. ASSUME NEW r \in Requests, TaskStep(r) \/ TaskFault(r)
      PROVE  SavedIsDone'
  <2>1. CASE SaveRow(r)
    <3>1. \A q \in Requests \ {r} : tpc'[q] # "commit"
      BY <2>1 DEF SaveRow, At, EntryIsTheLiveTask, Live, LivePcs
    <3> QED
      BY <2>1, <3>1 DEF SaveRow, ThreadType
  <2>2. CASE ~SaveRow(r)
    <3>1. UNCHANGED sections /\ tpc'[r] # "commit"
      BY <1>2, <2>2 DEF TaskStep, WriteRunning, InvokeState, InvokeNothing, InvokeResume,
         Interrupt, CommitSave, Finish, Settle, WriteWaiting, PublishInteraction,
         WriteDone, PurgeThenPublishDone, WriteFailed, TaskFault, RunningFault, RunFault,
         WriteFailedFault, Forget, At, Move, Publish, database
    <3>2. \A q \in Requests \ {r} : tpc'[q] = tpc[q] /\ saving'[q] = saving[q]
      BY <1>2, TaskFrame
    <3> QED
      BY <3>1, <3>2
  <2> QED
    BY <2>1, <2>2
<1>3. CASE Stop
  BY <1>3 DEF Stop, LivePcs
<1>4. CASE Restart \/ RestartUnreconciled \/ UNCHANGED vars
  BY <1>4 DEF Restart, RestartUnreconciled, vars, tasks, database
<1> QED
  BY <1>1, <1>2, <1>3, <1>4 DEF Next

\* What a request leaves of what will be rewritten: a reopening goes from its
\* marks to its run, and starts it for it is alone.
LEMMA RequestKeepsQueue ==
  ASSUME RunInv, LaunchesAlone, NEW r \in Requests,
         Arrival(r) \/ HandlerStep(r), NEW s \in Sections, WillRewrite(s)
  PROVE  WillRewrite(s)'
<1> USE DEF RunInv, TypeOK, HandlerType, TaskType, InputKinds
<1>1. UNCHANGED <<phase, todo>>
  BY RequestFrame DEF thread
<1>2. ASSUME NEW q \in Reopeners, hpc[q] \in {"status", "launch"}, s \in Closure[target[q]]
      PROVE  WillRewrite(s)'
  <2>1. CASE q # r
    <3>1. hpc'[q] = hpc[q] /\ target'[q] = target[q]
      BY <2>1, RequestMoves DEF Requests
    <3> QED
      BY <1>2, <3>1 DEF WillRewrite
  <2>2. CASE q = r
    <3>1. SetReopenStatus(r) \/ LaunchReopen(r)
      BY <1>2, <2>2, RequestKinds DEF Arrival, InsertRow, HandlerStep, ReceiveReopen, ReadRow,
         ReadSnapshot, DecideReopen, MarkForReopening, Requests
    <3>2. CASE SetReopenStatus(r)
      BY <1>2, <2>2, <3>2 DEF SetReopenStatus, Goto, WillRewrite, Requests
    <3>3. CASE LaunchReopen(r)
      <4>1. ~is_running
        BY <1>2, <2>2, RequestKinds DEF LaunchesAlone, is_running, ProcessType
      <4>2. /\ tpc' = [tpc EXCEPT ![r] = "begin"] /\ input' = [input EXCEPT ![r] = "rework"]
            /\ UNCHANGED target
        BY <3>3, <4>1 DEF LaunchReopen, start_run
      <4> QED
        BY <1>2, <2>2, <4>2 DEF WillRewrite
    <3> QED
      BY <3>1, <3>2, <3>3
  <2> QED
    BY <2>1, <2>2
<1>3. ASSUME NEW q \in Reopeners, tpc[q] \in {"begin", "invoke"}, input[q] = "rework",
             s \in Closure[target[q]]
      PROVE  WillRewrite(s)'
  <2>1. is_running
    BY <1>3, RequestKinds DEF EntryIsTheLiveTask, is_running, Live, LivePcs, Requests
  <2>2. UNCHANGED <<tpc, input>>
    BY <2>1, RequestMoves
  <2>3. target'[q] = target[q]
    <3>1. CASE q # r
      BY <3>1, RequestMoves
    <3>2. CASE q = r
      BY <1>3, <3>2 DEF Arrival, InsertRow, ReceiveAnswer, ReceiveResume, ReceiveReopen, ReadRow,
         HandlerStep, StartCreated, ReadSnapshot, DecideAnswer, CheckResume, DecideResume,
         SaveFacts, LaunchResume, DecideReopen, MarkForReopening, SetReopenStatus, LaunchReopen,
         handlers
    <3> QED
      BY <3>1, <3>2
  <2> QED
    BY <1>3, <2>2, <2>3 DEF WillRewrite
<1> QED
  BY <1>1, <1>2, <1>3 DEF WillRewrite

\* A section is marked by a reopening that goes on to its status.
LEMMA RequestMarks ==
  ASSUME RunInv, LaunchesAlone, MarkedIsQueued, NEW r \in Requests,
         Arrival(r) \/ HandlerStep(r) \/ HandlerFault(r)
  PROVE  MarkedIsQueued'
<1> USE DEF RunInv, TypeOK, DatabaseType, ProcessType, HandlerType
<1>1. SUFFICES ASSUME faults' = 0, crashes' = 0, NEW s \in Sections, sections'[s] = "reopened"
               PROVE  WillRewrite(s)'
  BY DEF MarkedIsQueued
<1>2. ~HandlerFault(r)
  BY <1>1, Bounds DEF HandlerFault
<1>3. faults = 0 /\ crashes = 0
  BY <1>1, <1>2, RequestMoves DEF Arrival, InsertRow, ReceiveAnswer, ReceiveResume, ReceiveReopen,
     HandlerStep, StartCreated, ReadSnapshot, DecideAnswer, CheckResume, DecideResume,
     SaveFacts, LaunchResume, DecideReopen, MarkForReopening, SetReopenStatus, LaunchReopen
<1>4. CASE sections[s] = "reopened"
  BY <1>2, <1>3, <1>4, RequestKeepsQueue DEF MarkedIsQueued
<1>5. CASE sections[s] # "reopened"
  <2>1. r \in Reopeners
    BY <1>1, <1>5, OthersWriteNoRow
  <2>2. MarkForReopening(r)
    BY <1>1, <1>2, <1>5, <2>1, ReopenerMoves DEF ReceiveReopen, ReadSnapshot, DecideReopen,
       SetReopenStatus, LaunchReopen, database
  <2>3. s \in Closure[target[r]] /\ hpc' = [hpc EXCEPT ![r] = "status"] /\ UNCHANGED target
    BY <1>1, <1>5, <2>2 DEF MarkForReopening, mark_for_reopening, Goto
  <2> QED
    BY <2>1, <2>3 DEF WillRewrite
<1> QED
  BY <1>4, <1>5

\* The run queues what its reopening marked, and a section leaves the queue
\* once its row is written.
LEMMA TaskRewrites ==
  ASSUME RunInv, SavedIsDone, MarkedIsQueued, NEW r \in Requests,
         TaskStep(r) \/ TaskFault(r),
         faults = 0 /\ crashes = 0 /\ tpc[r] = "invoke" /\ input[r] = "rework" =>
           phase = "finished" \/ Marked \subseteq Closure[target[r]]
  PROVE  MarkedIsQueued'
<1> USE DEF RunInv, TypeOK, DatabaseType, ThreadType, ProcessType, TaskType
<1>1. SUFFICES ASSUME faults' = 0, crashes' = 0, NEW s \in Sections, sections'[s] = "reopened"
               PROVE  WillRewrite(s)'
  BY DEF MarkedIsQueued
<1>2. ~RunningFault(r) /\ ~RunFault(r)
  BY <1>1, Bounds DEF RunningFault, RunFault
<1>3. faults = 0 /\ crashes = 0 /\ UNCHANGED handlers /\ UNCHANGED input
  BY <1>1, <1>2, TaskMoves, TaskFrame DEF TaskFault, TaskStep, WriteRunning, InvokeState, InvokeNothing,
     InvokeResume, Interrupt, SaveRow, CommitSave, Finish, Settle, WriteWaiting, PublishInteraction,
     WriteDone, PurgeThenPublishDone, WriteFailed, WriteFailedFault, Forget
<1>4. sections[s] = "reopened"
  BY <1>1, <1>2 DEF TaskFault, TaskStep, WriteRunning, InvokeState, InvokeNothing, database,
     InvokeResume, Interrupt, SaveRow, CommitSave, Finish, Settle, WriteWaiting, PublishInteraction,
     WriteDone, PurgeThenPublishDone, WriteFailed, WriteFailedFault, Forget
<1>5. WillRewrite(s)
  BY <1>3, <1>4 DEF MarkedIsQueued
<1>6. ASSUME NEW q \in Reopeners, hpc[q] \in {"status", "launch"}, s \in Closure[target[q]]
      PROVE  WillRewrite(s)'
  BY <1>3, <1>6 DEF handlers, WillRewrite
<1>7. ASSUME NEW q \in Reopeners, tpc[q] \in {"begin", "invoke"}, input[q] = "rework",
             s \in Closure[target[q]]
      PROVE  WillRewrite(s)'
  <2>1. CASE q # r
    <3>1. tpc'[q] = tpc[q]
      BY <2>1, TaskFrame DEF Requests
    <3> QED
      BY <1>3, <1>7, <3>1 DEF handlers, WillRewrite
  <2>2. CASE q = r
    <3>1. WriteRunning(r) \/ InvokeState(r)
      BY <1>2, <1>7, <2>2 DEF TaskFault, TaskStep, InvokeNothing,
         InvokeResume, Interrupt, SaveRow, CommitSave, Finish, Settle, WriteWaiting,
         PublishInteraction, WriteDone, PurgeThenPublishDone, WriteFailed, WriteFailedFault,
         Forget, At
    <3>2. CASE WriteRunning(r)
      BY <1>3, <1>7, <2>2, <3>2 DEF WriteRunning, Move, handlers, WillRewrite
    <3>3. CASE InvokeState(r)
      BY <1>7, <2>2, <3>3 DEF InvokeState, WillRewrite
    <3> QED
      BY <3>1, <3>2, <3>3
  <2> QED
    BY <2>1, <2>2
<1>8. ASSUME phase \in {"active", "interrupted"}, s \in todo
      PROVE  WillRewrite(s)'
  <2>1. phase' \in {"active", "interrupted"} /\ s \in todo'
    <3>1. CASE InvokeState(r)
      BY <1>3, <1>4, <1>8, <3>1 DEF InvokeState, At, Marked
    <3>2. CASE CommitSave(r)
      <4>1. s # saving[r]
        BY <1>4, <3>2 DEF CommitSave, At, SavedIsDone
      <4> QED
        BY <1>8, <3>2, <4>1 DEF CommitSave
    <3>3. CASE ~InvokeState(r) /\ ~CommitSave(r)
      BY <1>2, <1>8, <3>3 DEF TaskFault, TaskStep, WriteRunning, InvokeNothing, thread,
         InvokeResume, Interrupt, SaveRow, Finish, Settle, WriteWaiting, PublishInteraction,
         WriteDone, PurgeThenPublishDone, WriteFailed, WriteFailedFault, Forget
    <3> QED
      BY <3>1, <3>2, <3>3
  <2> QED
    BY <2>1 DEF WillRewrite
<1> QED
  BY <1>5, <1>6, <1>7, <1>8 DEF WillRewrite

\* The invariant of the reopenings, kept where no run goes on behind one.
LEMMA ReopenStep ==
  ASSUME RunInv, ReopenInv, ReopensAtRest, ReopensAtRest', [Next]_vars
  PROVE  ReopenInv'
<1> USE DEF ReopenInv
<1>1. DecidedOnDone'
  BY DecidedStep DEF RunInv
<1>2. /\ ReadDoneStaysDone' /\ ReworkFromTheEnd' /\ SavedIsDone' /\ LaunchesAlone'
  <2>1. \A r \in Requests : tpc'[r] = "begin" =>
          \A q \in Reopeners : hpc'[q] \notin {"mark", "status", "launch"}
    BY <1>1 DEF ReopensAtRest, DecidedOnDone, InFlight, Live, LivePcs
  <2> QED
    BY <1>1, <2>1, ReadDoneStep, ReworkStep, SavedStep, AloneStep
<1>3. MarkedIsQueued'
  <2>1. CASE Stop
    BY <2>1, Bounds DEF Stop, MarkedIsQueued, RunInv, TypeOK, ProcessType
  <2>2. CASE Restart
    BY <2>2 DEF Restart, MarkedIsQueued, WillRewrite, thread, handlers, tasks
  <2>3. CASE RestartUnreconciled
    BY <2>3, Bounds DEF RestartUnreconciled, MarkedIsQueued, RunInv, TypeOK, ProcessType
  <2>4. CASE UNCHANGED vars
    BY <2>4 DEF vars, database, thread, handlers, tasks, MarkedIsQueued, WillRewrite
  <2>5. ASSUME NEW r \in Requests, TaskStep(r) \/ TaskFault(r)
        PROVE  MarkedIsQueued'
    BY <2>5, TaskRewrites DEF ReworkFromTheEnd
  <2> QED
    BY <2>1, <2>2, <2>3, <2>4, <2>5, RequestMarks DEF Next
<1> QED
  BY <1>1, <1>2, <1>3

\* Nothing is reopened at first.
LEMMA ReopenStart == Init => ReopenInv
  BY DEF Init, ReopenInv, DecidedOnDone, ReadDoneStaysDone, ReworkFromTheEnd, SavedIsDone,
         MarkedIsQueued, LaunchesAlone, Unread, InFlight, Requests

\* Without failure nor stop, and if no run starts behind a reopening that has
\* read `done`, a project at rest has no section marked that was not rewritten,
\* whatever the closures and however many reopenings one after the other.
THEOREM MarkedIsRewritten == Spec /\ []ReopensAtRest => [](faults = 0 => ReopenedIsRewritten)
<1>1. RunInv /\ ReopenInv => (faults = 0 => ReopenedIsRewritten)
  BY DEF RunInv, StatusTellsThread, ReopenInv, MarkedIsQueued, WillRewrite, ReopenedIsRewritten,
         Quiet, Live, LivePcs, InFlight, Requests
<1> QED
  BY <1>1, ReopenStart, ReopenStep, RunInvariant, PTL DEF Spec

\* The condition on the reads gives the one on the launches.
THEOREM AtRestIsAlone == Spec /\ []ReopensAtRest => []LaunchesAlone
<1>1. ReopenInv => LaunchesAlone
  BY DEF ReopenInv
<1> QED
  BY <1>1, ReopenStart, ReopenStep, RunInvariant, PTL DEF Spec

-----------------------------------------------------------------------------
(* Reopenings that meet no other request. *)

\* No other request is being handled while a reopening that was let through
\* writes its marks and its status: all the condition asks is of the clients,
\* whatever the runs do meanwhile.
ReopensApart ==
  \A r \in Reopeners : hpc[r] \in {"mark", "status", "launch"} =>
    \A q \in Requests \ {r} : hpc[q] \notin InFlight

Reworking(r) == tpc[r] \in {"begin", "invoke"} /\ input[r] = "rework"

\* From its status to the input of its run, a reopening owns the row.
ReworkSaysRunning ==
  \A r \in Reopeners : hpc[r] = "launch" \/ Reworking(r) => run_status = "running"

\* A project read `done` has no mark until the reopening that read it writes its own...
NothingMarkedYet ==
  faults = 0 /\ crashes = 0 =>
    \A r \in Reopeners :
      hpc[r] \in {"snap", "decide", "mark"} /\ seen[r].row = "done" => Marked = {}

\* ... and then no other until its run queues them.
MarksAreItsOwn ==
  faults = 0 /\ crashes = 0 =>
    \A r \in Reopeners :
      hpc[r] \in {"status", "launch"} \/ Reworking(r) => Marked \subseteq Closure[target[r]]

ApartInv ==
  /\ DownIsIdle
  /\ DecidedOnDone
  /\ LaunchesAlone
  /\ SavedIsDone
  /\ MarkedIsQueued
  /\ ReworkSaysRunning
  /\ NothingMarkedYet
  /\ MarksAreItsOwn

\* A run is started by a request that is being handled.
LEMMA LaunchedInFlight ==
  ASSUME TypeOK, NEW r \in Requests, Arrival(r) \/ HandlerStep(r) \/ HandlerFault(r),
         ~UNCHANGED <<tpc, input>>
  PROVE  hpc[r] \in InFlight
  BY DEF Arrival, InsertRow, ReceiveAnswer, ReceiveResume, ReceiveReopen, HandlerFault, HandlerStep,
         StartCreated, ReadSnapshot, DecideAnswer, CheckResume, DecideResume, SaveFacts,
         LaunchResume, DecideReopen, MarkForReopening, SetReopenStatus, LaunchReopen, tasks, InFlight

\* Where requests keep apart, no run starts behind a reopening.
LEMMA ApartKeepsAlone ==
  ASSUME RunInv, LaunchesAlone, ReopensApart, [Next]_vars
  PROVE  LaunchesAlone'
<1> USE DEF RunInv, TypeOK, HandlerType, TaskType
<1>1. ASSUME NEW r \in Requests, ~Live(r), tpc'[r] = "begin", NEW q \in Reopeners
      PROVE  hpc'[q] \notin {"mark", "status", "launch"}
  <2>1. tpc[r] # "begin"
    BY <1>1 DEF Live, LivePcs
  <2>2. PICK p \in Requests : Arrival(p) \/ HandlerStep(p) \/ HandlerFault(p)
    <3>1. ~(\E p \in Requests : TaskStep(p) \/ TaskFault(p))
      BY <1>1, <2>1, TaskMoves, TaskFrame
    <3>2. ~Stop /\ ~Restart /\ ~RestartUnreconciled /\ ~UNCHANGED vars
      BY <1>1, <2>1 DEF Stop, Restart, RestartUnreconciled, vars, tasks
    <3> QED
      BY <3>1, <3>2 DEF Next
  <2>3. p = r /\ ~UNCHANGED <<tpc, input>>
    BY <1>1, <2>1, <2>2, RequestMoves
  <2>4. hpc[r] \in InFlight /\ hpc'[r] = "started"
    BY <2>2, <2>3, LaunchedInFlight, RequestMoves
  <2>5. q # r => hpc'[q] = hpc[q]
    BY <2>2, <2>3, RequestMoves DEF Requests
  <2> QED
    BY <2>4, <2>5 DEF ReopensApart
<1> QED
  BY <1>1, AloneStep

\* A task marks nothing, and does not go back to its input.
LEMMA TaskMarksNothing ==
  ASSUME TypeOK, EntryIsTheLiveTask, NEW r \in Requests, TaskStep(r) \/ TaskFault(r)
  PROVE  /\ UNCHANGED <<handlers, input, crashes>>
         /\ Marked' \subseteq Marked
         /\ \A q \in Requests : tpc'[q] \in {"begin", "invoke"} => tpc[q] \in {"begin", "invoke"}
         /\ faults' = 0 => faults = 0
<1> USE DEF TypeOK, DatabaseType, ProcessType, TaskType
<1>1. UNCHANGED <<handlers, input, crashes>> /\ \A q \in Requests \ {r} : tpc'[q] = tpc[q]
  BY TaskMoves, TaskFrame
<1>2. Marked' \subseteq Marked
  <2>1. UNCHANGED sections \/ \E s \in todo : sections' = [sections EXCEPT ![s] = "done"]
    BY DEF TaskStep, WriteRunning, InvokeState, InvokeNothing, InvokeResume,
         Interrupt, SaveRow, CommitSave, Finish, Settle, WriteWaiting, PublishInteraction,
         WriteDone, PurgeThenPublishDone, WriteFailed, TaskFault, RunningFault, RunFault,
         WriteFailedFault, Forget, database
  <2>2. \A s \in Sections : sections'[s] = "reopened" => sections[s] = "reopened"
    BY <2>1
  <2> QED
    BY <2>2 DEF Marked
<1>3. tpc'[r] \in {"begin", "invoke"} => tpc[r] \in {"begin", "invoke"}
  BY DEF TaskStep, WriteRunning, InvokeState, InvokeNothing, InvokeResume,
         Interrupt, SaveRow, CommitSave, Finish, Settle, WriteWaiting, PublishInteraction,
         WriteDone, PurgeThenPublishDone, WriteFailed, TaskFault, RunningFault, RunFault,
         WriteFailedFault, Forget, At, Move, Publish
<1>4. faults' = 0 => faults = 0
  BY Bounds DEF TaskStep, WriteRunning, InvokeState, InvokeNothing, InvokeResume,
         Interrupt, SaveRow, CommitSave, Finish, Settle, WriteWaiting, PublishInteraction,
         WriteDone, PurgeThenPublishDone, WriteFailed, TaskFault, RunningFault, RunFault,
         WriteFailedFault, Forget
<1> QED
  BY <1>1, <1>2, <1>3, <1>4

\* A request that is not a reopening about to mark marks nothing.
LEMMA RequestMarksApart ==
  ASSUME TypeOK, NEW r \in Requests, Arrival(r) \/ HandlerStep(r) \/ HandlerFault(r)
  PROVE  /\ \/ Marked' = Marked
            \/ r \in Reopeners /\ (MarkForReopening(r) \/ faults' # 0)
         /\ UNCHANGED crashes
         /\ faults' = 0 => faults = 0
<1>0. HandlerFault(r) => faults' # 0
  BY Bounds DEF HandlerFault, TypeOK, ProcessType
<1>1. \/ UNCHANGED sections
      \/ r \in Reopeners /\ (MarkForReopening(r) \/ faults' # 0)
  BY <1>0, OthersWriteNoRow, ReopenerMoves DEF ReceiveReopen, ReadSnapshot, DecideReopen,
       SetReopenStatus, LaunchReopen, database
<1>2. faults' = faults \/ faults' = faults + 1
  BY DEF Arrival, InsertRow, ReceiveAnswer, ReceiveResume, ReceiveReopen, HandlerFault,
       HandlerStep, StartCreated, ReadSnapshot, DecideAnswer, CheckResume, DecideResume, SaveFacts,
       LaunchResume, DecideReopen, MarkForReopening, SetReopenStatus, LaunchReopen
<1>3. faults' = 0 => faults = 0
  BY <1>2, Bounds DEF TypeOK, ProcessType
<1> QED
  BY <1>1, <1>3, RequestMoves DEF Marked

\* The row a reopening says `running` stays so until its run takes the thread.
LEMMA SaysRunningStep ==
  ASSUME RunInv, LaunchesAlone, DownIsIdle, ReworkSaysRunning, [Next]_vars
  PROVE  ReworkSaysRunning'
<1> USE DEF RunInv, TypeOK, HandlerType, TaskType, ReworkSaysRunning
<1>1. ASSUME NEW r \in Requests, Arrival(r) \/ HandlerStep(r) \/ HandlerFault(r)
      PROVE  ReworkSaysRunning'
  <2>1. \A q \in Requests \ {r} : hpc'[q] = hpc[q] /\ input'[q] = input[q] /\ tpc'[q] = tpc[q]
    BY <1>1, RequestMoves
  <2>2. run_status = "running" => run_status' = "running"
    BY <1>1 DEF Arrival, InsertRow, ReceiveAnswer, ReceiveResume, ReceiveReopen, HandlerFault,
       HandlerStep, StartCreated, ReadSnapshot, DecideAnswer, CheckResume, DecideResume, SaveFacts,
       LaunchResume, DecideReopen, MarkForReopening, SetReopenStatus, LaunchReopen, database
  <2>3. ASSUME r \in Reopeners, hpc'[r] = "launch" \/ Reworking(r)'
        PROVE  run_status' = "running"
    <3>1. CASE hpc[r] = "launch" \/ Reworking(r)
      BY <2>2, <2>3, <3>1
    <3>2. CASE ~(hpc[r] = "launch" \/ Reworking(r))
      BY <1>1, <2>3, <3>2, ReopenerMoves DEF ReceiveReopen, ReadRow, ReadSnapshot, DecideReopen,
         MarkForReopening, SetReopenStatus, LaunchReopen, HandlerFault, Reply, Goto, Reworking,
         tasks, Requests
    <3> QED
      BY <3>1, <3>2
  <2> QED
    BY <2>1, <2>2, <2>3 DEF Reworking, Requests
<1>2. ASSUME NEW r \in Requests, TaskStep(r) \/ TaskFault(r), NEW q \in Reopeners,
             hpc'[q] = "launch" \/ Reworking(q)'
      PROVE  run_status' = "running"
  <2>1. hpc[q] = "launch" \/ Reworking(q)
    BY <1>2, TaskMarksNothing DEF Reworking, handlers, Requests
  <2>2. CASE WriteRunning(r)
    BY <2>2 DEF WriteRunning
  <2>3. CASE ~WriteRunning(r)
    <3>1. tpc'[r] \notin {"begin", "invoke"}
      BY <1>2, <2>3 DEF TaskStep, InvokeState, InvokeNothing, InvokeResume,
         Interrupt, SaveRow, CommitSave, Finish, Settle, WriteWaiting, PublishInteraction,
         WriteDone, PurgeThenPublishDone, WriteFailed, TaskFault, RunningFault, RunFault,
         WriteFailedFault, Forget, At, Move, Publish
    <3>2. ~Live(r)
      <4>1. CASE hpc[q] = "launch"
        BY <4>1 DEF LaunchesAlone
      <4>2. CASE Reworking(q) /\ q # r
        BY <4>2 DEF Reworking, EntryIsTheLiveTask, Live, LivePcs, Requests
      <4>3. CASE Reworking(q) /\ q = r
        BY <1>2, <3>1, <4>3, TaskMarksNothing DEF Reworking, handlers, LaunchesAlone
      <4> QED
        BY <2>1, <4>1, <4>2, <4>3
    <3>3. Forget(r)
      BY <1>2, <3>2 DEF TaskStep, WriteRunning, InvokeState, InvokeNothing, InvokeResume,
         Interrupt, SaveRow, CommitSave, Finish, Settle, WriteWaiting, PublishInteraction,
         WriteDone, PurgeThenPublishDone, WriteFailed, TaskFault, RunningFault, RunFault,
         WriteFailedFault, At, Live, LivePcs
    <3> QED
      BY <2>1, <3>3 DEF Forget, database
  <2> QED
    BY <2>2, <2>3
<1>3. CASE Stop
  BY <1>3 DEF Stop, InFlight, LivePcs, Reworking, Requests
<1>4. CASE Restart \/ RestartUnreconciled
  BY <1>4 DEF Restart, RestartUnreconciled, DownIsIdle, InFlight, Live, LivePcs, Reworking, tasks,
     handlers, Requests
<1>5. CASE UNCHANGED vars
  BY <1>5 DEF vars, database, handlers, tasks, Reworking
<1> QED
  BY <1>1, <1>2, <1>3, <1>4, <1>5 DEF Next

\* A project that rests on `done` has nothing marked, unless a reopening is
\* already past its marks.
LEMMA NothingMarkedStep ==
  ASSUME RunInv, ApartInv, ReopensApart, ReopensApart', [Next]_vars
  PROVE  NothingMarkedYet'
<1> USE DEF RunInv, TypeOK, HandlerType, TaskType, ApartInv
<1>1. ASSUME NEW r \in Requests, Arrival(r) \/ HandlerStep(r) \/ HandlerFault(r),
             faults' = 0, crashes' = 0, NEW q \in Reopeners,
             hpc'[q] \in {"snap", "decide", "mark"}, seen'[q].row = "done"
      PROVE  Marked' = {}
  <2>1. faults = 0 /\ crashes = 0
    BY <1>1, RequestMarksApart
  <2>2. CASE hpc[q] \in {"snap", "decide", "mark"} /\ seen[q].row = "done"
    <3>1. Marked = {}
      BY <2>1, <2>2 DEF NothingMarkedYet
    <3>2. ~MarkForReopening(r) \/ r \notin Reopeners
      <4>1. CASE q = r
        BY <1>1, <4>1 DEF MarkForReopening, Goto, Requests
      <4>2. CASE q # r
        BY <2>2, <4>2 DEF MarkForReopening, ReopensApart, InFlight, Requests
      <4> QED
        BY <4>1, <4>2
    <3> QED
      BY <1>1, <3>1, <3>2, RequestMarksApart
  <2>3. CASE ~(hpc[q] \in {"snap", "decide", "mark"} /\ seen[q].row = "done")
    <3>1. q = r
      BY <1>1, <2>3, RequestMoves DEF Requests
    <3>2. ReceiveReopen(q)
      BY <1>1, <2>3, <3>1, ReopenerMoves DEF ReadSnapshot, DecideReopen, MarkForReopening,
         SetReopenStatus, LaunchReopen, HandlerFault, start_run, Reply, Goto, Requests
    <3>3. run_status = "done" /\ hpc[q] = "new" /\ UNCHANGED sections
      BY <1>1, <3>2 DEF ReceiveReopen, ReadRow, database, Requests
    <3>4. ASSUME NEW s \in Sections, sections[s] = "reopened" PROVE FALSE
      <4>1. WillRewrite(s)
        BY <2>1, <3>4 DEF MarkedIsQueued
      <4>2. phase = "finished"
        BY <3>3 DEF StatusTellsThread
      <4>3. \A p \in Reopeners : ~Reworking(p)
        BY <3>3 DEF ReworkSaysRunning
      <4>4. PICK p \in Reopeners : hpc[p] \in {"status", "launch"}
        BY <4>1, <4>2, <4>3 DEF WillRewrite, Reworking
      <4>5. hpc'[p] = hpc[p] /\ p # q
        BY <1>1, <3>1, <3>3, <4>4, RequestMoves DEF Requests
      <4> QED
        BY <1>1, <4>4, <4>5 DEF ReopensApart, InFlight, Requests
    <3> QED
      BY <3>3, <3>4 DEF Marked
  <2> QED
    BY <2>2, <2>3
<1>2. ASSUME NEW r \in Requests, TaskStep(r) \/ TaskFault(r)
      PROVE  NothingMarkedYet'
  BY <1>2, TaskMarksNothing DEF NothingMarkedYet, handlers
<1>3. CASE Stop
  BY <1>3, Bounds DEF Stop, NothingMarkedYet, ProcessType
<1>4. CASE RestartUnreconciled
  BY <1>4, Bounds DEF RestartUnreconciled, NothingMarkedYet, ProcessType
<1>5. CASE Restart \/ UNCHANGED vars
  BY <1>5 DEF Restart, vars, database, handlers, NothingMarkedYet, Marked
<1> QED
  BY <1>1, <1>2, <1>3, <1>4, <1>5 DEF Next, NothingMarkedYet

\* The marks of a reopening are the only ones until its run has queued them.
LEMMA OwnMarksStep ==
  ASSUME RunInv, ApartInv, ReopensApart, [Next]_vars
  PROVE  MarksAreItsOwn'
<1> USE DEF RunInv, TypeOK, HandlerType, TaskType, ApartInv
<1>1. ASSUME NEW r \in Requests, Arrival(r) \/ HandlerStep(r) \/ HandlerFault(r),
             faults' = 0, crashes' = 0, NEW q \in Reopeners,
             hpc'[q] \in {"status", "launch"} \/ Reworking(q)'
      PROVE  Marked' \subseteq Closure[target'[q]]
  <2>1. faults = 0 /\ crashes = 0
    BY <1>1, RequestMarksApart
  <2>2. CASE hpc[q] \in {"status", "launch"} \/ Reworking(q)
    <3>1. Marked \subseteq Closure[target[q]]
      BY <2>1, <2>2 DEF MarksAreItsOwn
    <3>2. ~MarkForReopening(r) \/ r \notin Reopeners
      <4>1. CASE Reworking(q)
        BY <4>1 DEF MarkForReopening, LaunchesAlone, Reworking, Live, LivePcs, Requests
      <4>2. CASE hpc[q] \in {"status", "launch"}
        BY <4>2 DEF MarkForReopening, ReopensApart, InFlight, Requests
      <4> QED
        BY <2>2, <4>1, <4>2
    <3>3. target'[q] = target[q]
      <4>1. CASE q # r
        BY <1>1, <4>1, RequestMoves
      <4>2. CASE q = r
        <5>1. hpc[q] # "new"
          BY <2>2 DEF Reworking, InputKinds, Requests
        <5> QED
          BY <1>1, <4>2, <5>1, ReopenerMoves DEF ReceiveReopen, ReadRow, ReadSnapshot, DecideReopen,
             MarkForReopening, SetReopenStatus, LaunchReopen, HandlerFault, handlers
      <4> QED
        BY <4>1, <4>2
    <3> QED
      BY <1>1, <3>1, <3>2, <3>3, RequestMarksApart
  <2>3. CASE ~(hpc[q] \in {"status", "launch"} \/ Reworking(q))
    <3>1. q = r
      BY <1>1, <2>3, RequestMoves DEF Reworking, Requests
    <3>2. MarkForReopening(q)
      BY <1>1, <2>3, <3>1, ReopenerMoves DEF ReceiveReopen, ReadRow, ReadSnapshot, DecideReopen,
         SetReopenStatus, LaunchReopen, HandlerFault, Reply, Goto, Reworking, tasks, Requests
    <3>3. Marked = {}
      BY <2>1, <3>2 DEF MarkForReopening, DecidedOnDone, NothingMarkedYet
    <3>4. \A s \in Sections : sections'[s] = "reopened" => s \in Closure[target[q]]
      BY <3>2, <3>3 DEF MarkForReopening, mark_for_reopening, Marked
    <3> QED
      BY <3>2, <3>4 DEF MarkForReopening, Marked
  <2> QED
    BY <2>2, <2>3
<1>2. ASSUME NEW r \in Requests, TaskStep(r) \/ TaskFault(r), NEW q \in Reopeners,
             faults' = 0, crashes' = 0, hpc'[q] \in {"status", "launch"} \/ Reworking(q)'
      PROVE  Marked' \subseteq Closure[target'[q]]
  <2>1. hpc[q] \in {"status", "launch"} \/ Reworking(q)
    BY <1>2, TaskMarksNothing DEF Reworking, handlers, Requests
  <2> QED
    BY <1>2, <2>1, TaskMarksNothing DEF MarksAreItsOwn, handlers
<1>3. CASE Stop
  BY <1>3, Bounds DEF Stop, MarksAreItsOwn, ProcessType
<1>4. CASE RestartUnreconciled
  BY <1>4, Bounds DEF RestartUnreconciled, MarksAreItsOwn, ProcessType
<1>5. CASE Restart \/ UNCHANGED vars
  BY <1>5 DEF Restart, vars, database, handlers, tasks, MarksAreItsOwn, Marked, Reworking
<1> QED
  BY <1>1, <1>2, <1>3, <1>4, <1>5 DEF Next, MarksAreItsOwn

\* The invariant of reopenings that meet no other request.
LEMMA ApartStep ==
  ASSUME RunInv, ApartInv, ReopensApart, ReopensApart', [Next]_vars
  PROVE  ApartInv'
<1> USE DEF ApartInv
<1>1. DownIsIdle' /\ DecidedOnDone'
  BY DownStep, DecidedStep DEF RunInv
<1>2. LaunchesAlone' /\ SavedIsDone' /\ ReworkSaysRunning'
  BY ApartKeepsAlone, SavedStep, SaysRunningStep
<1>3. NothingMarkedYet' /\ MarksAreItsOwn'
  BY NothingMarkedStep, OwnMarksStep
<1>4. MarkedIsQueued'
  <2>1. CASE Stop
    BY <2>1, Bounds DEF Stop, MarkedIsQueued, RunInv, TypeOK, ProcessType
  <2>2. CASE Restart \/ UNCHANGED vars
    BY <2>2 DEF Restart, vars, database, thread, handlers, tasks, MarkedIsQueued, WillRewrite
  <2>3. CASE RestartUnreconciled
    BY <2>3, Bounds DEF RestartUnreconciled, MarkedIsQueued, RunInv, TypeOK, ProcessType
  <2>4. ASSUME NEW r \in Requests, TaskStep(r) \/ TaskFault(r)
        PROVE  MarkedIsQueued'
    <3>1. tpc[r] = "invoke" /\ input[r] = "rework" => r \in Reopeners /\ Reworking(r)
      BY DEF RunInv, InputKinds, Reworking
    <3> QED
      BY <2>4, <3>1, TaskRewrites DEF MarksAreItsOwn
  <2> QED
    BY <2>1, <2>2, <2>3, <2>4, RequestMarks DEF Next
<1> QED
  BY <1>1, <1>2, <1>3, <1>4

LEMMA ApartStart == Init => ApartInv
  BY DEF Init, ApartInv, DownIsIdle, DecidedOnDone, LaunchesAlone, SavedIsDone, MarkedIsQueued,
         ReworkSaysRunning, NothingMarkedYet, MarksAreItsOwn, Marked, Reworking, Unread, InFlight,
         Live, LivePcs, Requests

\* Whatever the requests, their number and the runs they find, a reopening
\* during which no other request is handled is alone when it launches its run.
THEOREM ApartIsAlone == Spec /\ []ReopensApart => []LaunchesAlone
<1>1. ApartInv => LaunchesAlone
  BY DEF ApartInv
<1> QED
  BY <1>1, ApartStart, ApartStep, RunInvariant, PTL DEF Spec

\* Requests that overlap a reopening are the only way to leave a row `running`
\* or a section marked: without them, and as long as nothing failed, a project
\* at rest is told as it is and, but for a stop, has rewritten what was
\* reopened.
THEOREM ApartProjectSettles ==
  Spec /\ []ReopensApart => [](faults = 0 => NoOrphanRun /\ ReopenedIsRewritten)
<1>1. RunInv /\ ApartInv => (faults = 0 => ReopenedIsRewritten)
  BY DEF RunInv, StatusTellsThread, ApartInv, MarkedIsQueued, WillRewrite, ReopenedIsRewritten,
         Quiet, Live, LivePcs, InFlight, Requests
<1>2. Spec /\ []ReopensApart => [](RunInv /\ ApartInv)
  BY ApartStart, ApartStep, RunInvariant, PTL DEF Spec
<1> QED
  BY <1>1, <1>2, ApartIsAlone, NoRowIsOrphaned, PTL

-----------------------------------------------------------------------------
(* Requests that come one at a time. *)

\* At most one answer and one reopening, no resume; the creation may be asked
\* for several times, for one alone succeeds.
LoneRequests ==
  /\ Resumers = {}
  /\ \A a, b \in Answerers : a = b
  /\ \A p, q \in Reopeners : p = q

\* The thread has no checkpoint until the run of the creation writes one, and
\* nothing else goes on until then.
CreatedFirst ==
  \A c \in Creators :
    /\ hpc[c] = "start" => /\ run_status = "idle" /\ phase = "none"
                           /\ \A q \in Requests : ~Live(q)
                           /\ \A d \in Creators : hpc[d] = "start" => d = c
    /\ tpc[c] \in {"begin", "invoke"} => phase = "none"
    /\ tpc[c] = "begin" => run_status = "idle"

\* The only answer names a question, holds it once it has found it pending, and
\* its run is the next to move the thread.
AnswerHoldsPending ==
  \A a \in Answerers :
    /\ hpc[a] \in {"snap", "decide"} => named[a] # 0
    /\ \/ hpc[a] = "decide" /\ seen[a].id = named[a]
       \/ tpc[a] \in {"begin", "invoke"}
       => phase = "interrupted" /\ pending = named[a]

\* A task that publishes how its run ended tells what the thread still is.
EndsAsWritten ==
  \A q \in Requests : /\ tpc[q] = "pubInteraction" => phase = "interrupted"
                      /\ tpc[q] = "purge" => phase = "finished"

\* A task is alive once its request was answered, and a reopening reworks.
LiveIsStarted ==
  \A q \in Requests : Live(q) => /\ hpc[q] = "started"
                                 /\ q \in Reopeners => input[q] = "rework"

\* The invariant of a project whose requests come one at a time.
LoneInv ==
  /\ ReopensAtRest
  /\ DecidedOnDone
  /\ ReadDoneStaysDone
  /\ ReworkFromTheEnd
  /\ CreatedFirst
  /\ AnswerHoldsPending
  /\ EndsAsWritten
  /\ LiveIsStarted

\* A request launches only from where its route does.
LEMMA WhereStarted ==
  ASSUME TypeOK, LoneRequests, NEW r \in Requests, Arrival(r) \/ HandlerStep(r) \/ HandlerFault(r),
         ~UNCHANGED <<tpc, input>>
  PROVE  \/ r \in Creators /\ StartCreated(r)
         \/ r \in Answerers /\ DecideAnswer(r) /\ seen[r].id = named[r]
         \/ r \in Reopeners /\ LaunchReopen(r)
  BY DEF Arrival, InsertRow, ReceiveAnswer, ReceiveResume, ReceiveReopen, HandlerFault, HandlerStep,
         StartCreated, ReadSnapshot, DecideAnswer, DecideReopen, MarkForReopening, SetReopenStatus,
         LaunchReopen, LoneRequests, tasks

\* A task that starts is one of a request just answered.
LEMMA StartedStep == TypeOK /\ LoneRequests /\ LiveIsStarted /\ [Next]_vars => LiveIsStarted'
<1> SUFFICES ASSUME TypeOK, LoneRequests, LiveIsStarted, [Next]_vars PROVE LiveIsStarted'
  OBVIOUS
<1> USE DEF TypeOK, HandlerType, TaskType, LiveIsStarted
<1>1. ASSUME NEW r \in Requests, Arrival(r) \/ HandlerStep(r) \/ HandlerFault(r)
      PROVE  LiveIsStarted'
  <2>1. \A q \in Requests \ {r} : (Live(q)' <=> Live(q)) /\ hpc'[q] = hpc[q] /\ input'[q] = input[q]
    BY <1>1, RequestMoves DEF Live
  <2>2. CASE UNCHANGED <<tpc, input>>
    <3>1. hpc[r] # "started"
      BY <1>1 DEF Arrival, InsertRow, ReceiveAnswer, ReceiveResume, ReceiveReopen, ReadRow, HandlerFault,
         HandlerStep, StartCreated, ReadSnapshot, DecideAnswer, CheckResume, DecideResume,
         SaveFacts, LaunchResume, DecideReopen, MarkForReopening, SetReopenStatus, LaunchReopen
    <3>2. ~Live(r)
      BY <3>1
    <3> QED
      BY <2>1, <2>2, <3>2 DEF Live
  <2>3. CASE ~UNCHANGED <<tpc, input>>
    <3>1. hpc'[r] = "started" /\ (r \in Reopeners => input'[r] = "rework")
      BY <1>1, <2>3, WhereStarted, RequestMoves, RequestKinds DEF LaunchReopen, start_run, tasks
    <3> QED
      BY <2>1, <3>1
  <2> QED
    BY <2>2, <2>3
<1>2. ASSUME NEW r \in Requests, TaskStep(r) \/ TaskFault(r)
      PROVE  LiveIsStarted'
  <2>1. UNCHANGED <<hpc, input>>
    BY <1>2 DEF TaskStep, WriteRunning, InvokeState, InvokeNothing, InvokeResume,
         Interrupt, SaveRow, CommitSave, Finish, Settle, WriteWaiting, PublishInteraction,
         WriteDone, PurgeThenPublishDone, WriteFailed, TaskFault, RunningFault, RunFault,
         WriteFailedFault, Forget, Move, Publish, handlers
  <2>2. \A q \in Requests : Live(q)' => Live(q)
    BY <1>2 DEF TaskStep, WriteRunning, InvokeState, InvokeNothing, InvokeResume,
         Interrupt, SaveRow, CommitSave, Finish, Settle, WriteWaiting, PublishInteraction,
         WriteDone, PurgeThenPublishDone, WriteFailed, TaskFault, RunningFault, RunFault,
         WriteFailedFault, Forget, Move, Publish, At, Live, LivePcs
  <2> QED
    BY <2>1, <2>2
<1>3. CASE Stop
  BY <1>3 DEF Stop, Live, LivePcs
<1>4. CASE Restart \/ RestartUnreconciled \/ UNCHANGED vars
  BY <1>4 DEF Restart, RestartUnreconciled, vars, handlers, tasks, Live
<1> QED
  BY <1>1, <1>2, <1>3, <1>4 DEF Next

\* Who moves the thread: its only driver.
LEMMA DriverMovesThread ==
  ASSUME RunInv, [Next]_vars, ~UNCHANGED <<phase, pending>>
  PROVE  \E r \in Requests : /\ tpc[r] \in {"invoke", "graph"}
                             /\ TaskStep(r)
                             /\ \A q \in Requests \ {r} : ~Live(q)
                             /\ tpc'[r] # tpc[r]
                             /\ tpc'[r] \notin {"begin", "invoke", "pubInteraction", "purge"}
<1>1. PICK r \in Requests : TaskStep(r) \/ TaskFault(r)
  BY RequestFrame DEF Next, Stop, Restart, RestartUnreconciled, vars, thread, RunInv
<1>2. InvokeState(r) \/ InvokeResume(r) \/ Interrupt(r) \/ Finish(r)
  BY <1>1 DEF TaskStep, WriteRunning, InvokeNothing,
         SaveRow, CommitSave, Settle, WriteWaiting, PublishInteraction,
         WriteDone, PurgeThenPublishDone, WriteFailed, TaskFault, RunningFault, RunFault,
         WriteFailedFault, Forget, thread
<1>3. /\ tpc[r] \in {"invoke", "graph"} /\ tpc'[r] # tpc[r]
      /\ tpc'[r] \notin {"begin", "invoke", "pubInteraction", "purge"}
  BY <1>2 DEF InvokeState, InvokeResume, Interrupt, Finish, At, Move, RunInv, TypeOK, TaskType
<1>4. \A q \in Requests \ {r} : ~Live(q)
  BY <1>3 DEF RunInv, EntryIsTheLiveTask, Live, LivePcs
<1> QED
  BY <1>2, <1>3, <1>4 DEF TaskStep

\* Between its last write and its last word, a task is alone with the thread.
LEMMA EndsStep == RunInv /\ EndsAsWritten /\ [Next]_vars => EndsAsWritten'
<1> SUFFICES ASSUME RunInv, EndsAsWritten, [Next]_vars PROVE EndsAsWritten'
  OBVIOUS
<1> USE DEF RunInv, TypeOK, TaskType, EndsAsWritten
<1>1. ASSUME NEW q \in Requests, tpc'[q] \in {"pubInteraction", "purge"}, tpc[q] = tpc'[q]
      PROVE  phase' = phase
  BY <1>1, DriverMovesThread DEF Live, LivePcs
<1>2. ASSUME NEW q \in Requests, tpc'[q] \in {"pubInteraction", "purge"}, tpc[q] # tpc'[q]
      PROVE  WriteWaiting(q) \/ WriteDone(q)
  <2>1. PICK r \in Requests : TaskStep(r) \/ TaskFault(r)
    BY <1>2, RequestFrame DEF Next, Stop, LivePcs, Restart, RestartUnreconciled, vars, tasks
  <2>2. q = r
    BY <1>2, <2>1, TaskFrame
  <2> QED
    BY <1>2, <2>1, <2>2 DEF TaskStep, WriteRunning, InvokeState, InvokeNothing, InvokeResume,
         Interrupt, SaveRow, CommitSave, Finish, Settle, PublishInteraction,
         PurgeThenPublishDone, WriteFailed, TaskFault, RunningFault, RunFault,
         WriteFailedFault, Forget, Move, Publish, At
<1>3. ASSUME NEW q \in Requests, WriteWaiting(q) \/ WriteDone(q)
      PROVE  /\ tpc'[q] = "pubInteraction" => phase' = "interrupted"
             /\ tpc'[q] = "purge" => phase' = "finished"
  BY <1>3 DEF WriteWaiting, WriteDone, At, Move, DriverOwnsThread, thread
<1> QED
  BY <1>1, <1>2, <1>3

\* What the parts of the invariant tell together of a task that has not
\* written yet, and of one that has.
LEMMA WhoIsAlive ==
  ASSUME RunInv, LoneRequests, LoneInv, NEW q \in Requests, Live(q)
  PROVE  /\ tpc[q] \in {"begin", "invoke"} =>
              \/ q \in Creators /\ phase = "none"
              \/ q \in Answerers /\ phase = "interrupted" /\ pending = named[q]
              \/ q \in Reopeners /\ phase = "finished"
         /\ tpc[q] = "graph" => phase = "active"
         /\ run_status = "absent" => FALSE
         /\ run_status = "done" => tpc[q] \in {"purge", "toFailed"} \/ (q \in Reopeners /\ tpc[q] = "begin")
<1>1. q \in Creators \cup Answerers \cup Reopeners
  BY DEF LoneRequests, Requests
<1>2. tpc[q] \in {"begin", "invoke"} =>
              \/ q \in Creators /\ phase = "none"
              \/ q \in Answerers /\ phase = "interrupted" /\ pending = named[q]
              \/ q \in Reopeners /\ phase = "finished"
  BY <1>1 DEF LoneInv, CreatedFirst, AnswerHoldsPending, LiveIsStarted, ReworkFromTheEnd
<1>3. tpc[q] = "begin" /\ q \in Creators => run_status = "idle"
  BY DEF LoneInv, CreatedFirst
<1> QED
  BY <1>2, <1>3 DEF RunInv, StatusTellsThread, CheckpointShape, DriverOwnsThread, LoneInv,
     EndsAsWritten, Live, LivePcs

\* Only the creation of a project without checkpoint starts it, and nothing
\* that answers or reopens can begin before.
LEMMA CreatedStep ==
  ASSUME RunInv, LoneRequests, LoneInv, [Next]_vars
  PROVE  CreatedFirst'
<1> USE DEF RunInv, TypeOK, HandlerType, TaskType
<1>1. ASSUME NEW r \in Requests, Arrival(r) \/ HandlerStep(r) \/ HandlerFault(r)
      PROVE  CreatedFirst'
  <2>1. phase' = phase
    BY <1>1, RequestFrame DEF thread
  <2>2. \A q \in Creators \ {r} : hpc'[q] = hpc[q] /\ tpc'[q] = tpc[q]
    BY <1>1, RequestMoves DEF Requests
  <2>3. ASSUME NEW c \in Creators, hpc[c] = "start" \/ tpc[c] = "begin"
        PROVE  run_status' = run_status /\ ~InsertRow(r)
    <3>1. run_status = "idle"
      BY <2>3 DEF LoneInv, CreatedFirst
    <3>2. ~(r \in Reopeners /\ hpc[r] = "status")
      <4>1. CASE hpc[c] = "start"
        BY <4>1 DEF LoneInv, CreatedFirst, DecidedOnDone, ReadDoneStaysDone, InFlight
      <4>2. CASE tpc[c] = "begin"
        BY <4>2 DEF LoneInv, ReopensAtRest, DecidedOnDone, InFlight, Live, LivePcs, Requests
      <4> QED
        BY <2>3, <4>1, <4>2
    <3> QED
      BY <1>1, <3>1, <3>2 DEF Arrival, InsertRow, ReceiveAnswer, ReceiveResume, ReceiveReopen, HandlerFault,
         HandlerStep, StartCreated, ReadSnapshot, DecideAnswer, CheckResume, DecideResume, database,
         SaveFacts, LaunchResume, DecideReopen, MarkForReopening, SetReopenStatus, LaunchReopen
  <2>4. CASE r \in Creators /\ InsertRow(r)
    <3>1. /\ run_status = "absent" /\ run_status' = "idle" /\ UNCHANGED tpc
          /\ hpc' = [hpc EXCEPT ![r] = "start"]
      BY <2>4 DEF InsertRow, Goto, tasks
    <3>2. phase = "none" /\ \A q \in Requests : ~Live(q)
      BY <3>1, WhoIsAlive DEF CheckpointShape
    <3>3. \A d \in Creators : hpc[d] # "start"
      BY <3>1 DEF LoneInv, CreatedFirst
    <3> QED
      BY <2>1, <3>1, <3>2, <3>3 DEF CreatedFirst, Live, LivePcs, Requests
  <2>5. CASE ~(r \in Creators /\ InsertRow(r)) /\ UNCHANGED <<tpc, input>>
    <3>1. \A c \in Creators : hpc'[c] = "start" => hpc[c] = "start"
      <4>1. r \in Creators => HandlerFault(r) \/ ReadSnapshot(r) \/ StartCreated(r)
        BY <1>1, <2>5, RequestKinds DEF Arrival, HandlerStep, Requests
      <4> QED
        BY <2>2, <2>5, <4>1 DEF HandlerFault, ReadSnapshot, StartCreated, start_run, Reply
    <3> QED
      BY <2>1, <2>3, <2>5, <3>1 DEF LoneInv, CreatedFirst, Live
  <2>6. CASE ~UNCHANGED <<tpc, input>>
    <3>1. ~is_running /\ tpc' = [tpc EXCEPT ![r] = "begin"] /\ hpc'[r] = "started"
      BY <1>1, <2>6, RequestMoves
    <3>2. CASE r \in Creators /\ StartCreated(r)
      <4>1. hpc[r] = "start" /\ run_status' = run_status
        BY <3>2 DEF StartCreated, database
      <4> QED
        BY <2>1, <2>2, <3>1, <3>2, <4>1 DEF LoneInv, CreatedFirst, Live, LivePcs, Requests
    <3>3. CASE r \in Answerers /\ DecideAnswer(r) /\ seen[r].id = named[r]
      <4>1. phase = "interrupted" /\ \A c \in Creators : c # r
        BY <3>3, RequestKinds DEF DecideAnswer, LoneInv, AnswerHoldsPending
      <4> QED
        BY <2>1, <2>2, <4>1, <2>3 DEF LoneInv, CreatedFirst
    <3>4. CASE r \in Reopeners /\ LaunchReopen(r)
      <4>1. phase = "finished" /\ \A c \in Creators : c # r
        BY <3>4, RequestKinds DEF LaunchReopen, LoneInv, DecidedOnDone, ReadDoneStaysDone, InFlight
      <4> QED
        BY <2>1, <2>2, <4>1, <2>3 DEF LoneInv, CreatedFirst
    <3> QED
      BY <1>1, <2>6, <3>2, <3>3, <3>4, WhereStarted
  <2> QED
    BY <2>4, <2>5, <2>6
<1>2. ASSUME NEW r \in Requests, TaskStep(r) \/ TaskFault(r)
      PROVE  CreatedFirst'
  <2>1. UNCHANGED hpc /\ \A q \in Requests \ {r} : tpc'[q] = tpc[q]
    BY <1>2, TaskFrame DEF handlers
  <2>2. \A q \in Requests : Live(q)' => Live(q)
    BY <1>2 DEF TaskStep, WriteRunning, InvokeState, InvokeNothing, InvokeResume,
         Interrupt, SaveRow, CommitSave, Finish, Settle, WriteWaiting, PublishInteraction,
         WriteDone, PurgeThenPublishDone, WriteFailed, TaskFault, RunningFault, RunFault,
         WriteFailedFault, Forget, Move, Publish, At, Live, LivePcs
  <2>3. Live(r) \/ UNCHANGED <<run_status, phase>>
    BY <1>2 DEF TaskStep, WriteRunning, InvokeState, InvokeNothing, InvokeResume,
         Interrupt, SaveRow, CommitSave, Finish, Settle, WriteWaiting, PublishInteraction,
         WriteDone, PurgeThenPublishDone, WriteFailed, TaskFault, RunningFault, RunFault,
         WriteFailedFault, Forget, At, Live, LivePcs, database, thread
  <2>4. ASSUME NEW c \in Creators, hpc[c] = "start"
        PROVE  UNCHANGED <<run_status, phase>> /\ \A q \in Requests : ~Live(q)'
    BY <2>2, <2>3, <2>4 DEF LoneInv, CreatedFirst
  <2>5. ASSUME NEW c \in Creators, tpc'[c] \in {"begin", "invoke"}
        PROVE  phase' = "none" /\ (tpc'[c] = "begin" => run_status' = "idle")
    <3>1. Live(c)'
      BY <2>5 DEF Live, LivePcs
    <3>2. CASE c # r
      <4>1. ~Live(r)
        BY <2>2, <3>1, <3>2 DEF EntryIsTheLiveTask, Requests
      <4> QED
        BY <2>1, <2>3, <2>5, <3>2, <4>1 DEF LoneInv, CreatedFirst, Requests
    <3>3. CASE c = r
      <4>1. tpc[r] = "begin" /\ tpc'[r] = "invoke" /\ phase' = phase
        BY <1>2, <2>5, <3>3, TaskMoves DEF TaskStep, WriteRunning, InvokeState, InvokeNothing, InvokeResume,
         Interrupt, SaveRow, CommitSave, Finish, Settle, WriteWaiting, PublishInteraction,
         WriteDone, PurgeThenPublishDone, WriteFailed, TaskFault, RunningFault, RunFault,
         WriteFailedFault, Forget, Move, Publish, At, thread
      <4> QED
        BY <3>3, <4>1 DEF LoneInv, CreatedFirst
    <3> QED
      BY <3>2, <3>3
  <2> QED
    BY <2>1, <2>4, <2>5 DEF LoneInv, CreatedFirst
<1>3. CASE Stop
  BY <1>3 DEF Stop, CreatedFirst, LivePcs, InFlight, Requests
<1>4. CASE Restart
  <2>1. run_status = "idle" => run_status' = "idle"
    BY <1>4 DEF Restart
  <2> QED
    BY <1>4, <2>1 DEF Restart, CreatedFirst, LoneInv, handlers, tasks, thread, Live
<1>5. CASE RestartUnreconciled \/ UNCHANGED vars
  BY <1>5 DEF RestartUnreconciled, vars, CreatedFirst, LoneInv, handlers, tasks, thread, database, Live
<1> QED
  BY <1>1, <1>2, <1>3, <1>4, <1>5 DEF Next

\* The only answer keeps the question it holds: nobody else can consume it.
LEMMA AnswerStep ==
  ASSUME RunInv, LoneRequests, LoneInv, LiveIsStarted', [Next]_vars
  PROVE  AnswerHoldsPending'
<1> USE DEF RunInv, TypeOK, HandlerType, TaskType
<1>1. ASSUME NEW r \in Requests, Arrival(r) \/ HandlerStep(r) \/ HandlerFault(r)
      PROVE  AnswerHoldsPending'
  <2>1. UNCHANGED <<phase, pending>>
    BY <1>1, RequestFrame DEF thread
  <2>2. \A q \in Answerers \ {r} : /\ hpc'[q] = hpc[q] /\ seen'[q] = seen[q] /\ tpc'[q] = tpc[q]
                                   /\ named'[q] = named[q]
    BY <1>1, RequestMoves DEF Requests
  <2>3. ASSUME r \in Answerers
        PROVE  /\ hpc'[r] \in {"snap", "decide"} => named'[r] # 0
               /\ \/ hpc'[r] = "decide" /\ seen'[r].id = named'[r]
                  \/ tpc'[r] \in {"begin", "invoke"}
                  => phase = "interrupted" /\ pending = named'[r]
    <3>1. ReceiveAnswer(r) \/ ReadSnapshot(r) \/ DecideAnswer(r) \/ HandlerFault(r)
      BY <1>1, <2>3, RequestKinds DEF Arrival, HandlerStep, Requests
    <3>2. CASE ReceiveAnswer(r)
      <4>1. hpc'[r] = "snap" /\ named'[r] \in 1..issued /\ hpc[r] = "new" /\ UNCHANGED tpc
        BY <2>3, <3>2 DEF ReceiveAnswer, ReadRow, tasks, Requests
      <4>2. ~Live(r)
        BY <4>1 DEF LoneInv, LiveIsStarted
      <4> QED
        BY <4>1, <4>2, Bounds DEF Live, LivePcs, ThreadType
    <3>3. CASE ReadSnapshot(r)
      <4>1. hpc[r] = "snap" /\ named'[r] = named[r] /\ seen'[r].id = pending /\ UNCHANGED tpc
        BY <2>3, <3>3 DEF ReadSnapshot, tasks, Requests
      <4>2. ~Live(r) /\ named[r] # 0
        BY <2>3, <4>1 DEF LoneInv, LiveIsStarted, AnswerHoldsPending
      <4> QED
        BY <4>1, <4>2 DEF Live, LivePcs, PendingIsInterrupted
    <3>4. CASE DecideAnswer(r) \/ HandlerFault(r)
      <4>1. hpc'[r] \notin {"snap", "decide"} /\ UNCHANGED named
        BY <3>4 DEF DecideAnswer, HandlerFault, start_run, Reply, handlers
      <4>2. CASE UNCHANGED <<tpc, input>>
        BY <2>3, <4>1, <4>2 DEF LoneInv, AnswerHoldsPending
      <4>3. CASE ~UNCHANGED <<tpc, input>>
        <5>1. hpc[r] = "decide" /\ seen[r].id = named[r]
          BY <1>1, <2>3, <4>3, WhereStarted, RequestKinds DEF DecideAnswer, Requests
        <5> QED
          BY <2>3, <4>1, <5>1 DEF LoneInv, AnswerHoldsPending
      <4> QED
        BY <4>2, <4>3
    <3> QED
      BY <3>1, <3>2, <3>3, <3>4
  <2> QED
    BY <2>1, <2>2, <2>3 DEF LoneInv, AnswerHoldsPending
<1>2. ASSUME NEW r \in Requests, TaskStep(r) \/ TaskFault(r)
      PROVE  AnswerHoldsPending'
  <2>1. UNCHANGED handlers /\ \A q \in Requests \ {r} : tpc'[q] = tpc[q]
    BY <1>2, TaskFrame
  <2>2. CASE UNCHANGED <<phase, pending>>
    <3>1. tpc'[r] \in {"begin", "invoke"} => tpc[r] \in {"begin", "invoke"}
      BY <1>2, TaskMoves DEF TaskStep, WriteRunning, InvokeState, InvokeNothing, InvokeResume,
         Interrupt, SaveRow, CommitSave, Finish, Settle, WriteWaiting, PublishInteraction,
         WriteDone, PurgeThenPublishDone, WriteFailed, TaskFault, RunningFault, RunFault,
         WriteFailedFault, Forget, Move, Publish, At
    <3> QED
      BY <2>1, <2>2, <3>1 DEF LoneInv, AnswerHoldsPending, handlers, Requests
  <2>3. CASE ~UNCHANGED <<phase, pending>>
    <3>1. PICK d \in Requests : /\ tpc[d] \in {"invoke", "graph"} /\ tpc'[d] # tpc[d]
                                /\ \A q \in Requests \ {d} : ~Live(q)
                                /\ tpc'[d] \notin {"begin", "invoke", "pubInteraction", "purge"}
      BY <1>2, <2>3, DriverMovesThread DEF Next
    <3>2. d = r
      BY <2>1, <3>1
    <3>3. \A a \in Answerers : tpc'[a] \notin {"begin", "invoke"}
      BY <2>1, <3>1, <3>2 DEF Live, LivePcs, Requests
    <3>4. ASSUME NEW a \in Answerers, hpc[a] = "decide", seen[a].id = named[a]
          PROVE  FALSE
      <4>1. phase = "interrupted" /\ ~Live(a)
        BY <3>4 DEF LoneInv, AnswerHoldsPending, LiveIsStarted, Requests
      <4>2. Live(d) /\ (d \in Answerers => d = a)
        BY <3>1 DEF Live, LivePcs, LoneRequests
      <4> QED
        BY <3>1, <4>1, <4>2, WhoIsAlive
    <3> QED
      BY <2>1, <3>3, <3>4 DEF LoneInv, AnswerHoldsPending, handlers
  <2> QED
    BY <2>2, <2>3
<1>3. CASE Stop
  BY <1>3 DEF Stop, AnswerHoldsPending, LivePcs, InFlight, Requests
<1>4. CASE Restart \/ RestartUnreconciled \/ UNCHANGED vars
  BY <1>4 DEF Restart, RestartUnreconciled, vars, handlers, tasks, thread, LoneInv, AnswerHoldsPending
<1> QED
  BY <1>1, <1>2, <1>3, <1>4 DEF Next

\* A reopening reads `done` when the run that wrote it is at its last word, and
\* nobody is left to start another.
LEMMA AtRestStep ==
  ASSUME RunInv, LoneRequests, LoneInv, [Next]_vars
  PROVE  ReopensAtRest'
<1> USE DEF RunInv, TypeOK, HandlerType, TaskType
<1>1. ASSUME NEW r \in Requests, Arrival(r) \/ HandlerStep(r) \/ HandlerFault(r)
      PROVE  ReopensAtRest'
  <2> SUFFICES ASSUME NEW p \in Reopeners, hpc'[p] \in InFlight, seen'[p].row = "done",
                      NEW q \in Requests, Live(q)'
               PROVE  tpc'[q] \in {"purge", "toFailed"}
    BY DEF ReopensAtRest
  <2>1. CASE hpc[p] \in InFlight /\ seen[p].row = "done"
    <3>1. CASE UNCHANGED <<tpc, input>>
      BY <2>1, <3>1 DEF LoneInv, ReopensAtRest, Live
    <3>2. CASE ~UNCHANGED <<tpc, input>>
      <4>1. phase = "finished"
        BY <2>1 DEF LoneInv, ReadDoneStaysDone
      <4>2. hpc'[r] = "started"
        BY <1>1, <3>2, RequestMoves
      <4>3. r # p /\ r \notin Reopeners
        BY <4>2 DEF LoneRequests, InFlight
      <4>4. \/ r \in Creators /\ StartCreated(r)
            \/ r \in Answerers /\ DecideAnswer(r) /\ seen[r].id = named[r]
        BY <1>1, <3>2, <4>3, WhereStarted
      <4> QED
        BY <4>1, <4>4 DEF StartCreated, DecideAnswer, LoneInv, CreatedFirst, AnswerHoldsPending
    <3> QED
      BY <3>1, <3>2
  <2>2. CASE ~(hpc[p] \in InFlight /\ seen[p].row = "done")
    <3>1. p = r
      BY <1>1, <2>2, RequestMoves DEF Requests
    <3>2. ReceiveReopen(r)
      BY <1>1, <2>2, <3>1, ReopenerMoves DEF ReadSnapshot, DecideReopen, MarkForReopening, Unread,
         SetReopenStatus, LaunchReopen, HandlerFault, start_run, Reply, Goto, Requests, InFlight
    <3>3. run_status = "done" /\ hpc[r] = "new" /\ UNCHANGED tpc
      BY <3>1, <3>2 DEF ReceiveReopen, ReadRow, tasks, Requests
    <3>4. Live(q)
      BY <3>3 DEF Live
    <3>5. ~(q \in Reopeners /\ tpc[q] = "begin")
      BY <3>1, <3>3, <3>4 DEF LoneInv, LiveIsStarted, LoneRequests
    <3> QED
      BY <3>3, <3>4, <3>5, WhoIsAlive
  <2> QED
    BY <2>1, <2>2
<1>2. ASSUME NEW r \in Requests, TaskStep(r) \/ TaskFault(r)
      PROVE  ReopensAtRest'
  <2>1. UNCHANGED handlers /\ \A q \in Requests \ {r} : tpc'[q] = tpc[q]
    BY <1>2, TaskFrame
  <2>2. tpc[r] \notin LivePcs \ {"purge", "toFailed"} => ~Live(r)'
    BY <1>2 DEF TaskStep, WriteRunning, InvokeState, InvokeNothing, InvokeResume,
         Interrupt, SaveRow, CommitSave, Finish, Settle, WriteWaiting, PublishInteraction,
         WriteDone, PurgeThenPublishDone, WriteFailed, TaskFault, RunningFault, RunFault,
         WriteFailedFault, Forget, Move, Publish, At, Live, LivePcs
  <2> QED
    BY <2>1, <2>2 DEF LoneInv, ReopensAtRest, handlers, Live
<1>3. CASE Stop
  BY <1>3 DEF Stop, ReopensAtRest, InFlight, Requests
<1>4. CASE Restart \/ RestartUnreconciled \/ UNCHANGED vars
  BY <1>4 DEF Restart, RestartUnreconciled, vars, handlers, tasks, LoneInv, ReopensAtRest, Live
<1> QED
  BY <1>1, <1>2, <1>3, <1>4 DEF Next

\* The invariant of lone requests is inductive, with that of the runs.
LEMMA LoneStep == LoneRequests /\ RunInv /\ LoneInv /\ [Next]_vars => LoneInv'
<1> SUFFICES ASSUME LoneRequests, RunInv, LoneInv, [Next]_vars PROVE LoneInv'
  OBVIOUS
<1>1. LiveIsStarted'
  BY StartedStep DEF RunInv, LoneInv
<1>2. ReopensAtRest' /\ CreatedFirst' /\ AnswerHoldsPending'
  BY <1>1, AtRestStep, CreatedStep, AnswerStep
<1>3. DecidedOnDone' /\ ReadDoneStaysDone' /\ ReworkFromTheEnd' /\ EndsAsWritten'
  BY DecidedStep, ReadDoneStep, ReworkStep, EndsStep DEF RunInv, LoneInv
<1> QED
  BY <1>1, <1>2, <1>3 DEF LoneInv

\* A project whose requests come one at a time meets the condition, whatever
\* its plan, its questions, its failures and its stops.
THEOREM LoneIsAtRest == ASSUME LoneRequests PROVE Spec => []ReopensAtRest
<1>1. Init => LoneInv
  BY DEF Init, LoneInv, ReopensAtRest, DecidedOnDone, ReadDoneStaysDone, ReworkFromTheEnd,
         CreatedFirst, AnswerHoldsPending, EndsAsWritten, LiveIsStarted, Live, LivePcs, InFlight,
         Requests
<1>2. LoneInv /\ RunInv /\ [Next]_vars => LoneInv'
  BY LoneStep
<1>3. LoneInv => ReopensAtRest
  BY DEF LoneInv
<1> QED
  BY <1>1, <1>2, <1>3, RunInvariant, PTL DEF Spec

\* A creation, an answer and a reopening, with any stops between them: as long
\* as nothing failed, no row is left `running` and, but for a stop, no section
\* is left marked.
THEOREM LoneProjectSettles ==
  ASSUME LoneRequests
  PROVE  Spec => [](faults = 0 => NoOrphanRun /\ ReopenedIsRewritten)
  BY LoneIsAtRest, AtRestIsAlone, NoRowIsOrphaned, MarkedIsRewritten, PTL
=============================================================================
