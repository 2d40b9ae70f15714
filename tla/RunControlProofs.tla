-------------------------- MODULE RunControlProofs ---------------------------
(* Proofs about RunControl, for any requests, plan and bounds.             *)
EXTENDS RunControl, TLAPS

-----------------------------------------------------------------------------
(* Types. *)

\* A read that was answered is forgotten.
LEMMA UnreadType == Unread \in [row : Statuses, phase : Phases, id : 0..MaxInteractions]
  BY Bounds DEF Unread, Statuses, Phases

\* The initial state is well typed.
LEMMA InitTypeOK == Init => TypeOK
<1> SUFFICES ASSUME Init PROVE TypeOK
  OBVIOUS
<1>1. DatabaseType
  BY DEF Init, DatabaseType, Statuses
<1>2. ThreadType
  <2>1. /\ phase \in Phases /\ todo \in SUBSET Sections /\ arbitrated \in BOOLEAN
        /\ applied \in SUBSET (Answerers \X (1..MaxInteractions))
    BY DEF Init, Phases
  <2>2. pending \in 0..MaxInteractions /\ issued \in 0..MaxInteractions
    BY Bounds DEF Init
  <2> QED
    BY <2>1, <2>2 DEF ThreadType
<1>3. ProcessType
  BY Bounds DEF Init, ProcessType
<1>4. HandlerType
  BY UnreadType, Bounds DEF Init, HandlerType
<1>5. TaskType
  BY DEF Init, TaskType, TaskPcs
<1> QED
  BY <1>1, <1>2, <1>3, <1>4, <1>5 DEF TypeOK

\* Answering a request keeps the handlers well typed.
LEMMA ReplyType ==
  ASSUME HandlerType, NEW r \in Requests, NEW answer \in Replies, Reply(r, answer)
  PROVE  /\ hpc' \in [Requests -> {"new"} \cup InFlight \cup Replies]
         /\ seen' \in [Requests -> [row : Statuses, phase : Phases, id : 0..MaxInteractions]]
<1>1. answer \in {"new"} \cup InFlight \cup Replies
  OBVIOUS
<1>2. hpc' \in [Requests -> {"new"} \cup InFlight \cup Replies]
  BY <1>1 DEF HandlerType, Reply
<1>3. seen' \in [Requests -> [row : Statuses, phase : Phases, id : 0..MaxInteractions]]
  BY UnreadType DEF HandlerType, Reply
<1> QED
  BY <1>2, <1>3

\* start_run changes the registry, the request and its task, and nothing else.
LEMMA StartType ==
  ASSUME TypeOK, NEW r \in Requests, NEW kind \in {"init", "none", "resume", "rework"},
         NEW refusal \in Replies, start_run(r, kind, refusal)
  PROVE  /\ entry' \in Requests \cup {NoTask}
         /\ hpc' \in [Requests -> {"new"} \cup InFlight \cup Replies]
         /\ seen' \in [Requests -> [row : Statuses, phase : Phases, id : 0..MaxInteractions]]
         /\ TaskType'
<1> USE DEF TypeOK
<1>1. CASE is_running
  <2>1. Reply(r, refusal) /\ entry' = entry /\ UNCHANGED tasks
    BY <1>1 DEF start_run
  <2> QED
    BY <2>1, ReplyType DEF ProcessType, TaskType, tasks
<1>2. CASE ~is_running
  <2>1. Reply(r, "started") /\ "started" \in Replies
    BY <1>2 DEF start_run, Replies
  <2>2. tpc' = [tpc EXCEPT ![r] = "begin"] /\ "begin" \in TaskPcs
    BY <1>2 DEF start_run, TaskPcs, LivePcs
  <2>3. TaskType'
    BY <1>2, <2>2 DEF start_run, TaskType
  <2>4. entry' \in Requests \cup {NoTask}
    BY <1>2 DEF start_run, register
  <2> QED
    BY <2>1, <2>3, <2>4, ReplyType
<1> QED
  BY <1>1, <1>2

\* What a request does keeps the types.
LEMMA RequestType ==
  ASSUME TypeOK, NEW r \in Requests, Arrival(r) \/ HandlerStep(r) \/ HandlerFault(r)
  PROVE  TypeOK'
<1> USE DEF TypeOK, database, thread, handlers, tasks
<1>1. CASE r \in Creators /\ InsertRow(r)
  BY <1>1 DEF InsertRow, Goto, Statuses, InFlight, DatabaseType, ThreadType, ProcessType, HandlerType, TaskType
<1>2. CASE r \in Answerers /\ ReceiveAnswer(r)
  BY <1>2, Bounds DEF ReceiveAnswer, ReadRow, InFlight, Phases, DatabaseType, ThreadType, ProcessType, HandlerType, TaskType
<1>3. CASE r \in Resumers /\ ReceiveResume(r)
  BY <1>3, Bounds DEF ReceiveResume, ReadRow, InFlight, Phases, DatabaseType, ThreadType, ProcessType, HandlerType, TaskType
<1>4. CASE r \in Reopeners /\ ReceiveReopen(r)
  BY <1>4, Bounds DEF ReceiveReopen, ReadRow, InFlight, Phases, DatabaseType, ThreadType, ProcessType, HandlerType, TaskType
<1>5. CASE r \in Creators /\ StartCreated(r)
  BY <1>5, StartType DEF StartCreated, Replies, DatabaseType, ThreadType, ProcessType, HandlerType, TaskType
<1>6. CASE ReadSnapshot(r)
  BY <1>6 DEF ReadSnapshot, InFlight, DatabaseType, ThreadType, ProcessType, HandlerType, TaskType
<1>7. CASE r \in Answerers /\ DecideAnswer(r)
  BY <1>7, StartType, ReplyType DEF DecideAnswer, Replies, DatabaseType, ThreadType, ProcessType, HandlerType, TaskType
<1>8. CASE r \in Resumers /\ CheckResume(r)
  BY <1>8, ReplyType DEF CheckResume, Goto, Replies, InFlight, DatabaseType, ThreadType, ProcessType, HandlerType, TaskType
<1>9. CASE r \in Resumers /\ DecideResume(r)
  BY <1>9, StartType, ReplyType DEF DecideResume, Goto, Replies, InFlight, DatabaseType, ThreadType, ProcessType, HandlerType, TaskType
<1>10. CASE r \in Resumers /\ SaveFacts(r)
  BY <1>10 DEF SaveFacts, Goto, InFlight, DatabaseType, ThreadType, ProcessType, HandlerType, TaskType
<1>11. CASE r \in Resumers /\ LaunchResume(r)
  BY <1>11, StartType DEF LaunchResume, Replies, DatabaseType, ThreadType, ProcessType, HandlerType, TaskType
<1>12. CASE r \in Reopeners /\ DecideReopen(r)
  BY <1>12, ReplyType DEF DecideReopen, Goto, Replies, InFlight, DatabaseType, ThreadType, ProcessType, HandlerType, TaskType
<1>13. CASE r \in Reopeners /\ MarkForReopening(r)
  BY <1>13 DEF MarkForReopening, mark_for_reopening, Goto, InFlight, DatabaseType, ThreadType, ProcessType, HandlerType, TaskType
<1>14. CASE r \in Reopeners /\ SetReopenStatus(r)
  BY <1>14 DEF SetReopenStatus, Goto, InFlight, Statuses, DatabaseType, ThreadType, ProcessType, HandlerType, TaskType
<1>15. CASE r \in Reopeners /\ LaunchReopen(r)
  BY <1>15, StartType DEF LaunchReopen, Replies, DatabaseType, ThreadType, ProcessType, HandlerType, TaskType
<1>16. CASE HandlerFault(r)
  <2>1. /\ Reply(r, "error") /\ "error" \in Replies
        /\ UNCHANGED <<thread, up, entry, named, target, tasks, crashes>>
    BY <1>16 DEF HandlerFault, Replies
  <2>2. HandlerType'
    BY <2>1, ReplyType DEF HandlerType
  <2>3. DatabaseType'
    BY <1>16 DEF HandlerFault, mark_for_reopening, DatabaseType, Statuses
  <2>4. ProcessType'
    BY <1>16, Bounds DEF HandlerFault, ProcessType
  <2> QED
    BY <2>1, <2>2, <2>3, <2>4 DEF ThreadType, TaskType
<1> QED
  BY <1>1, <1>2, <1>3, <1>4, <1>5, <1>6, <1>7, <1>8, <1>9, <1>10, <1>11, <1>12, <1>13, <1>14, <1>15, <1>16 DEF Arrival, HandlerStep

\* What a task does keeps the types.
LEMMA TaskStepType ==
  ASSUME TypeOK, InputKinds, PendingIsInterrupted, NEW r \in Requests, TaskStep(r) \/ TaskFault(r)
  PROVE  TypeOK'
<1> USE DEF TypeOK, database, thread, handlers, tasks, At, Move, Publish, TaskPcs, LivePcs
<1>1. CASE WriteRunning(r)
  BY <1>1 DEF WriteRunning, Statuses, DatabaseType, ThreadType, ProcessType, HandlerType, TaskType
<1>2. CASE InvokeState(r)
  BY <1>2, PlanClosure, Bounds DEF InvokeState, InputKinds, Phases, DatabaseType, ThreadType, ProcessType, HandlerType, TaskType
<1>3. CASE InvokeNothing(r)
  BY <1>3 DEF InvokeNothing, DatabaseType, ThreadType, ProcessType, HandlerType, TaskType
<1>4. CASE InvokeResume(r)
  <2>1. r \in Answerers /\ pending \in 1..MaxInteractions
    BY <1>4, Bounds DEF InvokeResume, InputKinds, PendingIsInterrupted, ThreadType
  <2>2. ThreadType'
    BY <1>4, <2>1, Bounds DEF InvokeResume, Phases, ThreadType
  <2> QED
    BY <1>4, <2>2 DEF InvokeResume, DatabaseType, ProcessType, HandlerType, TaskType
<1>6. CASE Interrupt(r)
  BY <1>6, Bounds DEF Interrupt, Phases, DatabaseType, ThreadType, ProcessType, HandlerType, TaskType
<1>7. CASE SaveRow(r)
  BY <1>7 DEF SaveRow, DatabaseType, ThreadType, ProcessType, HandlerType, TaskType
<1>8. CASE CommitSave(r)
  BY <1>8 DEF CommitSave, DatabaseType, ThreadType, ProcessType, HandlerType, TaskType
<1>9. CASE Finish(r)
  BY <1>9 DEF Finish, Phases, DatabaseType, ThreadType, ProcessType, HandlerType, TaskType
<1>10. CASE Settle(r)
  BY <1>10 DEF Settle, DatabaseType, ThreadType, ProcessType, HandlerType, TaskType
<1>11. CASE WriteWaiting(r)
  BY <1>11 DEF WriteWaiting, Statuses, DatabaseType, ThreadType, ProcessType, HandlerType, TaskType
<1>12. CASE PublishInteraction(r)
  BY <1>12 DEF PublishInteraction, DatabaseType, ThreadType, ProcessType, HandlerType, TaskType
<1>13. CASE WriteDone(r)
  BY <1>13 DEF WriteDone, Statuses, DatabaseType, ThreadType, ProcessType, HandlerType, TaskType
<1>14. CASE PurgeThenPublishDone(r)
  BY <1>14 DEF PurgeThenPublishDone, DatabaseType, ThreadType, ProcessType, HandlerType, TaskType
<1>15. CASE WriteFailed(r)
  BY <1>15 DEF WriteFailed, Statuses, DatabaseType, ThreadType, ProcessType, HandlerType, TaskType
<1>16. CASE Forget(r)
  BY <1>16 DEF Forget, forget, DatabaseType, ThreadType, ProcessType, HandlerType, TaskType
<1>17. CASE RunningFault(r)
  BY <1>17, Bounds DEF RunningFault, Statuses, DatabaseType, ThreadType, ProcessType, HandlerType, TaskType
<1>18. CASE RunFault(r)
  BY <1>18, Bounds DEF RunFault, Statuses, DatabaseType, ThreadType, ProcessType, HandlerType, TaskType
<1>19. CASE WriteFailedFault(r)
  BY <1>19 DEF WriteFailedFault, DatabaseType, ThreadType, ProcessType, HandlerType, TaskType
<1> QED
  BY <1>1, <1>2, <1>3, <1>4, <1>6, <1>7, <1>8, <1>9, <1>10, <1>11, <1>12, <1>13, <1>14, <1>15, <1>16, <1>17, <1>18, <1>19 DEF TaskStep, TaskFault

\* Stops and restarts keep the types.
LEMMA ProcessStepType ==
  ASSUME TypeOK, Stop \/ Restart \/ RestartUnreconciled
  PROVE  TypeOK'
<1> USE DEF TypeOK, database, thread, handlers, tasks
<1>1. CASE Stop
  <2>1. hpc' \in [Requests -> {"new"} \cup InFlight \cup Replies]
    BY <1>1 DEF Stop, Replies, HandlerType
  <2>2. tpc' \in [Requests -> TaskPcs]
    BY <1>1 DEF Stop, TaskPcs, TaskType
  <2>3. seen' \in [Requests -> [row : Statuses, phase : Phases, id : 0..MaxInteractions]]
    BY <1>1, UnreadType DEF Stop
  <2>4. ProcessType'
    <3>1. up' \in BOOLEAN /\ entry' \in Requests \cup {NoTask}
      BY <1>1 DEF Stop
    <3>2. faults' \in 0..MaxFaults
      BY <1>1 DEF Stop, ProcessType
    <3>3. crashes' \in 0..MaxCrashes
      BY <1>1, Bounds DEF Stop, ProcessType
    <3> QED
      BY <3>1, <3>2, <3>3 DEF ProcessType
  <2>5. HandlerType'
    BY <1>1, <2>1, <2>3 DEF Stop, HandlerType
  <2>6. TaskType'
    BY <1>1, <2>2 DEF Stop, TaskType
  <2> QED
    BY <1>1, <2>4, <2>5, <2>6 DEF Stop, DatabaseType, ThreadType
<1>2. CASE Restart
  BY <1>2 DEF Restart, Statuses, DatabaseType, ThreadType, ProcessType, HandlerType, TaskType
<1>3. CASE RestartUnreconciled
  BY <1>3, Bounds DEF RestartUnreconciled, DatabaseType, ThreadType, ProcessType, HandlerType, TaskType
<1> QED
  BY <1>1, <1>2, <1>3

\* Stuttering keeps the types.
LEMMA StutterType == TypeOK /\ UNCHANGED vars => TypeOK'
  BY DEF TypeOK, vars, database, thread, handlers, tasks, DatabaseType, ThreadType,
         ProcessType, HandlerType, TaskType

\* Only an answer resumes, only a reopening reworks, and it has its section.
LEMMA InputKindsStep == TypeOK /\ InputKinds /\ [Next]_vars => InputKinds'
<1> SUFFICES ASSUME TypeOK, InputKinds, [Next]_vars PROVE InputKinds'
  OBVIOUS
<1> USE DEF TypeOK, HandlerType, TaskType, InputKinds, database, thread, handlers, tasks
<1>1. ASSUME NEW r \in Requests, Arrival(r)
      PROVE  InputKinds'
  BY <1>1, RequestKinds DEF Arrival, InsertRow, ReceiveAnswer, ReceiveResume, ReceiveReopen, ReadRow,
                            Goto, InFlight, Requests
<1>2. ASSUME NEW r \in Requests, HandlerStep(r)
      PROVE  InputKinds'
  BY <1>2, RequestKinds DEF HandlerStep, StartCreated, ReadSnapshot, DecideAnswer, CheckResume, DecideResume,
                            SaveFacts, LaunchResume, DecideReopen, MarkForReopening, SetReopenStatus,
                            LaunchReopen, start_run, Goto, Reply, InFlight, Requests
<1>3. ASSUME NEW r \in Requests, HandlerFault(r)
      PROVE  InputKinds'
  BY <1>3 DEF HandlerFault, Reply, InFlight
<1>4. ASSUME NEW r \in Requests, TaskStep(r) \/ TaskFault(r)
      PROVE  InputKinds'
  BY <1>4 DEF TaskStep, TaskFault, WriteRunning, InvokeState, InvokeNothing, InvokeResume,
              Interrupt, SaveRow, CommitSave, Finish, Settle, WriteWaiting, PublishInteraction,
              WriteDone, PurgeThenPublishDone, WriteFailed, Forget, RunningFault, RunFault,
              WriteFailedFault, Move, Publish
<1>5. ASSUME Stop \/ Restart \/ RestartUnreconciled
      PROVE  InputKinds'
  BY <1>5 DEF Stop, Restart, RestartUnreconciled, InFlight, Requests
<1>6. CASE UNCHANGED vars
  BY <1>6 DEF vars
<1> QED
  BY <1>1, <1>2, <1>3, <1>4, <1>5, <1>6 DEF Next

\* A question is pending exactly when the checkpoint is interrupted.
LEMMA PendingStep == TypeOK /\ PendingIsInterrupted /\ [Next]_vars => PendingIsInterrupted'
<1> SUFFICES ASSUME TypeOK, PendingIsInterrupted, [Next]_vars PROVE PendingIsInterrupted'
  OBVIOUS
<1> USE DEF PendingIsInterrupted, database, thread, handlers, tasks
<1>1. ASSUME NEW r \in Requests, Arrival(r) \/ HandlerStep(r) \/ HandlerFault(r)
      PROVE  UNCHANGED thread
  BY <1>1 DEF Arrival, InsertRow, ReceiveAnswer, ReceiveResume, ReceiveReopen, HandlerStep,
              StartCreated, ReadSnapshot, DecideAnswer, CheckResume, DecideResume, SaveFacts,
              LaunchResume, DecideReopen, MarkForReopening, SetReopenStatus, LaunchReopen,
              HandlerFault
<1>2. ASSUME NEW r \in Requests, TaskStep(r) \/ TaskFault(r)
      PROVE  PendingIsInterrupted'
  BY <1>2, Bounds DEF TypeOK, ThreadType, TaskStep, TaskFault, WriteRunning, InvokeState, InvokeNothing,
              InvokeResume, Interrupt, SaveRow, CommitSave, Finish, Settle,
              WriteWaiting, PublishInteraction, WriteDone, PurgeThenPublishDone, WriteFailed,
              Forget, RunningFault, RunFault, WriteFailedFault
<1>3. ASSUME Stop \/ Restart \/ RestartUnreconciled
      PROVE  UNCHANGED thread
  BY <1>3 DEF Stop, Restart, RestartUnreconciled
<1>4. CASE UNCHANGED vars
  BY <1>4 DEF vars
<1> QED
  BY <1>1, <1>2, <1>3, <1>4 DEF Next

TypeInv == TypeOK /\ InputKinds /\ PendingIsInterrupted

\* The inductive form of type correctness.
LEMMA TypeInvariant == Spec => []TypeInv
<1>1. Init => TypeInv
  BY InitTypeOK DEF Init, TypeInv, InputKinds, PendingIsInterrupted, InFlight, Requests
<1>2. TypeInv /\ [Next]_vars => TypeInv'
  <2> SUFFICES ASSUME TypeInv, [Next]_vars PROVE TypeInv'
    OBVIOUS
  <2>1. TypeOK'
    BY RequestType, TaskStepType, ProcessStepType, StutterType DEF Next, TypeInv
  <2> QED
    BY <2>1, InputKindsStep, PendingStep DEF TypeInv
<1> QED
  BY <1>1, <1>2, PTL DEF Spec

\* Every reachable state of the project is well typed.
THEOREM TypeCorrect == Spec => []TypeOK
<1>1. TypeInv => TypeOK
  BY DEF TypeInv
<1> QED
  BY <1>1, TypeInvariant, PTL

-----------------------------------------------------------------------------
(* One driver. *)

\* Between the end of a task and its callback the entry may be replaced: the
\* invariant survives because start_run refuses while the entry is alive and
\* because the callback checks that the entry is its own.
LEMMA StartKeepsEntry ==
  ASSUME TypeOK, EntryIsTheLiveTask, NEW r \in Requests,
         NEW kind, NEW refusal, start_run(r, kind, refusal)
  PROVE  EntryIsTheLiveTask'
<1>1. CASE is_running
  BY <1>1 DEF start_run, tasks, EntryIsTheLiveTask, Live
<1>2. CASE ~is_running
  <2>1. \A q \in Requests : ~Live(q)
    BY <1>2, RequestKinds DEF is_running, EntryIsTheLiveTask
  <2>2. entry' = r /\ tpc' = [tpc EXCEPT ![r] = "begin"]
    BY <1>2 DEF start_run, register
  <2> QED
    BY <2>1, <2>2 DEF EntryIsTheLiveTask, Live, TypeOK, TaskType
<1> QED
  BY <1>1, <1>2

\* A task that moves without starting another keeps the registry right.
LEMMA EntryStep == TypeOK /\ EntryIsTheLiveTask /\ [Next]_vars => EntryIsTheLiveTask'
<1> SUFFICES ASSUME TypeOK, EntryIsTheLiveTask, [Next]_vars PROVE EntryIsTheLiveTask'
  OBVIOUS
<1> USE DEF database, thread, handlers, tasks
<1>1. ASSUME NEW r \in Requests, Arrival(r) \/ HandlerFault(r)
      PROVE  EntryIsTheLiveTask'
  BY <1>1 DEF Arrival, InsertRow, ReceiveAnswer, ReceiveResume, ReceiveReopen, HandlerFault,
              EntryIsTheLiveTask, Live
<1>2. ASSUME NEW r \in Requests, HandlerStep(r)
      PROVE  EntryIsTheLiveTask'
  <2>1. CASE \E kind, refusal : start_run(r, kind, refusal)
    BY <2>1, StartKeepsEntry
  <2>2. CASE UNCHANGED <<entry, tasks>>
    BY <2>2 DEF EntryIsTheLiveTask, Live
  <2> QED
    BY <1>2, <2>1, <2>2 DEF HandlerStep, StartCreated, ReadSnapshot, DecideAnswer, CheckResume,
                            DecideResume, SaveFacts, LaunchResume, DecideReopen,
                            MarkForReopening, SetReopenStatus, LaunchReopen
<1>3. ASSUME NEW r \in Requests, TaskStep(r), ~Forget(r)
      PROVE  EntryIsTheLiveTask'
  <2>1. Live(r) /\ entry' = entry /\ \E pc \in TaskPcs : tpc' = [tpc EXCEPT ![r] = pc]
    BY <1>3 DEF TaskStep, WriteRunning, InvokeState, InvokeNothing, InvokeResume,
                Interrupt, SaveRow, CommitSave, Finish, Settle, WriteWaiting,
                PublishInteraction, WriteDone, PurgeThenPublishDone, WriteFailed, At, Move,
                Publish, Live, LivePcs, TaskPcs
  <2> QED
    BY <2>1 DEF EntryIsTheLiveTask, Live, TypeOK, TaskType
<1>4. ASSUME NEW r \in Requests, Forget(r)
      PROVE  EntryIsTheLiveTask'
  <2>1. ~Live(r) /\ ~Live(r)' /\ \A q \in Requests \ {r} : tpc'[q] = tpc[q]
    BY <1>4 DEF Forget, At, Move, Live, LivePcs, TypeOK, TaskType
  <2>2. entry # r => entry' = entry
    BY <1>4 DEF Forget, forget
  <2> QED
    BY <2>1, <2>2 DEF EntryIsTheLiveTask, Live
<1>5. ASSUME NEW r \in Requests, TaskFault(r)
      PROVE  EntryIsTheLiveTask'
  <2>1. Live(r) /\ entry' = entry /\ \E pc \in TaskPcs : tpc' = [tpc EXCEPT ![r] = pc]
    BY <1>5 DEF TaskFault, RunningFault, RunFault, WriteFailedFault, At, Move, Live, LivePcs,
                TaskPcs
  <2> QED
    BY <2>1 DEF EntryIsTheLiveTask, Live, TypeOK, TaskType
<1>6. CASE Stop
  BY <1>6 DEF Stop, EntryIsTheLiveTask, Live, LivePcs
<1>7. CASE Restart \/ RestartUnreconciled
  BY <1>7 DEF Restart, RestartUnreconciled, EntryIsTheLiveTask, Live
<1>8. CASE UNCHANGED vars
  BY <1>8 DEF vars, EntryIsTheLiveTask, Live
<1> QED
  BY <1>1, <1>2, <1>3, <1>4, <1>5, <1>6, <1>7, <1>8 DEF Next

\* The registry always knows the task that is alive.
LEMMA EntryInvariant == Spec => []EntryIsTheLiveTask
<1>1. Init => EntryIsTheLiveTask
  BY DEF Init, EntryIsTheLiveTask, Live, LivePcs
<1> QED
  BY <1>1, EntryStep, TypeCorrect, PTL DEF Spec

\* Two tasks never advance the same thread, whatever the requests that race,
\* the tasks that end and the process that stops.
THEOREM OneDriver == Spec => []SingleDriver
<1>1. EntryIsTheLiveTask => SingleDriver
  BY DEF EntryIsTheLiveTask, SingleDriver
<1> QED
  BY <1>1, EntryInvariant, PTL

-----------------------------------------------------------------------------
(* The row, the checkpoint and the projection agree. *)

\* What requests may do to the row, the projection and the tasks.
LEMMA RequestFrame ==
  ASSUME TypeOK, NEW r \in Requests, Arrival(r) \/ HandlerStep(r) \/ HandlerFault(r)
  PROVE  /\ UNCHANGED <<thread, saving, said>>
         /\ \/ run_status' = run_status
            \/ run_status' = "running"
            \/ run_status = "absent" /\ run_status' = "idle"
         /\ \A s \in Sections : sections'[s] = "absent" <=> sections[s] = "absent"
         /\ \A q \in Requests : tpc'[q] = tpc[q] \/ tpc'[q] = "begin"
         /\ \A q \in Requests : hpc[q] # "new" => hpc'[q] # "new"
         /\ \A q \in Answerers : hpc[q] # "new" => named'[q] = named[q]
<1> USE DEF database, thread, handlers, tasks, TypeOK, DatabaseType, HandlerType, TaskType
<1>1. CASE Arrival(r)
  BY <1>1 DEF Arrival, InsertRow, ReceiveAnswer, ReceiveResume, ReceiveReopen, ReadRow, Goto, Requests
<1>2. CASE HandlerFault(r)
  <2>1. UNCHANGED <<thread, tasks, named>> /\ Reply(r, "error")
    BY <1>2 DEF HandlerFault
  <2>2. /\ \/ run_status' = run_status
           \/ run_status' = "running"
           \/ run_status = "absent" /\ run_status' = "idle"
        /\ \A s \in Sections : sections'[s] = "absent" <=> sections[s] = "absent"
    BY <1>2 DEF HandlerFault, mark_for_reopening
  <2> QED
    BY <2>1, <2>2 DEF Reply
<1>3. CASE HandlerStep(r)
  <2>1. UNCHANGED <<thread, saving, said, named>>
    BY <1>3 DEF HandlerStep, StartCreated, ReadSnapshot, DecideAnswer, CheckResume, DecideResume,
                SaveFacts, LaunchResume, DecideReopen, MarkForReopening, SetReopenStatus,
                LaunchReopen, start_run
  <2>2. run_status' = run_status \/ run_status' = "running"
    BY <1>3 DEF HandlerStep, StartCreated, ReadSnapshot, DecideAnswer, CheckResume, DecideResume,
                SaveFacts, LaunchResume, DecideReopen, MarkForReopening, SetReopenStatus,
                LaunchReopen
  <2>3. \A s \in Sections : sections'[s] = "absent" <=> sections[s] = "absent"
    BY <1>3 DEF HandlerStep, StartCreated, ReadSnapshot, DecideAnswer, CheckResume, DecideResume,
                SaveFacts, LaunchResume, DecideReopen, MarkForReopening, mark_for_reopening,
                SetReopenStatus, LaunchReopen
  <2>4. \A q \in Requests : tpc'[q] = tpc[q] \/ tpc'[q] = "begin"
    BY <1>3 DEF HandlerStep, StartCreated, ReadSnapshot, DecideAnswer, CheckResume, DecideResume,
                SaveFacts, LaunchResume, DecideReopen, MarkForReopening, SetReopenStatus,
                LaunchReopen, start_run
  <2>5. \A q \in Requests : hpc[q] # "new" => hpc'[q] # "new"
    BY <1>3 DEF HandlerStep, StartCreated, ReadSnapshot, DecideAnswer, CheckResume, DecideResume,
                SaveFacts, LaunchResume, DecideReopen, MarkForReopening, SetReopenStatus,
                LaunchReopen, start_run, Reply, Goto
  <2> QED
    BY <2>1, <2>2, <2>3, <2>4, <2>5
<1> QED
  BY <1>1, <1>2, <1>3

\* A step of a task moves that task only, and no other task is alive.
LEMMA TaskFrame ==
  ASSUME TypeOK, EntryIsTheLiveTask, NEW r \in Requests, TaskStep(r) \/ TaskFault(r)
  PROVE  /\ UNCHANGED handlers
         /\ \A q \in Requests \ {r} : tpc'[q] = tpc[q] /\ saving'[q] = saving[q] /\ said'[q] = said[q]
         /\ \A s \in Sections : sections[s] # "absent" => sections'[s] # "absent"
         /\ Forget(r) \/ \A q \in Requests \ {r} : ~Live(q)
<1> USE DEF database, thread, tasks, TypeOK, DatabaseType, TaskType, At, Move, Publish
<1>1. Forget(r) \/ Live(r)
  BY DEF TaskStep, WriteRunning, InvokeState, InvokeNothing, InvokeResume,
         Interrupt, SaveRow, CommitSave, Finish, Settle, WriteWaiting, PublishInteraction,
         WriteDone, PurgeThenPublishDone, WriteFailed, Live, LivePcs, TaskFault, RunningFault,
         RunFault, WriteFailedFault
<1>2. UNCHANGED handlers
  BY DEF TaskStep, WriteRunning, InvokeState, InvokeNothing, InvokeResume,
         Interrupt, SaveRow, CommitSave, Finish, Settle, WriteWaiting, PublishInteraction,
         WriteDone, PurgeThenPublishDone, WriteFailed, TaskFault, RunningFault, RunFault,
         WriteFailedFault, Forget
<1>3. \A q \in Requests \ {r} : tpc'[q] = tpc[q] /\ saving'[q] = saving[q] /\ said'[q] = said[q]
  BY DEF TaskStep, WriteRunning, InvokeState, InvokeNothing, InvokeResume,
         Interrupt, SaveRow, CommitSave, Finish, Settle, WriteWaiting, PublishInteraction,
         WriteDone, PurgeThenPublishDone, WriteFailed, TaskFault, RunningFault, RunFault,
         WriteFailedFault, Forget
<1>4. \A s \in Sections : sections[s] # "absent" => sections'[s] # "absent"
  BY DEF TaskStep, WriteRunning, InvokeState, InvokeNothing, InvokeResume,
         Interrupt, SaveRow, CommitSave, Finish, Settle, WriteWaiting, PublishInteraction,
         WriteDone, PurgeThenPublishDone, WriteFailed, TaskFault, RunningFault, RunFault,
         WriteFailedFault, Forget
<1> QED
  BY <1>1, <1>2, <1>3, <1>4 DEF EntryIsTheLiveTask

\* The part of the invariant that relates the row, the checkpoint, the
\* projection and the answers.
Agreement ==
  /\ ReopensWrittenPlan
  /\ DriverOwnsThread
  /\ CheckpointShape
  /\ StatusTellsThread
  /\ AnsweredOnce
  /\ PassedSectionsAreSaved

\* A request that finds the row `done` finds every section written.
LEMMA DoneIsWritten ==
  ASSUME Agreement, run_status = "done"
  PROVE  \A s \in Sections : sections[s] # "absent"
BY DEF Agreement, StatusTellsThread, CheckpointShape, PassedSectionsAreSaved

\* A reopening that was let through has a written plan, and keeps it.
LEMMA RequestKeepsReopens ==
  ASSUME TypeOK, InputKinds, Agreement, NEW r \in Requests,
         Arrival(r) \/ HandlerStep(r) \/ HandlerFault(r)
  PROVE  ReopensWrittenPlan'
<1> DEFINE Written == \A s \in Sections : sections[s] # "absent"
           Owes(q) == \/ hpc[q] \in {"mark", "status", "launch"}
                      \/ seen[q].row = "done"
                      \/ input[q] = "rework"
<1>1. Written => Written'
  BY RequestFrame
<1>2. \A q \in Reopeners : Owes(q) => Written
  BY DEF Agreement, ReopensWrittenPlan
<1>3. \A q \in Reopeners : Owes(q)' => Owes(q) \/ run_status = "done"
  <2> USE DEF database, thread, handlers, tasks, TypeOK, HandlerType, TaskType
  <2>1. CASE Arrival(r)
    BY <2>1 DEF Arrival, InsertRow, ReceiveAnswer, ReceiveResume, ReceiveReopen, ReadRow, Goto, Requests
  <2>2. CASE HandlerFault(r)
    BY <2>2 DEF HandlerFault, Reply, Unread, Requests
  <2>3. CASE HandlerStep(r)
    <3>1. CASE r \in Reopeners
      BY <2>3, <3>1, RequestKinds DEF HandlerStep, ReadSnapshot, DecideReopen, MarkForReopening, SetReopenStatus,
                  LaunchReopen, start_run, Reply, Goto, Unread, Requests
    <3>2. CASE r \notin Reopeners
      BY <2>3, <3>2 DEF HandlerStep, StartCreated, ReadSnapshot, DecideAnswer, CheckResume,
                  DecideResume, SaveFacts, LaunchResume, start_run, Reply, Goto, Unread, Requests
    <3> QED
      BY <3>1, <3>2
  <2> QED
    BY <2>1, <2>2, <2>3
<1>4. \A q \in Reopeners : Owes(q)' => Written'
  BY <1>1, <1>2, <1>3, DoneIsWritten
<1> QED
  BY <1>4 DEF ReopensWrittenPlan

\* Requests never disturb the agreement: they write `running`, mark rows that
\* exist, and leave the checkpoint to the task.
LEMMA RequestKeepsAgreement ==
  ASSUME TypeOK, InputKinds, PendingIsInterrupted, Agreement, NEW r \in Requests,
         Arrival(r) \/ HandlerStep(r) \/ HandlerFault(r)
  PROVE  Agreement'
<1> USE RequestFrame DEF thread
<1>1. ReopensWrittenPlan'
  BY RequestKeepsReopens
<1>2. DriverOwnsThread'
  BY DEF Agreement, DriverOwnsThread, CheckpointShape
<1>3. CheckpointShape'
  BY DEF Agreement, CheckpointShape, TypeOK, ThreadType, Requests
<1>4. StatusTellsThread'
  BY DEF Agreement, StatusTellsThread
<1>5. AnsweredOnce'
  BY DEF Agreement, AnsweredOnce, CheckpointShape, TypeOK, ThreadType
<1>6. PassedSectionsAreSaved'
  BY DEF Agreement, PassedSectionsAreSaved
<1> QED
  BY <1>1, <1>2, <1>3, <1>4, <1>5, <1>6 DEF Agreement

\* Where the other tasks are says nothing about the thread: they are not alive.
LEMMA TaskKeepsDriver ==
  ASSUME TypeOK, InputKinds, PendingIsInterrupted, EntryIsTheLiveTask, Agreement,
         NEW r \in Requests, TaskStep(r) \/ TaskFault(r)
  PROVE  DriverOwnsThread'
<1> DEFINE Owns(q) ==
      /\ tpc[q] \in {"invoke", "graph", "commit", "settle", "toWaiting", "toDone"}
           => run_status = "running"
      /\ tpc[q] = "toFailed" => run_status # "absent" /\ said[q] = "error"
      /\ tpc[q] \in {"graph", "commit"} => phase = "active"
      /\ tpc[q] = "settle" => phase \in {"interrupted", "finished"}
      /\ tpc[q] = "toWaiting" => phase = "interrupted"
      /\ tpc[q] = "toDone" => phase = "finished"
      /\ tpc[q] = "commit" => saving[q] \in Sections /\ sections[saving[q]] # "absent"
<1>1. \A q \in Requests : Owns(q)
  BY DEF Agreement, DriverOwnsThread
<1>2. \A q \in Requests \ {r} : Owns(q)'
  <2>1. CASE Forget(r)
    BY <1>1, <2>1, TaskFrame DEF Forget, database, thread
  <2>2. CASE ~Forget(r)
    BY <2>2, TaskFrame DEF Live, LivePcs
  <2> QED
    BY <2>1, <2>2
<1>3. Owns(r)'
  <2> USE <1>1 DEF TypeOK, TaskType, DatabaseType, ThreadType, database, thread, tasks, At, Move, Publish
  <2>1. CASE WriteRunning(r)
    BY <2>1 DEF WriteRunning
  <2>2. CASE InvokeState(r)
    BY <2>2 DEF InvokeState
  <2>3. CASE InvokeNothing(r)
    BY <2>3 DEF InvokeNothing, Phases
  <2>4. CASE InvokeResume(r)
    BY <2>4 DEF InvokeResume
  <2>6. CASE Interrupt(r)
    BY <2>6 DEF Interrupt
  <2>7. CASE SaveRow(r)
    BY <2>7 DEF SaveRow
  <2>8. CASE CommitSave(r)
    BY <2>8 DEF CommitSave
  <2>9. CASE Finish(r)
    BY <2>9 DEF Finish
  <2>10. CASE Settle(r)
    BY <2>10 DEF Settle, PendingIsInterrupted
  <2>11. CASE WriteWaiting(r) \/ PublishInteraction(r) \/ WriteDone(r) \/ PurgeThenPublishDone(r)
    BY <2>11 DEF WriteWaiting, PublishInteraction, WriteDone, PurgeThenPublishDone
  <2>12. CASE WriteFailed(r) \/ Forget(r)
    BY <2>12 DEF WriteFailed, Forget
  <2>13. CASE TaskFault(r)
    BY <2>13 DEF TaskFault, RunningFault, RunFault, WriteFailedFault
  <2> QED
    BY <2>1, <2>2, <2>3, <2>4, <2>6, <2>7, <2>8, <2>9, <2>10, <2>11, <2>12, <2>13 DEF TaskStep
<1> QED
  BY <1>2, <1>3 DEF DriverOwnsThread

\* The checkpoint only moves while the row says `running`, so no row at rest is
\* belied, and the row of a section is there before the graph passes it.
LEMMA TaskKeepsStatus ==
  ASSUME TypeOK, Agreement, NEW r \in Requests, TaskStep(r) \/ TaskFault(r)
  PROVE  StatusTellsThread'
<1> USE DEF Agreement, StatusTellsThread, DriverOwnsThread, database, thread, At
<1>1. CASE InvokeState(r) \/ InvokeResume(r) \/ Interrupt(r) \/ Finish(r)
  BY <1>1 DEF InvokeState, InvokeResume, Interrupt, Finish
<1>2. CASE WriteRunning(r) \/ WriteWaiting(r) \/ WriteDone(r) \/ WriteFailed(r)
  BY <1>2 DEF WriteRunning, WriteWaiting, WriteDone, WriteFailed
<1>3. CASE \/ InvokeNothing(r) \/ SaveRow(r) \/ CommitSave(r) \/ Settle(r)
           \/ PublishInteraction(r) \/ PurgeThenPublishDone(r) \/ Forget(r) \/ TaskFault(r)
  BY <1>3 DEF InvokeNothing, SaveRow, CommitSave, Settle, PublishInteraction,
              PurgeThenPublishDone, Forget, TaskFault, RunningFault, RunFault, WriteFailedFault
<1> QED
  BY <1>1, <1>2, <1>3 DEF TaskStep

\* A section leaves what the graph has to save only once its row is written.
LEMMA TaskKeepsSaved ==
  ASSUME TypeOK, InputKinds, Agreement, NEW r \in Requests, TaskStep(r) \/ TaskFault(r)
  PROVE  PassedSectionsAreSaved'
<1> USE DEF Agreement, PassedSectionsAreSaved, database, thread, At
<1>1. CASE InvokeState(r)
  <2>1. input[r] = "rework" => \A s \in Sections : sections[s] # "absent"
    BY DEF ReopensWrittenPlan, InputKinds
  <2> QED
    BY <1>1, <2>1 DEF InvokeState
<1>2. CASE InvokeResume(r)
  BY <1>2 DEF InvokeResume
<1>3. CASE SaveRow(r)
  BY <1>3 DEF SaveRow, TypeOK, DatabaseType
<1>4. CASE CommitSave(r)
  BY <1>4 DEF CommitSave, DriverOwnsThread
<1>5. CASE Interrupt(r) \/ Finish(r)
  BY <1>5 DEF Interrupt, Finish, DriverOwnsThread
<1>6. CASE \/ WriteRunning(r) \/ InvokeNothing(r) \/ Settle(r)
           \/ WriteWaiting(r) \/ PublishInteraction(r) \/ WriteDone(r)
           \/ PurgeThenPublishDone(r) \/ WriteFailed(r) \/ Forget(r) \/ TaskFault(r)
  BY <1>6 DEF WriteRunning, InvokeNothing, Settle, WriteWaiting, PublishInteraction,
              WriteDone, PurgeThenPublishDone, WriteFailed, Forget, TaskFault, RunningFault,
              RunFault, WriteFailedFault
<1> QED
  BY <1>1, <1>2, <1>3, <1>4, <1>5, <1>6 DEF TaskStep

\* An identifier is never pending again once consumed, for each is drawn higher
\* than all those before: this is what keeps an answer from being used twice.
LEMMA TaskKeepsAnswers ==
  ASSUME TypeOK, InputKinds, PendingIsInterrupted, Agreement,
         NEW r \in Requests, TaskStep(r) \/ TaskFault(r)
  PROVE  CheckpointShape' /\ AnsweredOnce'
<1> USE DEF Agreement, CheckpointShape, AnsweredOnce, TypeOK, ThreadType, database, thread,
            handlers, At
<1>0. \A a \in applied : a[1] \in Answerers /\ a[2] \in 1..MaxInteractions
  OBVIOUS
<1>1. CASE InvokeState(r)
  BY <1>0, <1>1 DEF InvokeState, DriverOwnsThread
<1>2. CASE InvokeResume(r)
  <2>1. /\ r \in Answerers /\ hpc[r] # "new" /\ pending = named[r] /\ pending # 0
        /\ applied' = applied \cup {<<r, pending>>} /\ pending' = 0
        /\ phase' = "active" /\ UNCHANGED <<issued, handlers>>
    BY <1>2 DEF InvokeResume, InputKinds, PendingIsInterrupted
  <2>2. run_status' = "running"
    BY <1>2 DEF InvokeResume, DriverOwnsThread
  <2>3. CheckpointShape'
    BY <1>0, <2>1, <2>2
  <2>4. AnsweredOnce'
    BY <1>0, <2>1
  <2> QED
    BY <2>3, <2>4
<1>3. CASE Interrupt(r)
  <2>1. \A a \in applied : a[2] # issued + 1
    BY <1>0, Bounds
  <2> QED
    BY <1>0, <1>3, <2>1, Bounds DEF Interrupt, DriverOwnsThread
<1>4. CASE CommitSave(r) \/ SaveRow(r)
  BY <1>4 DEF CommitSave, SaveRow, DriverOwnsThread
<1>5. CASE Finish(r)
  BY <1>5 DEF Finish, DriverOwnsThread
<1>6. CASE \/ WriteRunning(r) \/ InvokeNothing(r) \/ Settle(r)
           \/ WriteWaiting(r) \/ PublishInteraction(r) \/ WriteDone(r)
           \/ PurgeThenPublishDone(r) \/ WriteFailed(r) \/ Forget(r) \/ TaskFault(r)
  BY <1>6 DEF WriteRunning, InvokeNothing, Settle, WriteWaiting, PublishInteraction,
              WriteDone, PurgeThenPublishDone, WriteFailed, Forget, TaskFault, RunningFault,
              RunFault, WriteFailedFault
<1> QED
  BY <1>1, <1>2, <1>3, <1>4, <1>5, <1>6 DEF TaskStep

\* A stop loses the tasks and the handlers; a restart only turns `running`
\* into `failed`, when no task is alive.
LEMMA ProcessKeepsAgreement ==
  ASSUME TypeOK, EntryIsTheLiveTask, Agreement, Stop \/ Restart \/ RestartUnreconciled
  PROVE  Agreement'
<1> USE DEF Agreement, database, thread, handlers, tasks
<1>1. CASE Stop
  <2>1. ReopensWrittenPlan'
    BY <1>1 DEF Stop, ReopensWrittenPlan, Unread, InFlight, Requests
  <2>2. DriverOwnsThread'
    BY <1>1 DEF Stop, DriverOwnsThread, LivePcs
  <2>3. CheckpointShape'
    BY <1>1 DEF Stop, CheckpointShape, TypeOK, ThreadType, Requests
  <2>4. StatusTellsThread' /\ AnsweredOnce' /\ PassedSectionsAreSaved'
    BY <1>1 DEF Stop, StatusTellsThread, AnsweredOnce, PassedSectionsAreSaved
  <2> QED
    BY <2>1, <2>2, <2>3, <2>4
<1>2. CASE Restart
  <2>1. run_status' # run_status => \A r \in Requests : ~Live(r)
    BY <1>2, RequestKinds DEF Restart, is_running, EntryIsTheLiveTask
  <2>2. DriverOwnsThread'
    BY <1>2, <2>1 DEF Restart, DriverOwnsThread, Live, LivePcs
  <2> QED
    BY <1>2, <2>2 DEF Restart, ReopensWrittenPlan, CheckpointShape, StatusTellsThread,
                      AnsweredOnce, PassedSectionsAreSaved
<1>3. CASE RestartUnreconciled
  BY <1>3 DEF RestartUnreconciled, ReopensWrittenPlan, DriverOwnsThread, CheckpointShape,
              StatusTellsThread, AnsweredOnce, PassedSectionsAreSaved
<1> QED
  BY <1>1, <1>2, <1>3

\* RunInv is inductive.
LEMMA RunStep == RunInv /\ [Next]_vars => RunInv'
<1> SUFFICES ASSUME RunInv, [Next]_vars PROVE RunInv'
  OBVIOUS
<1>1. TypeOK /\ EntryIsTheLiveTask /\ InputKinds /\ PendingIsInterrupted /\ Agreement
  BY DEF RunInv, Agreement
<1>2. TypeOK'
  BY <1>1, RequestType, TaskStepType, ProcessStepType, StutterType DEF Next
<1>3. EntryIsTheLiveTask' /\ InputKinds' /\ PendingIsInterrupted'
  BY <1>1, EntryStep, InputKindsStep, PendingStep
<1>4. Agreement'
  <2>1. ASSUME NEW r \in Requests, Arrival(r) \/ HandlerStep(r) \/ HandlerFault(r)
        PROVE  Agreement'
    BY <1>1, <2>1, RequestKeepsAgreement
  <2>2. ASSUME NEW r \in Requests, TaskStep(r) \/ TaskFault(r)
        PROVE  Agreement'
    <3>1. ReopensWrittenPlan'
      <4>1. input' = input
        BY <2>2 DEF TaskStep, TaskFault, WriteRunning, InvokeState, InvokeNothing, InvokeResume,
                    Interrupt, SaveRow, CommitSave, Finish, Settle, WriteWaiting,
                    PublishInteraction, WriteDone, PurgeThenPublishDone, WriteFailed, Forget,
                    RunningFault, RunFault, WriteFailedFault, Move, Publish, tasks
      <4> QED
        BY <1>1, <2>2, <4>1, TaskFrame DEF Agreement, ReopensWrittenPlan, handlers
    <3> QED
      BY <1>1, <2>2, <3>1, TaskKeepsDriver, TaskKeepsStatus, TaskKeepsSaved, TaskKeepsAnswers
         DEF Agreement
  <2>3. CASE Stop \/ Restart \/ RestartUnreconciled
    BY <1>1, <2>3, ProcessKeepsAgreement
  <2>4. CASE UNCHANGED vars
    BY <1>1, <2>4 DEF vars, database, thread, handlers, tasks, Agreement, ReopensWrittenPlan,
                DriverOwnsThread, CheckpointShape, StatusTellsThread, AnsweredOnce,
                PassedSectionsAreSaved
  <2> QED
    BY <2>1, <2>2, <2>3, <2>4 DEF Next
<1> QED
  BY <1>2, <1>3, <1>4 DEF RunInv, Agreement

\* The inductive invariant holds of every run of the server.
THEOREM RunInvariant == Spec => []RunInv
<1>1. Init => RunInv
  <2>1. ASSUME Init PROVE InputKinds /\ PendingIsInterrupted /\ EntryIsTheLiveTask
    BY <2>1 DEF Init, InputKinds, PendingIsInterrupted, EntryIsTheLiveTask, Live, LivePcs,
                InFlight, Requests
  <2>2. ASSUME Init PROVE ReopensWrittenPlan /\ DriverOwnsThread
    BY <2>2 DEF Init, ReopensWrittenPlan, DriverOwnsThread, Unread, Requests
  <2>3. ASSUME Init PROVE /\ CheckpointShape /\ StatusTellsThread /\ AnsweredOnce
                          /\ PassedSectionsAreSaved
    BY <2>3 DEF Init, CheckpointShape, StatusTellsThread, AnsweredOnce, PassedSectionsAreSaved
  <2> QED
    BY InitTypeOK, <2>1, <2>2, <2>3 DEF RunInv
<1> QED
  BY <1>1, RunStep, PTL DEF Spec

\* The screen the front shows from the row alone is the right one, after any
\* crash, failure and interleaving of requests.
THEOREM StatusIsTrue == Spec => []StatusTellsThread
<1>1. RunInv => StatusTellsThread
  BY DEF RunInv
<1> QED
  BY <1>1, RunInvariant, PTL

\* No answer is consumed twice, nor by a question it did not name.
THEOREM EachQuestionAnsweredOnce == Spec => []AnsweredOnce
<1>1. RunInv => AnsweredOnce
  BY DEF RunInv
<1> QED
  BY <1>1, RunInvariant, PTL

\* A section the graph has passed has its row, wherever the process stops.
THEOREM NoSectionIsLost == Spec => []PassedSectionsAreSaved
<1>1. RunInv => PassedSectionsAreSaved
  BY DEF RunInv
<1> QED
  BY <1>1, RunInvariant, PTL

\* Neither a failure, a restart nor a late end overwrites a question: a row
\* leaves `waiting` for `running`, or for the `failed` of the very run that asks,
\* when its write was committed and not acknowledged.
THEOREM WaitingIsSafe == Spec => WaitingIsTakenOver
<1> DEFINE Taken == \/ run_status' = "running"
                    \/ /\ run_status' = "failed" /\ pending # 0 /\ pending' = pending
                       /\ \E r \in Requests : tpc[r] = "toFailed" /\ said[r] = "error"
<1>1. RunInv /\ [Next]_vars => [run_status = "waiting" /\ run_status' # "waiting" => Taken]_vars
  <2> SUFFICES ASSUME RunInv, [Next]_vars, run_status = "waiting", run_status' # "waiting"
               PROVE  Taken
    OBVIOUS
  <2>1. ASSUME NEW r \in Requests, Arrival(r) \/ HandlerStep(r) \/ HandlerFault(r)
        PROVE  Taken
    BY <2>1, RequestFrame DEF RunInv
  <2>2. ASSUME NEW r \in Requests, TaskStep(r) \/ TaskFault(r)
        PROVE  Taken
    <3>1. CASE WriteFailed(r)
      BY <3>1 DEF WriteFailed, At, RunInv, DriverOwnsThread, StatusTellsThread,
                  PendingIsInterrupted, thread
    <3>2. CASE ~WriteFailed(r)
      BY <2>2, <3>2 DEF RunInv, DriverOwnsThread, TaskStep, TaskFault, WriteRunning, InvokeState,
                InvokeNothing, InvokeResume, Interrupt, SaveRow, CommitSave, Finish,
                Settle, WriteWaiting, PublishInteraction, WriteDone, PurgeThenPublishDone,
                Forget, RunningFault, RunFault, WriteFailedFault, At, database
    <3> QED
      BY <3>1, <3>2
  <2>3. CASE Stop \/ Restart \/ RestartUnreconciled
    BY <2>3 DEF Stop, Restart, RestartUnreconciled, database
  <2>4. CASE UNCHANGED vars
    BY <2>4 DEF vars, database
  <2> QED
    BY <2>1, <2>2, <2>3, <2>4 DEF Next
<1> QED
  BY <1>1, RunInvariant, PTL DEF Spec, WaitingIsTakenOver

-----------------------------------------------------------------------------
(* The lease on the thread. *)

\* The driver of the lease is the live task, now and after a step.
LEMMA DriverIsLive ==
  /\ EntryIsTheLiveTask =>
       /\ \A r \in Requests : Live(r) => Driver = r
       /\ (\A r \in Requests : ~Live(r)) => Driver = NoTask
  /\ EntryIsTheLiveTask' =>
       /\ \A r \in Requests : Live(r)' => Driver' = r
       /\ (\A r \in Requests : ~Live(r)') => Driver' = NoTask
  BY DEF EntryIsTheLiveTask, Driver

\* The driver only depends on who is alive.
LEMMA SameLiveSameDriver ==
  ASSUME EntryIsTheLiveTask, EntryIsTheLiveTask', \A q \in Requests : Live(q)' <=> Live(q)
  PROVE  Driver' = Driver
<1>1. CASE \E q \in Requests : Live(q)
  BY <1>1, DriverIsLive
<1>2. CASE \A q \in Requests : ~Live(q)
  BY <1>2, DriverIsLive
<1> QED
  BY <1>1, <1>2

\* A request takes the lease or leaves it alone.
LEMMA RequestOnLease ==
  ASSUME RunInv, RunInv', NEW r \in Requests, Arrival(r) \/ HandlerStep(r) \/ HandlerFault(r)
  PROVE  Lease!Take(r) \/ UNCHANGED Lease!vars
<1> USE DEF RunInv
<1>1. UNCHANGED <<pending, issued, applied>>
  BY RequestFrame DEF thread
<1>2. CASE UNCHANGED tpc
  <2>1. \A q \in Requests : Live(q)' <=> Live(q)
    BY <1>2 DEF Live
  <2> QED
    BY <1>1, <2>1, SameLiveSameDriver DEF Lease!vars
<1>3. CASE \E kind, refusal : ~is_running /\ start_run(r, kind, refusal)
  <2>1. \A q \in Requests : ~Live(q)
    BY <1>3, RequestKinds DEF is_running, EntryIsTheLiveTask
  <2>2. Live(r)'
    BY <1>3 DEF start_run, Live, LivePcs, TypeOK, TaskType
  <2>3. Driver = NoTask /\ Driver' = r
    BY <2>1, <2>2, DriverIsLive
  <2> QED
    BY <1>1, <2>3 DEF Lease!Take
<1> QED
  BY <1>2, <1>3 DEF Arrival, InsertRow, ReceiveAnswer, ReceiveResume, ReceiveReopen, HandlerFault,
                    HandlerStep, StartCreated, ReadSnapshot, DecideAnswer, CheckResume,
                    DecideResume, SaveFacts, LaunchResume, DecideReopen, MarkForReopening,
                    SetReopenStatus, LaunchReopen, start_run, tasks

\* The task that holds the lease interrupts, consumes, starts over, or leaves.
LEMMA TaskOnLease ==
  ASSUME RunInv, RunInv', NEW r \in Requests, TaskStep(r) \/ TaskFault(r)
  PROVE  [Lease!Next]_Lease!vars
<1> USE DEF RunInv, At, Move, Publish, thread, tasks
<1>1. \A q \in Requests \ {r} : Live(q)' <=> Live(q)
  BY TaskFrame DEF Live
<1>2. CASE InvokeState(r) \/ InvokeResume(r) \/ Interrupt(r)
  <2>1. Live(r) /\ Live(r)'
    BY <1>2 DEF InvokeState, InvokeResume, Interrupt, Live, LivePcs, TypeOK, TaskType
  <2>2. Driver = r /\ Driver' = r /\ r # NoTask
    BY <2>1, DriverIsLive, RequestKinds
  <2>3. CASE InvokeState(r)
    BY <2>2, <2>3 DEF InvokeState, Lease!StartOver, Lease!Next
  <2>4. CASE InvokeResume(r)
    <3>1. {a[2] : a \in applied'} = {a[2] : a \in applied} \cup {pending}
      <4> DEFINE new == <<r, pending>>
      <4>1. applied' = applied \cup {new} /\ new[2] = pending
        BY <2>4 DEF InvokeResume
      <4> HIDE DEF new, RunInv
      <4> QED
        BY <4>1, Zenon
    <3>2. pending # 0 /\ pending \notin {a[2] : a \in applied}
      BY <2>4 DEF InvokeResume, PendingIsInterrupted, CheckpointShape
    <3> QED
      BY <2>2, <2>4, <3>1, <3>2 DEF InvokeResume, Lease!Consume, Lease!Next
  <2>5. CASE Interrupt(r)
    BY <2>2, <2>5 DEF Interrupt, PendingIsInterrupted, Lease!Interrupt, Lease!Next
  <2> QED
    BY <1>2, <2>3, <2>4, <2>5
<1>3. CASE ~(InvokeState(r) \/ InvokeResume(r) \/ Interrupt(r))
  <2>1. UNCHANGED <<pending, issued, applied>>
    BY <1>3 DEF TaskStep, TaskFault, WriteRunning, InvokeNothing, SaveRow, CommitSave,
                Finish, Settle, WriteWaiting, PublishInteraction, WriteDone,
                PurgeThenPublishDone, WriteFailed, Forget, RunningFault, RunFault,
                WriteFailedFault
  <2>2. CASE Live(r)' <=> Live(r)
    <3>1. Driver' = Driver
      BY <1>1, <2>2, SameLiveSameDriver
    <3> QED
      BY <2>1, <3>1 DEF Lease!vars
  <2>3. CASE Live(r) /\ ~Live(r)'
    <3>1. Driver = r /\ r # NoTask
      BY <2>3, DriverIsLive, RequestKinds
    <3>2. \A q \in Requests : ~Live(q)'
      BY <1>1, <2>3 DEF EntryIsTheLiveTask
    <3>3. Driver' = NoTask
      BY <3>2, DriverIsLive
    <3> QED
      BY <2>1, <3>1, <3>3 DEF Lease!Leave, Lease!Next
  <2>4. CASE ~Live(r) /\ Live(r)'
    <3>1. Forget(r)
      BY <2>4 DEF TaskStep, TaskFault, WriteRunning, InvokeState, InvokeNothing, InvokeResume,
                  Interrupt, SaveRow, CommitSave, Finish, Settle, WriteWaiting,
                  PublishInteraction, WriteDone, PurgeThenPublishDone, WriteFailed, RunningFault,
                  RunFault, WriteFailedFault, Live, LivePcs
    <3> QED
      BY <2>4, <3>1 DEF Forget, Live, LivePcs, TypeOK, TaskType
  <2> QED
    BY <2>2, <2>3, <2>4
<1> QED
  BY <1>2, <1>3

\* The project's run control implements the lease: what the handlers, the rows
\* and the faults do to the thread is one driver at a time and each
\* interruption consumed once.
THEOREM ImplementsLease == Spec => LeaseSpec
<1>1. Init => Lease!Init
  <2> SUFFICES ASSUME Init PROVE Lease!Init
    OBVIOUS
  <2>1. EntryIsTheLiveTask /\ \A r \in Requests : ~Live(r)
    BY DEF Init, EntryIsTheLiveTask, Live, LivePcs
  <2>2. Driver = NoTask
    BY <2>1, DriverIsLive
  <2> QED
    BY <2>2 DEF Init, Lease!Init
<1>2. RunInv /\ RunInv' /\ [Next]_vars => [Lease!Next]_Lease!vars
  <2> SUFFICES ASSUME RunInv, RunInv', [Next]_vars PROVE [Lease!Next]_Lease!vars
    OBVIOUS
  <2>1. ASSUME NEW r \in Requests, Arrival(r) \/ HandlerStep(r) \/ HandlerFault(r)
        PROVE  [Lease!Next]_Lease!vars
    BY <2>1, RequestOnLease DEF Lease!Next
  <2>2. ASSUME NEW r \in Requests, TaskStep(r) \/ TaskFault(r)
        PROVE  [Lease!Next]_Lease!vars
    BY <2>2, TaskOnLease
  <2>3. CASE Stop
    <3>1. \A q \in Requests : ~Live(q)'
      BY <2>3 DEF Stop, Live, LivePcs
    <3>2. Driver' = NoTask
      BY <3>1, DriverIsLive DEF RunInv
    <3> QED
      BY <2>3, <3>2 DEF Stop, thread, Lease!Leave, Lease!Next, Lease!vars
  <2>4. CASE Restart \/ RestartUnreconciled \/ UNCHANGED vars
    <3>1. UNCHANGED <<tpc, pending, issued, applied>>
      BY <2>4 DEF Restart, RestartUnreconciled, vars, tasks, thread
    <3>2. Driver' = Driver
      BY <3>1, SameLiveSameDriver DEF RunInv, Live
    <3> QED
      BY <3>1, <3>2 DEF Lease!vars
  <2> QED
    BY <2>1, <2>2, <2>3, <2>4 DEF Next
<1> QED
  BY <1>1, <1>2, RunInvariant, PTL DEF Spec, LeaseSpec, Lease!Spec

-----------------------------------------------------------------------------
(* What the driver sees of the graph. *)

\* A task moves the thread as its graph allows, or leaves it alone.
LEMMA TaskProgresses ==
  ASSUME RunInv, NEW r \in Requests, TaskStep(r) \/ TaskFault(r)
  PROVE  [Progress!Next]_(Progress!vars)
<1> USE DEF RunInv, DriverOwnsThread, TypeOK, ThreadType, HandlerType, At
<1>1. CASE InvokeState(r)
  <2>1. phase' = "active"
    BY <1>1 DEF InvokeState
  <2>2. CASE input[r] = "init"
    <3>1. Progress!Start
      BY <1>1, <2>1, <2>2 DEF InvokeState, Progress!Start, Progress!Started
    <3> QED
      BY <3>1 DEF Progress!Next
  <2>3. CASE input[r] = "rework"
    <3>1. target[r] \in Sections
      BY <2>3 DEF InputKinds
    <3>2. todo' \in (SUBSET Sections) \ {{}} /\ arbitrated'
      BY <1>1, <2>3, <3>1, PlanClosure DEF InvokeState
    <3>3. Progress!Rework
      BY <2>1, <3>2 DEF Progress!Rework
    <3> QED
      BY <3>3 DEF Progress!Next
  <2> QED
    BY <1>1, <2>2, <2>3 DEF InvokeState
<1>2. CASE InvokeResume(r)
  <2>1. Progress!Resume
    BY <1>2 DEF InvokeResume, Progress!Resume
  <2> QED
    BY <2>1 DEF Progress!Next
<1>3. CASE Interrupt(r)
  <2>1. Progress!Interrupt
    BY <1>3 DEF Interrupt, Progress!Interrupt
  <2> QED
    BY <2>1 DEF Progress!Next
<1>4. CASE CommitSave(r)
  <2>1. phase = "active" /\ todo' = todo \ {saving[r]} /\ UNCHANGED <<phase, arbitrated>>
    BY <1>4 DEF CommitSave
  <2>2. CASE saving[r] \in todo
    <3>1. Progress!Save
      BY <2>1, <2>2 DEF Progress!Save
    <3> QED
      BY <3>1 DEF Progress!Next
  <2>3. CASE saving[r] \notin todo
    BY <2>1, <2>3 DEF Progress!vars
  <2> QED
    BY <2>2, <2>3
<1>5. CASE Finish(r)
  <2>1. Progress!Finish
    BY <1>5 DEF Finish, Progress!Finish
  <2> QED
    BY <2>1 DEF Progress!Next
<1>6. CASE ~(InvokeState(r) \/ InvokeResume(r) \/ Interrupt(r) \/ CommitSave(r) \/ Finish(r))
  BY <1>6 DEF TaskStep, TaskFault, WriteRunning, InvokeNothing, SaveRow, Settle, WriteWaiting,
     PublishInteraction, WriteDone, PurgeThenPublishDone, WriteFailed, Forget, RunningFault,
     RunFault, WriteFailedFault, thread, Progress!vars
<1> QED
  BY <1>1, <1>2, <1>3, <1>4, <1>5, <1>6

\* Whatever requests, failures and stops do to the runs of a thread, its
\* checkpoint moves as the graph moves it, from a start or a reopening to the
\* end: what Agent does, node by node.
THEOREM RunControlProgresses == Spec => ProgressSpec
<1>1. Init => Progress!Init
  BY DEF Init, Progress!Init
<1>2. RunInv /\ [Next]_vars => [Progress!Next]_(Progress!vars)
  <2> SUFFICES ASSUME RunInv, [Next]_vars PROVE [Progress!Next]_(Progress!vars)
    OBVIOUS
  <2>1. ASSUME NEW r \in Requests, Arrival(r) \/ HandlerStep(r) \/ HandlerFault(r)
        PROVE  UNCHANGED Progress!vars
    <3>1. UNCHANGED thread
      BY <2>1, RequestFrame DEF RunInv
    <3> QED
      BY <3>1 DEF thread, Progress!vars
  <2>2. CASE Stop \/ Restart \/ RestartUnreconciled \/ UNCHANGED vars
    BY <2>2 DEF Stop, Restart, RestartUnreconciled, vars, thread, Progress!vars
  <2> QED
    BY <2>1, <2>2, TaskProgresses DEF Next
<1> QED
  BY <1>1, <1>2, RunInvariant, PTL DEF Spec, ProgressSpec, Progress!Spec
=============================================================================
