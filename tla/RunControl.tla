----------------------------- MODULE RunControl ------------------------------
(***************************************************************************)
(* One project: the routes that start, answer, resume and reopen its run,  *)
(* the in-memory task registry, the background task that advances the      *)
(* graph, the `projects` row, the `sections` projection and the LangGraph  *)
(* checkpoint.  The server is one asyncio event loop, so code between two  *)
(* awaits is one action; every await is a point where others interleave.   *)
(*                                                                         *)
(* Each request is used once and starts at most one task, which bears its  *)
(* name.  Projects share nothing but the process, so one is enough.        *)
(***************************************************************************)
EXTENDS Naturals

CONSTANTS
  Creators,         \* POST /projects: one at most succeeds in being the creation
  Answerers,        \* POST /answer
  Resumers,         \* POST /resume
  Reopeners,        \* POST /sections/{id}/reopen
  Sections,         \* the sections of the plan
  Closure,          \* section -> itself and the sections depending on it
  NoTask, NoSection,
  MaxInteractions,  \* bound: interruptions the graph exposes
  MaxFaults,        \* bound: exceptions raised by the database or the model;
                    \* a write that raises may have been committed (autocommit)
  MaxCrashes        \* bound: stops of the process

Requests == Creators \cup Answerers \cup Resumers \cup Reopeners

ASSUME RequestKinds ==
  /\ NoTask \notin Requests
  /\ Creators \cap (Answerers \cup Resumers \cup Reopeners) = {}
  /\ Answerers \cap (Resumers \cup Reopeners) = {}
  /\ Resumers \cap Reopeners = {}

ASSUME PlanClosure ==
  /\ NoSection \notin Sections
  /\ Closure \in [Sections -> SUBSET Sections]
  /\ \A s \in Sections : s \in Closure[s]

ASSUME Bounds ==
  /\ MaxInteractions \in Nat
  /\ MaxFaults \in Nat
  /\ MaxCrashes \in Nat

VARIABLES
  \* The database.
  run_status,       \* projects.run_status, "absent" before the insertion
  sections,         \* sections.statut of the projection ("done": done, skipped)
  \* The checkpoint of the thread.
  phase,            \* none | active | interrupted | finished
  pending,          \* id of the interruption exposed, 0 if none
  issued,           \* ids drawn so far
  todo,             \* sections the graph has still to save
  arbitrated,       \* the inconsistencies were arbitrated, or this is a rework
  applied,          \* <<answer, id>>: answers the graph consumed (history)
  \* The process.
  up,
  entry,            \* registry._tasks[project_id], or NoTask
  hpc, seen,        \* per request: where its handler is, what it read
  named,            \* per answer: interaction_id of the body
  target,           \* per reopening: the section of the path
  tpc, input,       \* per task: where it is, what it gives the graph
  saving,           \* per task: the section whose row is written, not the checkpoint
  said,             \* per task: the last event it published
  faults, crashes

database == <<run_status, sections>>
thread   == <<phase, pending, issued, todo, arbitrated, applied>>
handlers == <<hpc, seen, named, target>>
tasks    == <<tpc, input, saving, said>>
vars     == <<database, thread, up, entry, handlers, tasks, faults, crashes>>

Statuses == {"absent", "idle", "running", "waiting", "failed", "done"}
Phases   == {"none", "active", "interrupted", "finished"}
InFlight == {"start", "check", "snap", "decide", "facts", "mark", "status", "launch"}
Replies  == {"started", "stale", "refused", "error", "lost"}
LivePcs  == {"begin", "invoke", "graph", "commit", "settle", "toWaiting",
             "pubInteraction", "toDone", "purge", "toFailed"}
TaskPcs  == LivePcs \cup {"none", "ended", "forgotten", "killed"}

Unread == [row |-> "absent", phase |-> "none", id |-> 0]

DatabaseType ==
  /\ run_status \in Statuses
  /\ sections \in [Sections -> {"absent", "done", "reopened"}]

ThreadType ==
  /\ phase \in Phases
  /\ pending \in 0..MaxInteractions
  /\ issued \in 0..MaxInteractions
  /\ todo \in SUBSET Sections
  /\ arbitrated \in BOOLEAN
  /\ applied \in SUBSET (Answerers \X (1..MaxInteractions))

ProcessType ==
  /\ up \in BOOLEAN
  /\ entry \in Requests \cup {NoTask}
  /\ faults \in 0..MaxFaults
  /\ crashes \in 0..MaxCrashes

HandlerType ==
  /\ hpc \in [Requests -> {"new"} \cup InFlight \cup Replies]
  /\ seen \in [Requests -> [row : Statuses, phase : Phases, id : 0..MaxInteractions]]
  /\ named \in [Answerers -> 0..MaxInteractions]
  /\ target \in [Reopeners -> Sections \cup {NoSection}]

TaskType ==
  /\ tpc \in [Requests -> TaskPcs]
  /\ input \in [Requests -> {"nothing", "init", "none", "resume", "rework"}]
  /\ saving \in [Requests -> Sections \cup {NoSection}]
  /\ said \in [Requests -> {"nothing", "interaction", "done", "error"}]

TypeOK == DatabaseType /\ ThreadType /\ ProcessType /\ HandlerType /\ TaskType

Init ==
  /\ run_status = "absent"
  /\ sections = [s \in Sections |-> "absent"]
  /\ phase = "none" /\ pending = 0 /\ issued = 0
  /\ todo = {} /\ arbitrated = FALSE /\ applied = {}
  /\ up = TRUE /\ entry = NoTask
  /\ hpc = [r \in Requests |-> "new"]
  /\ seen = [r \in Requests |-> Unread]
  /\ named = [r \in Answerers |-> 0]
  /\ target = [r \in Reopeners |-> NoSection]
  /\ tpc = [r \in Requests |-> "none"]
  /\ input = [r \in Requests |-> "nothing"]
  /\ saving = [r \in Requests |-> NoSection]
  /\ said = [r \in Requests |-> "nothing"]
  /\ faults = 0 /\ crashes = 0

-----------------------------------------------------------------------------
(* The registry. *)

Live(r) == tpc[r] \in LivePcs

is_running == entry # NoTask /\ Live(entry)

\* register: the entry is replaced, whatever it was.
register(r) == entry' = r

\* Variants named ...Mutant are plausible bugs: each breaks a property.
\* The callback forgets whatever entry it finds.
forgetMutant(r) == entry' = NoTask

\* The end-of-task callback, one turn of the loop after the end of the task:
\* it removes the entry only if the entry is its own task.
forget(r) == entry' = IF entry = r THEN NoTask ELSE entry

-----------------------------------------------------------------------------
(* The request handlers. *)

Reply(r, answer) ==
  /\ hpc' = [hpc EXCEPT ![r] = answer]
  /\ seen' = [seen EXCEPT ![r] = Unread]

Goto(r, pc) ==
  /\ hpc' = [hpc EXCEPT ![r] = pc]
  /\ UNCHANGED seen

\* runner.start_run, which never awaits: refused while a task is alive,
\* otherwise the task is created and registered in the same step.
start_run(r, kind, refusal) ==
  \/ /\ is_running
     /\ Reply(r, refusal)
     /\ UNCHANGED <<entry, tasks>>
  \/ /\ ~is_running
     /\ Reply(r, "started")
     /\ tpc' = [tpc EXCEPT ![r] = "begin"]
     /\ input' = [input EXCEPT ![r] = kind]
     /\ register(r)
     /\ UNCHANGED <<saving, said>>

\* POST /projects.  The refusal of start_run is not caught: a 500.
InsertRow(r) ==
  /\ up /\ hpc[r] = "new" /\ run_status = "absent"
  /\ run_status' = "idle"
  /\ Goto(r, "start")
  /\ UNCHANGED <<sections, thread, up, entry, named, target, tasks, faults, crashes>>

StartCreated(r) ==
  /\ hpc[r] = "start"
  /\ start_run(r, "init", "error")
  /\ UNCHANGED <<database, thread, up, named, target, faults, crashes>>

\* The row is read first, by every route on an existing project.
ReadRow(r, pc) ==
  /\ up /\ hpc[r] = "new" /\ run_status # "absent"
  /\ hpc' = [hpc EXCEPT ![r] = pc]
  /\ seen' = [seen EXCEPT ![r] = [row |-> run_status, phase |-> "none", id |-> 0]]

ReceiveAnswer(r) ==
  /\ ReadRow(r, "snap")
  /\ \E i \in 1..issued : named' = [named EXCEPT ![r] = i]
  /\ UNCHANGED <<database, thread, up, entry, target, tasks, faults, crashes>>

ReceiveResume(r) ==
  /\ ReadRow(r, "check")
  /\ UNCHANGED <<database, thread, up, entry, named, target, tasks, faults, crashes>>

ReceiveReopen(r) ==
  /\ ReadRow(r, "snap")
  /\ \E s \in Sections : target' = [target EXCEPT ![r] = s]
  /\ UNCHANGED <<database, thread, up, entry, named, tasks, faults, crashes>>

\* aget_state: what the checkpoint exposes when the query runs.
ReadSnapshot(r) ==
  /\ hpc[r] = "snap"
  /\ hpc' = [hpc EXCEPT ![r] = "decide"]
  /\ seen' = [seen EXCEPT ![r] = [row |-> seen[r].row, phase |-> phase, id |-> pending]]
  /\ UNCHANGED <<database, thread, up, entry, named, target, tasks, faults, crashes>>

\* POST /answer, once the snapshot is back: an identifier that is not the
\* one pending is answered rejoue: false; a value of the wrong shape, 422.
DecideAnswer(r) ==
  /\ hpc[r] = "decide"
  /\ \/ /\ seen[r].id # named[r]
        /\ Reply(r, "stale")
        /\ UNCHANGED <<entry, tasks>>
     \/ /\ seen[r].id = named[r]
        /\ Reply(r, "refused")
        /\ UNCHANGED <<entry, tasks>>
     \/ /\ seen[r].id = named[r]
        /\ start_run(r, "resume", "refused")
  /\ UNCHANGED <<database, thread, up, named, target, faults, crashes>>

\* POST /resume.
CheckResume(r) ==
  /\ hpc[r] = "check"
  /\ IF is_running THEN Reply(r, "refused") ELSE Goto(r, "snap")
  /\ UNCHANGED <<database, thread, up, entry, named, target, tasks, faults, crashes>>

DecideResume(r) ==
  /\ hpc[r] = "decide"
  /\ \/ /\ seen[r].phase = "none"
        /\ seen[r].row \in {"idle", "failed", "running"}
        /\ start_run(r, "init", "refused")
     \/ /\ seen[r].phase = "none"
        /\ seen[r].row \notin {"idle", "failed", "running"}
        /\ Reply(r, "refused")
        /\ UNCHANGED <<entry, tasks>>
     \/ /\ seen[r].phase # "none"
        /\ seen[r].row \in {"failed", "running"}
        /\ Goto(r, "facts")
        /\ UNCHANGED <<entry, tasks>>
     \/ /\ seen[r].phase # "none"
        /\ seen[r].row \notin {"failed", "running"}
        /\ Reply(r, "refused")
        /\ UNCHANGED <<entry, tasks>>
  /\ UNCHANGED <<database, thread, up, named, target, faults, crashes>>

\* save_facts only touches the facts projection, which is not modelled here.
SaveFacts(r) ==
  /\ hpc[r] = "facts"
  /\ Goto(r, "launch")
  /\ UNCHANGED <<database, thread, up, entry, named, target, tasks, faults, crashes>>

LaunchResume(r) ==
  /\ hpc[r] = "launch"
  /\ start_run(r, "none", "refused")
  /\ UNCHANGED <<database, thread, up, named, target, faults, crashes>>

\* The row alone is trusted: the task that ends it may be purging still.
DecideReopenLiveMutant(r) ==
  /\ hpc[r] = "decide"
  /\ \/ seen[r].phase # "none" /\ seen[r].row = "done" /\ Goto(r, "mark")
     \/ Reply(r, "refused")
  /\ UNCHANGED <<database, thread, up, entry, named, target, tasks, faults, crashes>>

\* POST /reopen: a plan to find the section in, a row that was `done` when
\* read, no live task; an export in progress (any answer here) refuses too.
DecideReopen(r) ==
  /\ hpc[r] = "decide"
  /\ \/ /\ seen[r].phase # "none" /\ seen[r].row = "done" /\ ~is_running
        /\ Goto(r, "mark")
     \/ Reply(r, "refused")
  /\ UNCHANGED <<database, thread, up, entry, named, target, tasks, faults, crashes>>

\* mark_for_reopening updates the rows that exist, in autocommit.
mark_for_reopening(r) ==
  sections' = [s \in Sections |->
     IF s \in Closure[target[r]] /\ sections[s] # "absent" THEN "reopened" ELSE sections[s]]

MarkForReopening(r) ==
  /\ hpc[r] = "mark"
  /\ mark_for_reopening(r)
  /\ Goto(r, "status")
  /\ UNCHANGED <<run_status, thread, up, entry, named, target, tasks, faults, crashes>>

SetReopenStatus(r) ==
  /\ hpc[r] = "status"
  /\ run_status' = "running"
  /\ Goto(r, "launch")
  /\ UNCHANGED <<sections, thread, up, entry, named, target, tasks, faults, crashes>>

LaunchReopen(r) ==
  /\ hpc[r] = "launch"
  /\ start_run(r, "rework", "refused")
  /\ UNCHANGED <<database, thread, up, named, target, faults, crashes>>

\* A query of the handler raises: a 500, and what was written stays, the
\* write that raises included if only its acknowledgement was lost.
HandlerFault(r) ==
  /\ faults < MaxFaults
  /\ faults' = faults + 1
  /\ \/ hpc[r] \in {"snap", "facts", "mark", "status"} /\ UNCHANGED database
     \/ r \in Reopeners /\ hpc[r] = "mark" /\ mark_for_reopening(r) /\ UNCHANGED run_status
     \/ r \in Reopeners /\ hpc[r] = "status" /\ run_status' = "running" /\ UNCHANGED sections
     \/ /\ r \in Creators /\ up /\ hpc[r] = "new" /\ run_status = "absent"
        /\ run_status' = "idle" /\ UNCHANGED sections
  /\ Reply(r, "error")
  /\ UNCHANGED <<thread, up, entry, named, target, tasks, crashes>>

Arrival(r) ==
  \/ r \in Creators /\ InsertRow(r)
  \/ r \in Answerers /\ ReceiveAnswer(r)
  \/ r \in Resumers /\ ReceiveResume(r)
  \/ r \in Reopeners /\ ReceiveReopen(r)

HandlerStep(r) ==
  \/ r \in Creators /\ StartCreated(r)
  \/ ReadSnapshot(r)
  \/ r \in Answerers /\ DecideAnswer(r)
  \/ r \in Resumers /\ (CheckResume(r) \/ DecideResume(r) \/ SaveFacts(r) \/ LaunchResume(r))
  \/ r \in Reopeners /\ (DecideReopen(r) \/ MarkForReopening(r) \/ SetReopenStatus(r)
                          \/ LaunchReopen(r))

-----------------------------------------------------------------------------
(* The background task: runner.advance. *)

At(r, pc) == tpc[r] = pc

Move(r, pc) ==
  /\ tpc' = [tpc EXCEPT ![r] = pc]
  /\ UNCHANGED <<input, saving, said>>

Publish(r, event, pc) ==
  /\ tpc' = [tpc EXCEPT ![r] = pc]
  /\ said' = [said EXCEPT ![r] = event]
  /\ UNCHANGED <<input, saving>>

\* The run is left to whatever status it had.
WriteRunningMutant(r) ==
  /\ At(r, "begin")
  /\ Move(r, "invoke")
  /\ UNCHANGED <<database, thread, up, entry, handlers, faults, crashes>>

\* The first await of advance, outside its try.
WriteRunning(r) ==
  /\ At(r, "begin")
  /\ run_status' = "running"
  /\ Move(r, "invoke")
  /\ UNCHANGED <<sections, thread, up, entry, handlers, faults, crashes>>

\* Raised there, the exception leaves the task and nobody reads it.
RunningFault(r) ==
  /\ At(r, "begin") /\ faults < MaxFaults
  /\ faults' = faults + 1
  /\ run_status' \in {run_status, "running"}
  /\ Move(r, "ended")
  /\ UNCHANGED <<sections, thread, up, entry, handlers, crashes>>

\* The section is reopened without those that depend on it.
InvokeStateMutant(r) ==
  /\ At(r, "invoke") /\ input[r] \in {"init", "rework"}
  /\ phase' = "active" /\ pending' = 0
  /\ todo' = IF input[r] = "init" THEN Sections ELSE {target[r]}
  /\ arbitrated' = (input[r] = "rework")
  /\ Move(r, "graph")
  /\ UNCHANGED <<database, issued, applied, up, entry, handlers, faults, crashes>>

\* ainvoke with a state: the thread restarts at START with this input.
InvokeState(r) ==
  /\ At(r, "invoke") /\ input[r] \in {"init", "rework"}
  /\ phase' = "active" /\ pending' = 0
  /\ todo' = IF input[r] = "init" THEN Sections ELSE Closure[target[r]]
  /\ arbitrated' = (input[r] = "rework")
  /\ Move(r, "graph")
  /\ UNCHANGED <<database, issued, applied, up, entry, handlers, faults, crashes>>

\* ainvoke(None), and ainvoke(Command) whose identifier is not pending:
\* an interrupted node is replayed and interrupts again, a thread in the
\* middle goes on, a finished one does nothing.  On a thread without any
\* checkpoint it would raise: the routes start such a thread from its
\* beginning instead.
InvokeNothing(r) ==
  /\ At(r, "invoke")
  /\ \/ input[r] = "none"
     \/ input[r] = "resume" /\ pending # named[r]
  /\ phase # "none"
  /\ Move(r, IF phase = "active" THEN "graph" ELSE "settle")
  /\ UNCHANGED <<database, thread, up, entry, handlers, faults, crashes>>

\* Command(resume=value): whatever is pending takes the value.
InvokeResumeMutant(r) ==
  /\ At(r, "invoke") /\ input[r] = "resume"
  /\ phase = "interrupted"
  /\ applied' = applied \cup {<<r, pending>>}
  /\ phase' = "active" /\ pending' = 0
  /\ UNCHANGED todo
  /\ arbitrated' = (arbitrated \/ todo = {})
  /\ Move(r, "graph")
  /\ UNCHANGED <<database, issued, up, entry, handlers, faults, crashes>>

\* The checkpoint is not written when the answer is taken.
InvokeResumeUnsavedMutant(r) ==
  /\ At(r, "invoke") /\ input[r] = "resume"
  /\ phase = "interrupted" /\ pending = named[r]
  /\ applied' = applied \cup {<<r, pending>>}
  /\ Move(r, "graph")
  /\ UNCHANGED <<database, phase, pending, todo, arbitrated, issued, up, entry, handlers,
                 faults, crashes>>

\* ainvoke(Command(resume={id: value})): the interruption of that identifier
\* is answered.  After the last section the question is the arbitration, and
\* the rulings may queue sections again.
InvokeResume(r) ==
  /\ At(r, "invoke") /\ input[r] = "resume"
  /\ phase = "interrupted" /\ pending = named[r]
  /\ applied' = applied \cup {<<r, pending>>}
  /\ phase' = "active" /\ pending' = 0
  /\ todo' \in IF todo = {} THEN SUBSET Sections ELSE {todo}
  /\ arbitrated' = (arbitrated \/ todo = {})
  /\ Move(r, "graph")
  /\ UNCHANGED <<database, issued, up, entry, handlers, faults, crashes>>

\* A node interrupts: questions or a review before a section is saved, the
\* arbitration after the last one.
Interrupt(r) ==
  /\ At(r, "graph") /\ phase = "active"
  /\ todo # {} \/ ~arbitrated
  /\ issued < MaxInteractions
  /\ issued' = issued + 1
  /\ pending' = issued + 1
  /\ phase' = "interrupted"
  /\ Move(r, "settle")
  /\ UNCHANGED <<database, todo, arbitrated, applied, up, entry, handlers, faults, crashes>>

\* The projection is updated, never inserted.
SaveRowMutant(r) ==
  /\ At(r, "graph") /\ phase = "active"
  /\ \E s \in todo :
       /\ sections' = [sections EXCEPT ![s] = IF @ = "absent" THEN @ ELSE "done"]
       /\ saving' = [saving EXCEPT ![r] = s]
  /\ tpc' = [tpc EXCEPT ![r] = "commit"]
  /\ UNCHANGED <<run_status, thread, up, entry, handlers, input, said, faults, crashes>>

\* The node `save` writes the row; the checkpoint follows, when it returns.
SaveRow(r) ==
  /\ At(r, "graph") /\ phase = "active"
  /\ \E s \in todo :
       /\ sections' = [sections EXCEPT ![s] = "done"]
       /\ saving' = [saving EXCEPT ![r] = s]
  /\ tpc' = [tpc EXCEPT ![r] = "commit"]
  /\ UNCHANGED <<run_status, thread, up, entry, handlers, input, said, faults, crashes>>

CommitSave(r) ==
  /\ At(r, "commit")
  /\ todo' = todo \ {saving[r]}
  /\ saving' = [saving EXCEPT ![r] = NoSection]
  /\ tpc' = [tpc EXCEPT ![r] = "graph"]
  /\ UNCHANGED <<database, phase, pending, issued, arbitrated, applied, up, entry,
                 handlers, input, said, faults, crashes>>

Finish(r) ==
  /\ At(r, "graph") /\ phase = "active" /\ todo = {}
  /\ phase' = "finished"
  /\ Move(r, "settle")
  /\ UNCHANGED <<database, pending, issued, todo, arbitrated, applied, up, entry,
                 handlers, faults, crashes>>

\* aget_state after ainvoke: interrupted, or done.
Settle(r) ==
  /\ At(r, "settle")
  /\ Move(r, IF pending # 0 THEN "toWaiting" ELSE "toDone")
  /\ UNCHANGED <<database, thread, up, entry, handlers, faults, crashes>>

\* The question is announced, then the row is written.
WriteWaitingMutant(r) ==
  /\ At(r, "toWaiting")
  /\ run_status' = "waiting"
  /\ Publish(r, "interaction", "pubInteraction")
  /\ UNCHANGED <<sections, thread, up, entry, handlers, faults, crashes>>

WriteWaiting(r) ==
  /\ At(r, "toWaiting")
  /\ run_status' = "waiting"
  /\ Move(r, "pubInteraction")
  /\ UNCHANGED <<sections, thread, up, entry, handlers, faults, crashes>>

PublishInteraction(r) ==
  /\ At(r, "pubInteraction")
  /\ Publish(r, "interaction", "ended")
  /\ UNCHANGED <<database, thread, up, entry, handlers, faults, crashes>>

WriteDone(r) ==
  /\ At(r, "toDone")
  /\ run_status' = "done"
  /\ Move(r, "purge")
  /\ UNCHANGED <<sections, thread, up, entry, handlers, faults, crashes>>

\* The purge keeps the last checkpoint; whether it succeeds or not, `done`.
PurgeThenPublishDone(r) ==
  /\ At(r, "purge")
  /\ Publish(r, "done", "ended")
  /\ UNCHANGED <<database, thread, up, entry, handlers, faults, crashes>>

\* Any exception inside the try: the event at once, the row afterwards.  It
\* may be the reply to the last write that is lost, and not that write.
RunFault(r) ==
  /\ tpc[r] \in {"invoke", "graph", "commit", "settle", "toWaiting", "toDone"}
  /\ faults < MaxFaults
  /\ faults' = faults + 1
  /\ \/ UNCHANGED run_status
     \/ At(r, "toWaiting") /\ run_status' = "waiting"
     \/ At(r, "toDone") /\ run_status' = "done"
  /\ tpc' = [tpc EXCEPT ![r] = "toFailed"]
  /\ said' = [said EXCEPT ![r] = "error"]
  /\ saving' = [saving EXCEPT ![r] = NoSection]
  /\ UNCHANGED <<sections, thread, up, entry, handlers, input, crashes>>

\* The row takes the name of the event.
WriteFailedMutant(r) ==
  /\ At(r, "toFailed")
  /\ run_status' = "error"
  /\ Move(r, "ended")
  /\ UNCHANGED <<sections, thread, up, entry, handlers, faults, crashes>>

WriteFailed(r) ==
  /\ At(r, "toFailed")
  /\ run_status' = "failed"
  /\ Move(r, "ended")
  /\ UNCHANGED <<sections, thread, up, entry, handlers, faults, crashes>>

\* The outage that failed the run goes on: the row keeps its status.
WriteFailedFault(r) ==
  /\ At(r, "toFailed")
  /\ Move(r, "ended")
  /\ UNCHANGED <<database, thread, up, entry, handlers, faults, crashes>>

Forget(r) ==
  /\ At(r, "ended")
  /\ forget(r)
  /\ Move(r, "forgotten")
  /\ UNCHANGED <<database, thread, up, handlers, faults, crashes>>

TaskStep(r) ==
  \/ WriteRunning(r)
  \/ InvokeState(r) \/ InvokeNothing(r) \/ InvokeResume(r)
  \/ Interrupt(r) \/ SaveRow(r) \/ CommitSave(r) \/ Finish(r) \/ Settle(r)
  \/ WriteWaiting(r) \/ PublishInteraction(r)
  \/ WriteDone(r) \/ PurgeThenPublishDone(r)
  \/ WriteFailed(r)
  \/ Forget(r)

TaskFault(r) == RunningFault(r) \/ RunFault(r) \/ WriteFailedFault(r)

-----------------------------------------------------------------------------
(* The process. *)

\* A kill or an orderly stop: a cancelled task leaves the row as it is, so
\* both end the same way.  Memory is lost, the database and checkpoint stay.
Stop ==
  /\ up /\ crashes < MaxCrashes
  /\ up' = FALSE
  /\ crashes' = crashes + 1
  /\ entry' = NoTask
  /\ hpc' = [r \in Requests |-> IF hpc[r] \in InFlight THEN "lost" ELSE hpc[r]]
  /\ seen' = [r \in Requests |-> Unread]
  /\ tpc' = [r \in Requests |->
                IF tpc[r] \in LivePcs \cup {"ended"} THEN "killed" ELSE tpc[r]]
  /\ saving' = [r \in Requests |-> NoSection]
  /\ UNCHANGED <<database, thread, named, target, input, said, faults>>

\* Every row is failed.
RestartFailsAllMutant ==
  /\ ~up
  /\ up' = TRUE
  /\ run_status' = IF run_status = "absent" THEN run_status ELSE "failed"
  /\ UNCHANGED <<sections, thread, entry, handlers, tasks, faults, crashes>>

\* No reconciliation.
RestartFailsNoneMutant ==
  /\ ~up
  /\ up' = TRUE
  /\ UNCHANGED <<database, thread, entry, handlers, tasks, faults, crashes>>

\* lifespan: orphan rows become `failed` before the first request is served,
\* and only rows still `running`; the attempt itself may fail, and is guarded.
Restart ==
  /\ ~up
  /\ up' = TRUE
  /\ run_status' = IF run_status = "running" /\ ~is_running THEN "failed" ELSE run_status
  /\ UNCHANGED <<sections, thread, entry, handlers, tasks, faults, crashes>>

RestartUnreconciled ==
  /\ ~up /\ faults < MaxFaults
  /\ faults' = faults + 1
  /\ up' = TRUE
  /\ UNCHANGED <<database, thread, entry, handlers, tasks, crashes>>

Next ==
  \/ \E r \in Requests : Arrival(r) \/ HandlerStep(r) \/ HandlerFault(r)
  \/ \E r \in Requests : TaskStep(r) \/ TaskFault(r)
  \/ Stop \/ Restart \/ RestartUnreconciled

Spec == Init /\ [][Next]_vars

\* The event loop runs what is ready, a task and a handler that started go on
\* until they end, and a stopped server is started again.  Nobody has to send
\* a request, nothing has to fail.
Fairness ==
  /\ \A r \in Requests : WF_vars(HandlerStep(r)) /\ WF_vars(TaskStep(r))
  /\ WF_vars(Restart)

FairSpec == Spec /\ Fairness

-----------------------------------------------------------------------------
(* Properties. *)

\* Two tasks never advance the same thread: the registry exists for that, in
\* particular in the gap between the end of a task and its callback.
SingleDriver ==
  \A r, q \in Requests : Live(r) /\ Live(q) => r = q

\* A row at rest tells the truth about the checkpoint, at any instant and after
\* any crash or failure: `waiting` means that a question is pending, `done` that
\* the graph reached its end.  The front chooses its screen from the row alone.
StatusTellsThread ==
  /\ run_status = "waiting" => phase = "interrupted"
  /\ run_status = "done" => phase = "finished"

\* An interruption is consumed once, by an answer that named it: not by the
\* double click, not by the answer to an earlier question that comes late.
AnsweredOnce ==
  /\ \A a \in applied : named[a[1]] = a[2]
  /\ \A a, b \in applied : a[2] = b[2] => a = b

\* `save` writes the row before the checkpoint moves: a section the graph will
\* not write any more has its row, wherever the process was stopped.
PassedSectionsAreSaved ==
  phase # "none" => \A s \in Sections \ todo : sections[s] # "absent"

\* Nothing is going on and the project is finished.
Quiet ==
  /\ up
  /\ \A r \in Requests : ~Live(r) /\ hpc[r] \notin InFlight

\* A finished project at rest has no section left to rewrite: what was marked
\* `reopened` was rewritten by the run started, or already going, for it,
\* unless a stop came between the marks and that run.
ReopenedIsRewritten ==
  crashes = 0 /\ Quiet /\ run_status = "done" => \A s \in Sections : sections[s] # "reopened"

\* A row left `running` at rest has no task to end it and no event to come.
NoOrphanRun == Quiet => run_status # "running"

\* A client that reads the state because of an event finds the row already at
\* what the event says, and the thread with it: no other run, no answer, no
\* resume and no failure came between the write and the publication.  A second
\* reopening past its guards may (see LaunchesAlone in ReopeningProofs).
AnnouncedAsWritten ==
  [][\A r \in Requests : said'[r] # said[r] =>
       /\ said'[r] = "interaction" => run_status = "waiting" /\ phase = "interrupted"
       /\ said'[r] = "done" => run_status = "done" /\ phase = "finished"]_vars

\* A waiting project leaves that status for `running`, which a run or a
\* reopening writes; or for `failed`, when the run that asks was told that its
\* own write failed: it has published the error, and the question is still
\* pending for a resume to ask it again.  A restart, the failure or the late end
\* of another run never covers it.
WaitingIsTakenOver ==
  [][run_status = "waiting" /\ run_status' # "waiting" =>
       \/ run_status' = "running"
       \/ /\ run_status' = "failed" /\ pending # 0 /\ pending' = pending
          /\ \E r \in Requests : tpc[r] = "toFailed" /\ said[r] = "error"]_vars

\* Every run that a row announces ends: in a question, a failure or the end.
RunSettles == run_status = "running" ~> run_status \in {"waiting", "failed", "done"}

-----------------------------------------------------------------------------
(* The inductive invariant behind the safety properties. *)

\* The registry knows the live task, if there is one.
EntryIsTheLiveTask == \A r \in Requests : Live(r) => entry = r

\* Who launches what.
InputKinds ==
  /\ \A r \in Requests : /\ input[r] = "resume" => r \in Answerers /\ hpc[r] # "new"
                         /\ input[r] = "rework" => /\ r \in Reopeners /\ hpc[r] # "new"
                                                   /\ target[r] \in Sections
  /\ \A r \in Reopeners : hpc[r] \in InFlight => target[r] \in Sections

PendingIsInterrupted == pending # 0 <=> phase = "interrupted"

\* A reopening only starts on a plan whose every section has its row.
ReopensWrittenPlan ==
  \A r \in Reopeners :
    \/ hpc[r] \in {"mark", "status", "launch"}
    \/ seen[r].row = "done"
    \/ input[r] = "rework"
    => \A s \in Sections : sections[s] # "absent"

\* The driver owns the thread: where a task is tells the row and the checkpoint, which it
\* alone moves between its first write and its last.
DriverOwnsThread ==
  \A r \in Requests :
    /\ tpc[r] \in {"invoke", "graph", "commit", "settle", "toWaiting", "toDone"}
         => run_status = "running"
    /\ tpc[r] = "toFailed" => run_status # "absent" /\ said[r] = "error"
    /\ tpc[r] \in {"graph", "commit"} => phase = "active"
    /\ tpc[r] = "settle" => phase \in {"interrupted", "finished"}
    /\ tpc[r] = "toWaiting" => phase = "interrupted"
    /\ tpc[r] = "toDone" => phase = "finished"
    /\ tpc[r] = "commit" => saving[r] \in Sections /\ sections[saving[r]] # "absent"

\* The checkpoint by itself: identifiers are drawn in order, the one pending
\* was not consumed, and a finished graph has nothing left to save.
CheckpointShape ==
  /\ pending <= issued
  /\ phase = "finished" => todo = {}
  /\ run_status = "absent" => phase = "none"
  /\ \A a \in applied : /\ a[2] <= issued
                       /\ a[2] # pending
                       /\ hpc[a[1]] # "new"

\* The inductive invariant: the registry, the row, the checkpoint, the
\* projection and the answers agree in every state.
RunInv ==
  /\ TypeOK
  /\ EntryIsTheLiveTask
  /\ InputKinds
  /\ PendingIsInterrupted
  /\ ReopensWrittenPlan
  /\ DriverOwnsThread
  /\ CheckpointShape
  /\ StatusTellsThread
  /\ AnsweredOnce
  /\ PassedSectionsAreSaved

-----------------------------------------------------------------------------
(* What this promises, without handlers, rows nor projections. *)

Driver == IF \E r \in Requests : Live(r)
          THEN CHOOSE r \in Requests : Live(r)
          ELSE NoTask

Lease == INSTANCE ThreadLease
           WITH Drivers <- Requests, NoDriver <- NoTask, driver <- Driver,
                open <- pending, answered <- {a[2] : a \in applied}

\* Run control implements the lease on the thread: one driver at a time moves
\* it, and each interruption it exposes is consumed once.
LeaseSpec == Lease!Spec

Progress == INSTANCE ThreadProgress WITH arbitrated <- arbitrated \/ phase = "finished"

\* Of the graph, run control keeps what ThreadProgress says, which Agent does too.
ProgressSpec == Progress!Spec
=============================================================================
