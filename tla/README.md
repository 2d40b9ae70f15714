# Verification of bp-cdc-generator

The product writes two documents, a *cahier des charges* and a business plan,
with a LangGraph agent that asks its user questions, writes one section after
the other, has some of them reviewed, and exports the result. This directory
holds TLA+ models of the parts whose state machines are hard to test, the TLC
runs that check them on small instances, and TLAPS proofs that hold for every
value of the constants. Paths below are relative to `src/`.

1. [The system](#1-the-system) – components, state, operations, what is hard
2. [Modules](#2-modules) – which module models what, and how
3. [What the runs show](#3-what-the-runs-show) – properties, bounds, fairness
4. [What is proved](#4-what-is-proved)
5. [Disagreements found](#5-disagreements-found)
6. [What is not modelled](#6-what-is-not-modelled)
7. [Plan](#7-plan)

## 1. The system

One FastAPI process with one asyncio event loop serves everybody; PostgreSQL
holds the business tables and the LangGraph checkpoints; a bucket holds the
exported files; several model providers are reached over HTTP. Code between two
`await`s is atomic with respect to everything else in the process, and every
`await` is a point where another request, a background task or the end of the
process may come in between.

| component | code | state | operations |
|---|---|---|---|
| Run control | `backend/app/projects/routes.py`, `runs/runner.py`, `runs/registry.py`, `agent/projections.py`, `main.py` | `projects.run_status`, `sections.statut`, the checkpoint of the thread, `registry._tasks` | create, answer, resume, reopen; `advance` (the task); `cancel_all` (stop); `reconcile_orphan_runs` (start) |
| Agent graph | `agent/graph.py`, `agent/nodes.py`, `agent/facts.py`, `agent/state.py` | `EsquisseState`: facts, plan, cursor, counters, queue of rewritings | thirteen nodes, eight conditional edges, three interruptions |
| Export | `export/service.py`, `export/storage.py`, `projects/exports.py`, `export/document.py` | `service._exports`, `_outcomes`, the table `exports`, the bucket | launch, list, the task (read, render, deposit, record, clean up), `cancel_all` |
| Event bus and stream | `runs/events.py`, `projects/stream.py` | the queues a publication reaches, one bounded queue per subscriber | publish, subscribe, leave, read, drop a late subscriber |
| Model gateway | `llm/gateway.py`, `budget.py`, `transport.py`, `providers.py` | `llm_usage`, the lock and the last request of each pacer | complete, stream; try the next model or provider, wait for one's turn, start a stream over, record a try |
| Templates | `agent/templates.py`, `templates/*.yaml` | constants | plan of a profile, sections depending on one, queue of a reopening |
| Computations, number check | `agent/finance.py`, `assumptions.py`, `numbers.py` | none | ten computations, orphan numbers |
| Rendering | `export/word.py`, `pdf.py`, `html.py`, `charts.py` | none | blocks to files |
| Accounts | `auth/`, `core/rate_limit.py`, `core/security.py` | users, windows of requests | sign-up, activation, limits |
| Writing screen | `web/app/(app)/projets/[id]/page.tsx`, `web/lib/{workspace,useRunStream,sse,answer}.ts` | the view, its stream, the answers in flight | load `/state`, follow the stream, answer |
| Other screens | `web/components/ExportsView.tsx`, … | the last list | poll, display |

How they meet: a route starts at most one task per project through the
registry and returns; the task drives the graph to its next interruption or its
end, writes the row, then publishes an event. A node writes projections (rows of
sections and facts) and LangGraph writes a checkpoint after it. A browser learns
everything from `/state` and the stream. An export reads the projections, never
the checkpoint; a reopening looks at both registries.

What is hard, by component, and the properties that make it correct:

* **Run control.** Two requests at any two awaits; a callback that runs a turn
  late; a stop between the row and the checkpoint; an answer that comes twice or
  late. Correct when a thread has one driver, a question is consumed once, a row
  that says `waiting` or `done` is true, no section is passed without its row, and
  an announced run ends.
* **Agent graph.** Counters and flags shared by several nodes and reset
  elsewhere, one list (`problems`) that five nodes fill and one edge reads, a cursor moved by
  two mechanisms. Correct when what is saved was judged, what the user demanded
  reaches the writer, what the user answered stays, the loops end and the plan
  is written in its order.
* **Export.** A failure or a stop between the first deposit and the last
  deletion; a prefix that contains other exports; rows read before the files they
  name are removed. Correct when every row names a file that exists, rows are of
  one export, and nothing is left behind.
* **Event bus and writing screen.** A full queue during a publication, events
  lost between a snapshot and a subscription, two snapshots in flight. Correct
  when the screen ends up showing the state the server is in.
* **Gateway.** A provider that fails half way through a stream, budgets read
  before they are spent, a lock held through a sleep, a consumer that goes away.
  Correct when the text kept is that of one try, every try is counted, every call
  ends, requests to a paced provider are apart, and a budget is passed by a
  bounded amount only.
* **Templates.** A closure over declared dependencies that may have cycles or go
  through a section the profile leaves out. Correct when it is the least closed
  set and, the queue being served in writing order, no text is left on one that changed.

`PROJECT.json` lists every such hazard at its line with the property that
watches it.

## 2. Modules

| module | what it is |
|---|---|
| `ThreadLease` | abstract: what run control promises of a thread – one driver, each interruption consumed once |
| `RunControl` | one project: handlers, tasks, registry, row, projection, checkpoint, stops and failures |
| `RunControlProofs` | its theorems |
| `ReopeningProofs` | that a task ends, and what is promised of its events and at rest: true when told, no orphan row, nothing left to rewrite |
| `Writing` | abstract: what the agent promises – sections in the order of the plan, one arbitration, an end |
| `ThreadProgress` | abstract: how a run moves the thread – started or reopened, interrupted, resumed, saved, finished |
| `Agent` | the graph: every node with the edge that leaves it |
| `AgentProofs` | its theorems |
| `Export` | exports of one project: task, registry, rows, bucket, listing and the screen that polls it |
| `ExportProofs` | its theorems |
| `EventBus` | the bus of one project: publication, bounded queues, subscription, loss |
| `EventBusProofs` | its theorems |
| `LiveScreen` | the writing screen of one tab on `EventBus`, with `/state`, the stream, the answers and one run at a time |
| `LiveScreenProofs` | that it uses the bus as `EventBus` says, its types, and the guard on the answered question |
| `Gateway` | the calls to the models: routes, budgets, pacers, streams |
| `GatewayProofs` | its theorems |
| `Templates` | what a reopening rewrites, and in which order |
| `TemplatesProofs` | its theorems |
| `MCRunControl`, `MCAgent`, `MCExport`, `MCLiveScreen`, `MCGateway` | instances for TLC |

### RunControl

Projects share nothing but the process, so the module has one. Each request is
used once and the task it starts bears its name: `hpc[r]` says where the handler
of `r` is, `tpc[r]` where its task is. An action is the code between two awaits.

* `ReceiveAnswer`, `ReadSnapshot`, `DecideAnswer` are `answer` cut at its awaits;
  likewise `…Resume`, `…Reopen`, and `InsertRow`/`StartCreated` for `create`.
  What a handler read earlier is in `seen[r]`, and is used when it decides,
  stale or not.
* `WriteRunning`, `InvokeState`/`InvokeNothing`/`InvokeResume`, `Interrupt`,
  `SaveRow`, `CommitSave`, `Finish`, `Settle`, `WriteWaiting`, `WriteDone`,
  `PublishInteraction`, `PurgeThenPublishDone`, `RunFault`, `WriteFailed`, `Forget` are `advance` and the
  done callback. `Forget` is a step of its own because `add_done_callback` runs one turn of the loop later.
* An exception is the failure of a step, or only of its acknowledgement: the
  connections are in autocommit (`db.py:32`), so a write of the row or of the
  marks that raises may have been done (`RunningFault`, `RunFault`, `HandlerFault`). The
  `_fail` that follows then writes `failed` over `waiting` or `done`. `SaveRow` needs no
  such case: its row is written, and an exception before the checkpoint follows.
* `Stop` ends every task and handler wherever it is; `Restart` is the lifespan
  with its reconciliation, `RestartUnreconciled` the same when it fails.
* Of the graph this module keeps what the driver sees: it interrupts, saves the
  row of a section and then its checkpoint, and finishes. That abstraction of the
  graph is stated once, in `ThreadProgress` (`phase`, `todo`, `arbitrated`), and
  proved of both sides: of this module and of `Agent`.

### Agent

A checkpoint is written between two nodes and never inside one, so a node and
the edge that leaves it are one action; `node` is the next node to run. A node
that fails leaves the state as it was, which `RunControl` covers. Sections are
numbered in the order of the plan. What the model answers is a choice: any
deductible facts, a list of orphan numbers or none, a score under 7, of 7, or of
8 and more (`REWRITE_SCORE` and the `seuil_relecture` of the templates). What the
user replies is a choice too: any facts of the catalogue with a value or
« je ne sais pas », accept, skip, rewrite, any subset of the inconsistencies to
correct. A reply of the wrong shape is the empty reply, as in the code.

`problems` is kept as *who filled it*: nobody, the number check, the critique, or
a demand (the user's rewriting, a ruling, a reopening). The empty list of
problems a low score may come with is kept (`critique`). `seen`, `demand` and
`asked` are history: what examined the current draft, what became of a demand,
how many rounds of questions this writing had.

### Export

The time stamp of an export is its identity; the prefix of its files is its
name. One action per call: read the sections, read the rows to replace, render,
deposit a file, record all rows in one transaction, delete the old prefixes, end,
forget. A failure can come at each, the transaction can be committed without its
acknowledgement, the process can stop. `Flat` is the prefix of files written
before prefixes had a time stamp: its folder contains all the others. The
listing is cut between its rows and its links, and the screen polls as
`ExportsView` does. A listing fails when a link cannot be signed any more, or with
any error of the database, of the storage or of the network (`FailListing`): the
same `catch` keeps the last list and sets the message (`error`), and since the list
does not change, the effect sets no other timer.

### EventBus and LiveScreen

`EventBus` is `events.py`: `channel` is what a publication reaches, `inside` who
is in its `subscribe` block, `queues` what each has to read. `publish` does not
await, so it is one action for all the subscribers; a full queue loses its
oldest event, gets the notice `Lagged` last and leaves the channel. Reading the
notice ends the block.

`LiveScreen` extends it with the page of one project in one tab. The server is
run control reduced to one run at a time, in the order in which `advance` writes
and publishes: the row before `interaction` and `done`, but `error` before the
row `failed`. A stop comes anywhere; the bus goes with the process. (The write of
`failed` succeeds here; its failure is in `RunControl`.)

* `/state` reads the row, then the checkpoint: a reading is begun (`ReadRow`),
  returned (`ReadThread`) and applied (`ApplyRead`), in any order among those in
  flight, or is lost.
* `view` is what the reducer (`workspace.ts`) makes of the readings and of the
  events: the status, the question displayed, the guard `answered`. The effects
  of the page are actions: opening and closing the stream, the reading on
  `onOpen` and on each event of `RESYNC_ON`, the delay before an
  interaction-less `waiting` is read again, the give-up of a project that stays
  `idle`, the resume.
* A question may be the arbitration (`arbitrations`). The page shows it whatever the
  status (`Arbitrating`, `page.tsx:142-154`), before `WorkspaceCenter` has its say: a
  failure under it is not displayed and offers no resume.
* `sendAnswer` tries, is accepted, refused by 409 and sent again while its
  question stands, or lost. Another tab may answer.
* `told`, `heard` and `unheard` are history: the questions whose answer this
  screen knows taken, those the guard is to protect, and whether an answer was
  taken without it. `behind` marks a view made from a reading that was overtaken
  or taken between the checkpoint and the row. A question enters `heard` when the
  screen learns that its answer was taken, unless an announcement is still unread
  in the stream or the run has lost the answer by then (it failed before the graph
  took it: the question must be asked again). It leaves with a reading that is
  `behind` or that says that the run has ended, since either lifts the guard.

### Gateway

Each caller makes one call at a time, `complete` or `stream`. `i[c]` and `j[c]`
are the provider of the route and the model being tried; an action is the code
between two awaits: `Check` (the key, the budget), `AskAtOnce` or `TakeTurn` and
`WakeUp` (the pacer: the lock, the sleep under it), `Delta` (a piece of text),
`Outcome`, `RecordEnd` and `RecordFailure` (the line of the try, then the next model
or the next provider), `Exhausted`, and `Cut` – the consumer leaves or the task is
cancelled – wherever it waits. `pieces[c]` is what `write` holds: text is added by
a delta and emptied by `StreamRestart`. `usage[p]` counts the lines in the window of
the limit, which leave it one by one (`Expire`). The limits in tokens are
abstracted to those in requests: both are read and spent at the same places.
The failures of the transport are of its two kinds, `ModelUnavailable` and
`ProviderUnavailable`. `fake` is the process started with the simulated
transport, which asks nobody and counts its lines apart.

### Templates

A section is its place in writing order, those of the cdc first, each document by
its `ordre`. The templates declare any graph inside each document, the profile
selects any sections. `Visit` is one turn of the loop of
`sections_depending_on`, `Queue` intersects with the plan, `RewriteNext` is
`next_rework` and the rewriting. `stale` is history: the sections whose text
leans on a text changed since. The order of the real YAML files respects their
`depend_de`, and no profile drops a section another depends on, which was
checked by reading them: it is the hypothesis `WritingOrder` of
`NothingLeansOnTheOld`. That property is about reopenings only: a correction of the
arbitration (`graph.py:148`) queues the sections it names and not what depends on them.

## 3. What the runs show

Every cfg has `CHECK_DEADLOCK FALSE`: the requests of an instance are used once,
and a project that is finished rests.

| run | instance | checks |
|---|---|---|
| `RunAnswers` | two answers, a resume, two questions, one exception, one stop | `SingleDriver`, `StatusTellsThread`, `AnsweredOnce`, `WaitingIsTakenOver`, `AnnouncedAsWritten`, `LeaseSpec` (refinement of `ThreadLease`) |
| `RunReopens` | two reopenings, a resume, two dependent sections, one exception or one stop | `PassedSectionsAreSaved` |
| `RunAlone` | one reopening, one answer, two questions, one stop, fairness | `ReopenedIsRewritten`, `NoOrphanRun`, `RunSettles` |
| `AgentLoop` | two sections, three facts, a table, one rewriting, one reopening, fairness | `SavedAsJudged`, `SkipIsTheUsers`, `AskedBeforeWritten`, `NoDemandIsLost`, `DeductionKeepsAnswers`, `WritingSpec` (refinement of `Writing`), `ComesToRest` |
| `LiveScreen` | one tab, one question (an arbitration or not), one gesture, one thing going wrong, two readings in flight, a queue of two, fairness | `NoticeIsLast`, `NoSilentDrop`, `AskedOnce`, `SettledIsSeen` |
| `ExportFiles` | three exports of two files, one failure (of an export or of a listing), one stop | `SingleExporter`, `RecordedFilesExist`, `OneExport`, `StorageTidy`, `PollingStopsOnlyOnError` |
| `Gateway` | two callers, a paced provider of two models, one of one model, one without key, fairness | `TextIsOfOneTry`, `TriesAreCounted`, `OverrunIsBounded`, `PacedApart`, `EveryCallEnds` |
| `Templates` | four sections in two documents, every graph and profile, any number of reopenings, fairness | `ClosureIsLeast`, `NothingLeansOnTheOld`, `ReopeningEnds` |
| `RunReopenRace`, `AgentForgets`, `LiveUnseenFailure`, `LiveAskedAgain` | the smallest that has the case | violations, see [5](#5-disagreements-found) |

Each passing run but `RunReopens` and `RunAlone`, whose module `RunAnswers`
covers, also checks `TypeOK`, the bounds of the counters and the shape of every
record.

**Bounds and why they are enough.** Requests: two of the kind under study and
one of another make every pair of handlers interleave at every await; a third
would meet a registry that is either taken or free, as the second does. Questions
of `RunControl` (`MaxInteractions`): two, so that an answer can name an earlier one. Faults and
stops: one of each, anywhere; the state after a restart is again a state the
requests start from. `RunReopens` has one exception *or* one stop (`OneMishap`, a
constraint), which keeps it short; the theorem `NoSectionIsLost` has no such
bound. Plan: two sections, the second depending on the first, are
what it takes to have an order, a queue shorter than the plan and a section left
behind. Exports: three, so that one that ended in part is followed by one that
cleans up and by one that lists. Agent: a fact of the row, one required fact and
one optional; section 1 is always reviewed and section 2 only under the
threshold; `MAX_REVISIONS` and `MAX_QUESTION_ROUNDS` are those of the code, not
reduced. A rewriting and a reopening once each, because either brings the graph
back to a state it starts from with the counters reset. The proofs of section 4
need none of these bounds.

`LiveScreen`: one question is enough for a guard kept too long or lifted too early,
since a rewound reading is about the question just answered; two readings in
flight are the least that can cross; a queue of two is filled by one text beside
the events of a run. `MaxExtras` is one for texts, exceptions, stops, cuts,
losses and other tabs together: each of them with everything else in any order,
two of them never; and where the question is an arbitration, what goes wrong is a
failure of the run, until the row says something else (`ArbitrationFails`, a
constraint: it is what the page shows of a failure that the arbitration changes).
These are the bounds most worth raising for `SettledIsSeen`, the safety properties being
proved for any. `Gateway`: two callers share
the paced provider from two routes, at its first and at its last place; it has two
models so that one call meets its own spacing, a limit of two so that one call
passes it, and an interval of two ticks so that a sleep may be cut half way; the
window needs no bound, because the budget closes. `Templates`: four
sections, three in one document, have chains, forks, cycles and a section left
out in between.

`RunAlone` has one reopener, one answerer and no exception: two reopenings, a
resume beside a reopening or an exception are the cases of section 5 and of the
list that ends it. `ReopenedIsRewritten` supposes there that no stop came between
the marks and the run (`crashes = 0`), for the reason given with `RunReopenRace`.

**Fairness.** `RunControl!Fairness` is weak fairness of each handler step, of each
task step and of `Restart`. The loop runs whatever is ready, a coroutine that
started goes on to its next await, and the host restarts a stopped server. There is
none on arrivals, faults or stops: nobody has to click and nothing has to fail.
`Agent!FairSpec` is weak fairness of `Advance`, the nodes that need no user: the
task that runs the graph runs its next node. It supposes that calls to the model
end, which the timeouts of the transport see to; a call that raises is a failed
run, and then it is up to the user to resume. The replies and the reopenings are
not fair. `LiveScreen!Fairness`: the run and the restart, the requests of a live
server, the timers and the stream of the browser; nothing that the user or the
network decides, no answer, no resume, no cut and no loss. `Gateway!Fairness`: each step of a call and
the passing of time are weakly fair – the timeouts of `transport.py:20-23` end
a request that brings nothing – and taking one's turn at a pacer is strongly
fair, because `asyncio.Lock` serves its waiters in order. `Templates`: the loop and the run
go on; reopening is up to the user.

**Mutants.** Each property of a passing run has a mutant of the code that breaks
it (`…Mutant` operators next to what they change): a guard dropped, a reset
missing, an order swapped, a callback that forgets another's task. A property no
mutant could break would say nothing of the code. Some mutants break more than
their property: `ConnectMutant`, which opens a stream without reading `/state`, breaks
`AskedOnce` and `SettledIsSeen`.

## 4. What is proved

The proofs hold for every set of requests, sections, facts, tables, exports,
files, subscribers, calls and providers, every dependency, and every bound. They rest on the named assumptions of
the modules: `RequestKinds` (a request has one kind), `PlanClosure`/`AgentPlan` (a
section is in its own closure, the plan is not empty), `AgentCatalogue` (the
catalogue is well formed), `ExportNames` (the marks for nothing are not exports),
`BusAssumption` (the notice is no event, a queue has room for one), `ScreenAssumption`
(one tab, the events of a run, room for one reading and one attempt), `GatewayAssumption` (finitely many calls,
routes made of providers), `CatalogueAssumption`, and that bounds are naturals. TLC evaluates them in every run.

**RunControlProofs.** `RunInv` is inductive. What it adds to the properties:
`EntryIsTheLiveTask` (the registry names the live task, so a request that finds
it empty may start one), `DriverOwnsThread` (where a task is tells the row and the
phase of the checkpoint, which it alone moves), `CheckpointShape` and `PendingIsInterrupted` (identifiers
are drawn in order and the pending one was not consumed), `ReopensWrittenPlan`
(a reopening starts on a plan whose rows are all there, since starting it drops
`todo`), `InputKinds`. Without `EntryIsTheLiveTask` the single driver is not
inductive: a state with a live task nobody registered admits a second one. From
it: `TypeCorrect`, `OneDriver`, `StatusIsTrue`, `EachQuestionAnsweredOnce`,
`NoSectionIsLost`, `WaitingIsSafe` (a row leaves `waiting` for `running`, or for
`failed` when the run that asks was told that its own write failed, and then the
question is still pending) and `ImplementsLease`. `RunControlProgresses`
shows that, whatever requests, failures and stops do, the thread moves as
`ThreadProgress` says, which `AgentProgresses` shows of the nodes: what run control
keeps of the graph is what the graph does.

**ReopeningProofs.** What run control promises *at rest*, and when it speaks.
`NoOrphanRun`, `ReopenedIsRewritten` and `AnnouncedAsWritten` are false of the
specification as it stands (section 5): two reopenings may pass the same guards, and
an exception may leave a row `running`. They are proved under the conditions
that make them true, each stated of the states met:

* no exception so far (`faults = 0`), for the first two;
* `LaunchesAlone` – no task is alive while a reopening that was let through writes
  its marks and its status – for `NoRowIsOrphaned` and for `AnnouncedIsTrue`, which
  allows any exceptions: what a run publishes is in the row and in the
  checkpoint already (`RowSaysFirst`), for no answer, resume or restart writes the row
  between the two. For the first, the invariant is
  `RunningHasDriver`: a row says `running` because a task drives the thread or a
  reopening is about to launch one;
* `ReopensAtRest` – from the moment a reopening has read `done`, no run goes on but
  the end of the one that wrote it, which purges, or fails if its write of `done` went
  unacknowledged – for `MarkedIsRewritten`. The invariant,
  `ReopenInv`, follows a mark from the handler to the task and to the queue of the
  graph (`WillRewrite`). `AtRestIsAlone`: this condition gives the other.

The conditions are not empty: `LoneIsAtRest` proves `ReopensAtRest` of any project
with one answer, one reopening and no resume (`LoneRequests`), under any number of
creations, any plan, failures and stops; it needs that the creation starts the
only run before the first checkpoint (`CreatedFirst`) and that an answer that found
its question pending keeps it until its run takes it (`AnswerHoldsPending`).
`LoneProjectSettles` puts them together; the run `RunAlone` is an instance of it.
`RunReopenRace` shows that a second reopening makes `ReopensAtRest` false.

`ApartProjectSettles` says the same of any number of requests of every kind, under
a condition on requests alone: no other request is in flight while a reopening
goes from its guards to its launch (`ReopensApart`, the awaits of
`routes.py:410-421`). Requests may overlap its readings, and runs go on behind
them: what the theorem says is that a request handled across those awaits is the only
way, failures and stops aside, to leave a section marked or a row `running`. The
invariant, `ApartInv`, says whose the marks are (`MarksAreItsOwn`), that a rewriting
has the row say `running` (`ReworkSaysRunning`), and that a project read `done` has
no mark before the reopening that read it writes its own (`NothingMarkedYet`). `ApartIsAlone` gives `LaunchesAlone` from it.

`NoEndlessTask` bounds a run: at most two steps of its own for each section of the
plan and nine more, failures included, and no step of anybody else gives it more
(`StepsLeft`). It needs that the section being saved is still to save
(`SavingIsQueued`) and that a request starts one task only (`StartedOnce`). The plan
has to be finite, which `IsFiniteSet(Sections)` says.

**AgentProofs.** `AgentInv` is inductive: `CursorLeads` (the section in hand is the
first of the queue, or the queue is empty), `StageOfRun` (which nodes belong to the
first pass and which to a rewriting), `RoundsLeft` (a node that is entered has a
round left, and counters are zero where a section begins), `Judged` (what
examined the draft, by node), `DemandFollowed` (a demand is in the queue or in hand,
and in `problems` until it is written). The bound on `revisions` is not inductive
without `RoundsLeft`, nor the order of the sections without `CursorLeads`. From it:
`TypeCorrect`, `SavedOnlyJudged`, `OnlyTheUserSkips`, `AskedFirst`,
`DemandsServed`, `AnswersAreKept` (an action property, from `merge_facts`) and
`AgentImplementsWriting`, where `save`, the arbitration, the end of the queue and
a reopening are the four steps of `Writing` and every other node is hidden;
`AgentProgresses`, the refinement of `ThreadProgress`; and `NoEndlessRun`: each node
that needs no user leaves fewer steps before the next interruption or the end
(`StepsLeft`, from the queue, the rounds and the place in the section), never more than
sixteen for each section of the plan and fifteen.

**ExportProofs.** `ExportInv`: `RegisteredIsLive`, `DepositedFirst` (a file is in the
bucket before a row names it), `EveryFileAccounted` (each file in the bucket is
named, being deposited, or about to be removed). From it: `ExportTypeCorrect`,
`OneExporter`, `NoDeadRow`, `WholeExport` (neither the rows nor a listing mix two
exports), `NothingLeaks`. `PollingGoesOn`: a screen that stops polling on an export it
shows running says that a list could not be loaded. Any failure of a listing, or a
stop, can bring it there; without any, only a listing whose files an export has
replaced before it signed them: `ListedWasRecorded` (what a listing read was
recorded), and replaced files do not come back (`StaleForGood`).

**EventBusProofs, LiveScreenProofs.** `BusInv` is inductive: with the two properties of
the notice, the size of the queues (a full queue that lost its oldest event has
room for the notice, and one only) and that publications reach only who is
inside. From it `BusKeepsItsWord`, `BusNoticeIsLast`, `BusNoSilentDrop`.
`ScreenUsesBus` shows that every step of the screen, of its run and of the process
is a step of the bus or leaves it alone; it needs that a run that rests on a
question has one to publish. The properties of the bus then hold of the screen
without being proved again: `ScreenNoticeIsLast`, `ScreenNoSilentDrop`, and the
types of the whole screen, `ScreenIsTyped`.

`NotAskedTwice` is `AskedOnce`: the guard of the reducer is never lifted too early,
however many questions, readings in flight, texts, cuts, stops and other tabs. The
difficulty is readings applied in any order. `GuardInv` orders them by what each
knows to be older than itself: of two readings in flight that nothing has overtaken,
the one that came back later shows another question only if the graph has gone past
that of the first (`ReadingsAgree`), and a question gone from one does not come back
in a later one (`NoReturn`). The same is kept of the questions the screen displays,
answers or holds (`HeldAgrees`, `HeldNoReturn`), so that when a reading lifts the
guard, no reading left standing shows the question it held (`UnguardedIsUnread`).
On the side of the run, a question known answered is behind the graph, or its answer is
in the task that starts or was lost with it (`HeardIsTaken`), and an announcement
still to read is of a later question (`AnnouncedIsLater`). Stating it for any bounds
is what showed the two exceptions made by `heard`, which the instance of the run is
too small to meet.

**GatewayProofs.** `GatewayInv` is `Steady` and `AdmittedIsBounded`. `Steady` relates the
steps of a call to its text (`TextOfTheTry`), its lines (`OwedWhileTried`), and the
lock (`SleeperHolds`, `HolderSleeps`: whoever sleeps holds the lock and its sleep
covers what is missing of the interval, hence `RequestsApart`).
`OverrunIsBounded` is not inductive: a call that was admitted spends later, when
the limit may be passed already. `AdmittedIsBounded` counts in advance what the
calls admitted may still send (`Pending`, a finite set of pairs of a call and a
model): admission puts all the pairs of the caller in it, each line written
takes one out, an expiry only helps. From it: `GatewayTypeCorrect`,
`OneTryText`, `StreamsAreCounted`, `BoundedOverrun`. `NoEndlessCall`: from its start to
its end a call only goes forward, to the next provider, the next model or further
in its try, and never past the end of its route (`OnItsRoute`); so it tries no model
twice, whatever fails.

**TemplatesProofs.** `ReopeningInv`: `Worklist` (what was reached and is not in the
worklist has all its dependents reached; every closed set with the section
reopened contains what was reached) and `RewrittenInOrder` (what is rewritten
comes before what is not; a stale text is still in the queue). The minimality of
the closure is inductive on the visit, not on its result. From it:
`ReopeningTypeCorrect`, `LeastClosure`, `UpToDate`. `NoEndlessReopening`: even on a cycle
of dependencies the loop visits a section once, and a reopening takes at most two
steps for each section of the catalogue and two more.

Every conjunct of the inductive invariants was checked by TLC on the instances of
section 3, or on larger ones, before it was proved; the runs keep the properties
and leave the strengthenings to the proofs.

**Only model-checked:** `RunSettles`, `ComesToRest`, `SettledIsSeen`,
`EveryCallEnds`, `ReopeningEnds`: liveness, and TLAPS does not handle fairness and
`ENABLED`. For all of them but `SettledIsSeen` the part that is safety is proved: a
measure that each step makes smaller (`NoEndlessTask`, `NoEndlessRun`, `NoEndlessCall`,
`NoEndlessReopening`). What TLC adds is that somebody can take the next step and
does. Every other property of a passing run is a theorem, under the conditions
above for the three of `ReopeningProofs`.

## 5. Disagreements found

Four runs are expected to fail, each on one property:

* `RunReopenRace` – two reopenings of different sections pass the same guards;
  the loser has marked sections that the winner's run does not rewrite, and they
  stay `reopened` in a project that ends `done`.
* `AgentForgets` – what the user demands of a section is given to one writing
  only. If that version has an orphan number or a low score, the next one is
  written without the demand, and saved unseen if its score is high.
* `LiveUnseenFailure` – `_fail` publishes `error` before it writes `failed`. The
  reading the event asks for may find the row still `running`; nothing else
  comes, and the screen says for ever that the run goes on.
* `LiveAskedAgain` – two readings of `/state` applied in the other order lift the
  guard on the answered question: it is asked again, and the stream that would
  correct it is closed.

Other cases, met while modelling, that no run lists (a run is kept for the
disagreements that reach the user's text or screen for good):

* `resume` reads the row (`routes.py:308`), then the registry (`:333`); when the run
  ends between the two, it starts a run on a project that waits for its answer,
  against `:286-291`. The run only finds the same question again.
* « on la relit tant qu'il tourne, et on s'arrête dès qu'il s'arrête »
  (`ExportsView.tsx:38-39`): any listing that fails – the database, the storage, the
  network, or a link of a file that an export has just replaced (`exports.py:47`) –
  ends in the same `catch` (`:25-27`), and no timer is set any more although the last
  list says `en_cours`; the launch button is not shown either. The screen says that
  the list could not be loaded (`PollingStopsOnlyOnError`) and has to be reloaded.
* « Certains fichiers ont pu être remplacés et d'autres non »
  (`ExportsView.tsx:123-124`), after an export that failed: against `service.py:80-88`
  and `OneExport`, an export replaces the rows of all its files or of none. When the
  transaction is committed and its acknowledgement lost, the outcome is `echec` with
  every file replaced.
* « un `failed` (ou un `done`) doit se voir, même s'il porte encore la même
  interaction » (`workspace.ts:47-48`): a run that fails after it exposed the arbitration, or
  before its answer is taken, leaves the arbitration on the whole page
  (`page.tsx:142-154`), and nothing says that the run failed (`Covered` in `SettledIsSeen`).
  An answer is accepted all the same and starts a run.
* A write of `waiting` that is done and not acknowledged (`runner.py:60`) is followed
  by `failed` (`:78-80`, `:123`): the user is told of a failure, and the resume asks the
  same question. Likewise a project that is finished may read `failed`.
* An export launched while the arbitration waits is no draft (`document.py:89`),
  against what the screen announces (`ExportsView.tsx:93`, `:114-115`).
* A table stays in the state when its facts stop being enough (`nodes.py:212`
  against `:209-211`), and the section is written with it.
* An exception in the first write of `advance` (`runner.py:44`), before its `try`,
  ends the run without an event, and a screen that has just answered keeps the
  question hidden (`Masked` in `SettledIsSeen`).
* The second of two reopenings may write `running` after the winner's run
  ended: `NoOrphanRun` fails with two reopeners. It may also do so between the write
  of `done` and its event: `AnnouncedAsWritten` fails too. A stop between the marks of a
  reopening and its first checkpoint, or a resume beside a reopening, leaves
  marked sections that nobody rewrites.
* A low score with an empty list of problems makes `write` start again with
  nothing to correct, which `nodes.py:45-47` calls a mistake for a reopening.
* The questions the model proposes are not filtered against the facts already
  answered (`nodes.py:300-301`), which `docs/spec-implementation.md` §4.2 says are never
  asked again. The content of a question is not in the model.
* Nothing tells the screen that a section is written again (`nodes.py:317`, `:335`):
  only a provider that fails takes its text back. The draft displayed glues
  both versions until `section_saved`.
* A reading of `/state` that fails may cover with its error the state shown by
  a later one (`loadError` in `SettledIsSeen`).
* `_drop_lagging` takes the oldest event out of the queue before the notice
  (`events.py:66-69`); the reopened stream and its reading of `/state` make up for it.
* A `complete` that is cancelled leaves no line, against `budget.py:19`, « Une ligne
  par essai réellement émis »: `TriesAreCounted` is said of streams only. An exception
  that is not the client library's own, in the middle of a stream, is not translated
  and passes through the cascade.

## 6. What is not modelled

* **Rendering, prompts, the fake model, migrations, configuration, forms**: text
  and layout, without a state of their own.
* **Arithmetic of the computations and regular expressions of the number check**:
  floating point and text, out of reach of TLC. When a computation runs, what it
  needs and what its absence leaves are in `Agent`: a table has the sets of facts any
  one of which gives its assumptions (`Needs`; the investments take one fact of
  two, `assumptions.py:157-168`) and the facts that count for zero while never asked
  (`Optional`). No property depends on which facts these are. The verdict of the
  number check is a choice.
* **Content of sections, facts and questions**: a section is a number, a fact
  has a provenance and a value or none.
* **Templates**: the reading of the YAML files and its validation, the catalogue
  sent to the front.
* **Gateway**: tokens, prices and the text of the calls; what a provider answers
  is a choice.
* **Event bus and stream**: the heartbeat, which changes nothing; the fragments
  of text, the score and the progress, which are displayed and decide nothing, are one event.
* **Accounts and rate limit**: they share no state with the runs, and each request
  is one read or one write of its own. The window of the rate limit is in the plan.
* LangGraph and PostgreSQL are taken at their word: a checkpoint is written
  whole, a transaction is atomic, an interrupted node is run again from its start.

## 7. Plan

Run control, agent, export, bus, screen, gateway and templates are modelled and
proved about. What is left, in the order of its worth:

1. `LiveScreen` with two extras at once, and two tabs, if a symmetry or a
   smaller server makes `SettledIsSeen` fit.
2. `Agent` in place of the graph that `RunControl` abstracts, in one specification:
   today they meet in `ThreadProgress`, which each implements.
3. The measures of `NoEndlessTask` and its like, carried to the liveness itself if a
   prover of `ENABLED` comes.
4. The sliding window of the rate limit, and the token limits of the gateway.

The number of runs is kept small, one for each question asked; the smallest
violation runs are given up first when a component needs its own.
