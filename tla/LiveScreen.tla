----------------------------- MODULE LiveScreen -----------------------------
(***************************************************************************)
(* The writing screen of one project in one tab, and what it sees of the   *)
(* run: GET /state, whose two reads nothing synchronises, GET /stream on   *)
(* the bus, the reducer that folds both into what is displayed, and the    *)
(* answer and the resume the user sends from there.                        *)
(*                                                                         *)
(* The server is RunControl reduced to one run at a time: its row, its     *)
(* checkpoint and its task, in the order in which it writes and publishes. *)
(***************************************************************************)
EXTENDS EventBus, FiniteSets, Functions

CONSTANTS
  tab,           \* this screen, the only subscriber here
  MaxQuestions,  \* bound: interruptions the graph exposes
  MaxRefreshes,  \* bound: readings of /state in flight
  MaxAttempts,   \* MAX_ATTEMPTS of sendAnswer
  MaxGestures,   \* bound: answers and resumes of the user
  MaxExtras      \* bound, together: texts published, exceptions, stops, cuts,
                 \* losses and answers of other tabs

Questions == 1..MaxQuestions
Slots     == 1..MaxRefreshes

\* "display" stands for token, score, progress and section_restart, which
\* change what is displayed and nothing the screen decides from.
RunEvents ==
  {<<"interaction", i>> : i \in Questions}
    \cup {<<"display", 0>>, <<"section_saved", 0>>, <<"done", 0>>, <<"error", 0>>}

ASSUME ScreenAssumption ==
  /\ Subscribers = {tab} /\ Events = RunEvents
  /\ MaxQuestions \in Nat /\ MaxGestures \in Nat /\ MaxExtras \in Nat
  /\ MaxRefreshes \in Nat \ {0} /\ MaxAttempts \in Nat \ {0}

VARIABLES
  \* The server.
  up, row, thread, issued,  \* issued: the last interruption drawn
  arbitrations,             \* those of kind `inconsistencies`
  rpc, given,               \* the task, and the question whose answer it carries
  \* The screen.
  view,       \* `live`: what the reducer made of states and events
  idleStuck, loadError,
  timer,      \* the delay before an interaction-less `waiting` is read again
  conn,       \* the stream
  sent,       \* readings of /state asked and not begun
  reads,      \* readings begun
  answer,     \* sendAnswer
  \* History and bounds.
  told,       \* the questions whose answer this screen knows taken
  heard,      \* those of them that the guard `answered` is to protect
  unheard,    \* an answer was taken that this screen does not know of
  gestures, extras

server  == <<up, row, thread, issued, arbitrations, rpc, given>>
display == <<view, idleStuck, loadError, timer>>
link    == <<conn, busVars>>
http    == <<sent, reads, answer>>
history == <<told, heard, unheard, gestures, extras>>
vars    == <<server, display, link, http, history>>

Rows   == {"idle", "running", "waiting", "failed", "done"}
TaskPc == {"none", "begin", "invoke", "graph", "settle", "toWaiting", "interaction",
           "toDone", "done", "toFailed"}

\* The interruption the checkpoint exposes.
pending == IF thread = "interrupted" THEN issued ELSE 0

ServerOK ==
  /\ up \in BOOLEAN /\ row \in Rows
  /\ thread \in {"none", "active", "interrupted", "finished"}
  /\ issued \in 0..MaxQuestions /\ given \in 0..MaxQuestions
  /\ arbitrations \in SUBSET Questions
  /\ rpc \in TaskPc

View == [status : Rows \cup {"unknown"}, q : 0..MaxQuestions,
         answered : 0..MaxQuestions, behind : BOOLEAN]

DisplayOK ==
  /\ view \in View
  /\ idleStuck \in BOOLEAN /\ loadError \in BOOLEAN /\ timer \in BOOLEAN

Reading == [at : {"free", "row", "back"}, row : Rows, q : 0..MaxQuestions,
            behind : BOOLEAN, older : SUBSET Slots]

HttpOK ==
  /\ sent \in 0..MaxRefreshes
  /\ reads \in [Slots -> Reading]
  /\ answer \in [pc : {"none", "sent", "accepted", "refused", "over"},
                 q : 0..MaxQuestions, tries : 0..MaxAttempts]

HistoryOK ==
  /\ told \in SUBSET Questions /\ heard \in SUBSET told /\ unheard \in BOOLEAN
  /\ gestures \in 0..MaxGestures /\ extras \in 0..MaxExtras

TypeOK ==
  /\ ServerOK /\ DisplayOK /\ conn \in {"closed", "asking", "open"} /\ BusTypeOK
  /\ HttpOK /\ HistoryOK

Blank == [status |-> "unknown", q |-> 0, answered |-> 0, behind |-> FALSE]
NoRead == [at |-> "free", row |-> "idle", q |-> 0, behind |-> FALSE, older |-> {}]
NoAnswer == [pc |-> "none", q |-> 0, tries |-> 0]

\* A project just created, whose task starts or died before starting; the
\* page is opened and asks for the state.
Init ==
  /\ up = TRUE /\ row = "idle" /\ thread = "none" /\ issued = 0 /\ arbitrations = {}
  /\ rpc \in {"begin", "none"} /\ given = 0
  /\ view = Blank /\ idleStuck = FALSE /\ loadError = FALSE /\ timer = FALSE
  /\ conn = "closed" /\ BusInit
  /\ sent = 1 /\ reads = [k \in Slots |-> NoRead] /\ answer = NoAnswer
  /\ told = {} /\ heard = {} /\ unheard = FALSE
  /\ gestures = 0 /\ extras = 0

-----------------------------------------------------------------------------
(* The run: runner.advance, which writes the row before it publishes. *)

Extra == extras < MaxExtras /\ extras' = extras + 1

Task(from, to) == rpc = from /\ rpc' = to

WriteRunning ==
  /\ Task("begin", "invoke") /\ row' = "running"
  /\ UNCHANGED <<up, thread, issued, arbitrations, given, display, link, http, history>>

\* ainvoke: from the start, with an answer, or from the checkpoint as it is;
\* an interrupted node then interrupts again and a finished graph does nothing.
Invoke ==
  /\ rpc = "invoke"
  /\ \/ /\ thread \in {"none", "active"} \/ (thread = "interrupted" /\ given = issued)
        /\ rpc' = "graph" /\ thread' = "active"
     \/ /\ thread = "interrupted" /\ given # issued
        /\ rpc' = "toWaiting" /\ UNCHANGED thread
     \/ /\ thread = "finished"
        /\ rpc' = "toDone" /\ UNCHANGED thread
  /\ UNCHANGED <<up, row, issued, arbitrations, given, display, link, http, history>>

\* What the graph publishes while it runs.
PublishText ==
  /\ Extra /\ rpc = "graph"
  /\ Publish(<<"display", 0>>) \/ Publish(<<"section_saved", 0>>)
  /\ UNCHANGED <<server, display, conn, http, told, heard, unheard, gestures>>

\* The run reaches its next interruption, or its end.
EndGraph ==
  /\ \/ /\ Task("graph", "toWaiting") /\ issued < MaxQuestions
        /\ thread' = "interrupted" /\ issued' = issued + 1
        /\ arbitrations' \in {arbitrations, arbitrations \cup {issued'}}
     \/ /\ Task("graph", "toDone")
        /\ thread' = "finished"
        /\ UNCHANGED <<issued, arbitrations>>
  /\ UNCHANGED <<up, row, given, display, link, http, history>>

WriteRest ==
  /\ \/ Task("toWaiting", "interaction") /\ row' = "waiting"
     \/ Task("toDone", "done") /\ row' = "done"
  /\ UNCHANGED <<up, thread, issued, arbitrations, given, display, link, http, history>>

\* The purge of the checkpoints is not guarded: its failure hides the end.
AnnounceRestMutant ==
  /\ \/ Task("interaction", "none") /\ Publish(<<"interaction", pending>>)
     \/ Task("done", "none") /\ (Publish(<<"done", 0>>) \/ UNCHANGED busVars)
  /\ given' = 0
  /\ UNCHANGED <<up, row, thread, issued, arbitrations, display, conn, http, history>>

\* The event follows the row; at the end, whether the purge succeeded or not.
AnnounceRest ==
  /\ \/ Task("interaction", "none") /\ Publish(<<"interaction", pending>>)
     \/ Task("done", "none") /\ Publish(<<"done", 0>>)
  /\ given' = 0
  /\ UNCHANGED <<up, row, thread, issued, arbitrations, display, conn, http, history>>

\* The first write raises, outside the try, done or not: nobody learns of it.
RunningFault ==
  /\ Extra
  /\ Task("begin", "none") /\ given' = 0 /\ row' \in {row, "running"}
  /\ UNCHANGED <<up, thread, issued, arbitrations, display, link, http, told, heard, unheard, gestures>>

\* _fail publishes first.  The exception may be the answer to the last write
\* that is lost, and not that write.
Fail ==
  /\ Extra
  /\ rpc \in {"invoke", "graph", "toWaiting", "toDone"} /\ rpc' = "toFailed"
  /\ \/ UNCHANGED row
     \/ rpc = "toWaiting" /\ row' = "waiting"
     \/ rpc = "toDone" /\ row' = "done"
  /\ Publish(<<"error", 0>>)
  /\ UNCHANGED <<up, thread, issued, arbitrations, given, display, conn, http, told, heard, unheard, gestures>>

\* The write that an outage refuses too is RunControl's WriteFailedFault.
WriteFailed ==
  /\ Task("toFailed", "none") /\ row' = "failed" /\ given' = 0
  /\ UNCHANGED <<up, thread, issued, arbitrations, display, link, http, history>>

RunStep ==
  \/ WriteRunning \/ Invoke \/ EndGraph
  \/ WriteRest \/ AnnounceRest \/ WriteFailed

\* Another tab answers the question.
OtherAnswer ==
  /\ Extra
  /\ up /\ rpc = "none" /\ pending # 0 /\ unheard' = TRUE
  /\ rpc' = "begin" /\ given' = pending
  /\ UNCHANGED <<up, row, thread, issued, arbitrations, display, link, http, told, heard, gestures>>

Begun == {k \in Slots : reads[k].at # "free"}

\* These readings are overtaken by what the screen has just learnt.
Overtaken(ks) == [j \in Slots |-> [reads[j] EXCEPT !.behind = @ \/ j \in ks]]

\* sendAnswer returns or raises: its attempts count no more.
Returns(pc) == [answer EXCEPT !.pc = pc, !.tries = 0]

\* The process dies with its task, its bus and the requests it was serving.
Stop ==
  /\ Extra /\ up
  /\ up' = FALSE /\ rpc' = "none" /\ given' = 0
  /\ LoseBus
  /\ conn' = IF conn = "open" THEN "asking" ELSE conn
  /\ sent' = 0
  /\ reads' = [k \in Slots |-> IF reads[k].at = "back"
                               THEN [reads[k] EXCEPT !.behind = TRUE, !.older = {}] ELSE NoRead]
  /\ loadError' = (loadError \/ sent > 0 \/ \E k \in Slots : reads[k].at = "row")
  /\ answer' = IF answer.pc = "none" THEN answer ELSE Returns("over")
  /\ unheard' = (unheard \/ answer.pc = "accepted")
  /\ UNCHANGED <<row, thread, issued, arbitrations, view, idleStuck, timer, told, heard, gestures>>

\* The start reconciles before it serves.
Restart ==
  /\ ~up /\ up' = TRUE
  /\ row' = IF row = "running" THEN "failed" ELSE row
  /\ UNCHANGED <<thread, issued, arbitrations, rpc, given, display, link, http, history>>

-----------------------------------------------------------------------------
(* GET /state and the reducer. *)

Transient(v)    == v.status = "waiting" /\ v.q = 0
Streaming       == \/ view.status = "running" \/ Transient(view)
                   \/ view.status = "idle" /\ ~idleStuck

\* The screen asks for the state.
Refresh ==
  /\ sent + Cardinality(Begun) < MaxRefreshes
  /\ sent' = sent + 1

Show(v, reread) ==
  /\ view' = v
  /\ idleStuck' = (idleStuck /\ v.status = "idle")
  /\ timer' = (Transient(v) /\ (reread \/ timer))

\* The row is read first.  For the properties, `older` keeps the readings
\* that read something earlier than this one, and `behind` a row the run has
\* not written yet although it was launched or has announced its failure.
ReadRow ==
  /\ up /\ sent > 0 /\ sent' = sent - 1
  /\ LET k == CHOOSE n \in Slots : n \notin Begun
     IN reads' = [reads EXCEPT ![k] =
          [at |-> "row", row |-> row, q |-> 0, behind |-> rpc \in {"begin", "toFailed"},
           older |-> Begun]]
  /\ UNCHANGED <<server, display, link, answer, history>>

\* The checkpoint is read next.
ReadThread ==
  /\ up
  /\ \E k \in Slots :
       /\ reads[k].at = "row"
       /\ reads' = [reads EXCEPT ![k].at = "back", ![k].q = pending,
            ![k].older = @ \cup {j \in Slots : reads[j].at = "back"}]
  /\ UNCHANGED <<server, display, link, sent, answer, history>>

\* Whatever a read shows replaces the view.
OnStateMutant(v, r) ==
  [status |-> r.row, q |-> r.q, answered |-> 0, behind |-> r.behind]

\* A question just answered is not asked again while the row may say so only
\* because the graph has not taken the answer yet.
OnState(v, r) ==
  IF v.answered # 0 /\ r.row \in {"waiting", "running"} /\ r.q = v.answered
  THEN [v EXCEPT !.status = "running", !.q = 0, !.behind = r.behind]
  ELSE [status |-> r.row, q |-> r.q, answered |-> 0, behind |-> r.behind]

\* Responses arrive in any order.
ApplyRead ==
  /\ \E k \in Slots :
       /\ reads[k].at = "back"
       /\ Show(OnState(view, reads[k]), TRUE)
       /\ heard' = IF reads[k].behind \/ reads[k].row \notin {"waiting", "running"} THEN {}
                   ELSE heard
       /\ reads' = [j \in Slots |-> IF j = k THEN NoRead
              ELSE [Overtaken(reads[k].older)[j] EXCEPT !.older = @ \ {k}]]
  /\ loadError' = FALSE
  /\ UNCHANGED <<server, link, sent, answer, told, unheard, gestures, extras>>

\* A reading fails: always while the server is down.
LoseRead ==
  /\ \/ ~up /\ UNCHANGED extras
     \/ Extra
  /\ sent > 0 /\ sent' = sent - 1
  /\ loadError' = TRUE
  /\ reads' = Overtaken(Begun)
  /\ UNCHANGED <<server, view, idleStuck, timer, link, answer, told, heard, unheard, gestures>>

-----------------------------------------------------------------------------
(* GET /stream: useRunStream, readStream and event_stream. *)

\* The effect opens the stream after the screen has changed.
OpenStream ==
  /\ Streaming /\ conn = "closed" /\ conn' = "asking"
  /\ UNCHANGED <<server, display, busVars, http, history>>

\* The effect closes it, and the server leaves its subscription.
CloseStream ==
  /\ ~Streaming /\ conn # "closed" /\ conn' = "closed"
  /\ Leave(tab)
  /\ UNCHANGED <<server, display, http, history>>

\* The connection is opened and nothing is read again: SettledIsSeen fails too.
ConnectMutant ==
  /\ up /\ conn = "asking" /\ conn' = "open"
  /\ Subscribe(tab)
  /\ UNCHANGED <<server, display, http, history>>

\* The subscription precedes the opening the client sees, which reads /state.
Connect ==
  /\ up /\ conn = "asking" /\ conn' = "open"
  /\ Subscribe(tab) /\ Refresh
  /\ UNCHANGED <<server, display, reads, answer, history>>

\* The stream is cut; after a pause it is asked again.
Cut ==
  /\ Extra /\ conn = "open"
  /\ conn' = "asking" /\ Leave(tab)
  /\ UNCHANGED <<server, display, http, told, heard, unheard, gestures>>

OnEvent(v, e) ==
  CASE e[1] = "interaction" /\ v.status # "unknown" /\ e[2] # v.answered ->
         [status |-> "waiting", q |-> e[2], answered |-> 0, behind |-> FALSE]
    [] e[1] = "done" /\ v.status # "unknown" ->
         [v EXCEPT !.status = "done", !.behind = FALSE]
    [] OTHER -> v

\* The events after which /state is read again.
RESYNC_ON == {"interaction", "section_saved", "done", "error"}

TakeEvent ==
  /\ conn = "open" /\ Take(tab)
  /\ LET e == Head(queues[tab])
     IN \/ /\ e = Lagged  \* an `error` too, and the end of the stream
           /\ conn' = "asking" /\ Refresh
           /\ UNCHANGED <<view, idleStuck, timer, reads>>
        \/ /\ e # Lagged
           /\ Show(OnEvent(view, e), FALSE)
           /\ reads' = IF e[1] \in {"interaction", "done"}
                       THEN Overtaken(Begun) ELSE reads
           /\ IF e[1] \in RESYNC_ON THEN Refresh ELSE UNCHANGED sent
           /\ UNCHANGED conn
  /\ UNCHANGED <<server, loadError, answer, history>>

\* `waiting` without a question is a passing state: it is read again.
ReadTransient ==
  /\ timer /\ timer' = FALSE /\ Refresh
  /\ UNCHANGED <<server, view, idleStuck, loadError, link, reads, answer, history>>

\* An `idle` that lasts is not believed any more.
GiveUpIdle ==
  /\ view.status = "idle" /\ ~idleStuck /\ idleStuck' = TRUE
  /\ UNCHANGED <<server, view, loadError, timer, link, http, history>>

-----------------------------------------------------------------------------
(* The user: sendAnswer and the resume. *)

\* The arbitration takes the whole page, whatever the status.
Arbitrating == ~loadError /\ view.q \in arbitrations

\* WorkspaceCenter shows a failure, the end or a start that never came before
\* any question.
Ended == view.status \in {"failed", "done"} \/ idleStuck

\* The question on the screen.
Asked == IF loadError \/ (Ended /\ ~Arbitrating) THEN 0 ELSE view.q

Gesture == gestures < MaxGestures /\ gestures' = gestures + 1

SendAnswer ==
  /\ Gesture /\ Asked # 0 /\ answer = NoAnswer
  /\ answer' = [pc |-> "sent", q |-> Asked, tries |-> 1]
  /\ UNCHANGED <<server, display, link, sent, reads, told, heard, unheard, extras>>

\* POST /answer: stale, refused while a run is alive, or taken.
DecideAnswer ==
  /\ up /\ answer.pc = "sent"
  /\ \/ /\ pending # answer.q
        /\ answer' = Returns("over")
        /\ UNCHANGED <<rpc, given>>
     \/ /\ pending = answer.q /\ rpc # "none"
        /\ answer' = [answer EXCEPT !.pc = "refused"]
        /\ UNCHANGED <<rpc, given>>
     \/ /\ pending = answer.q /\ rpc = "none"
        /\ answer' = Returns("accepted")
        /\ rpc' = "begin" /\ given' = answer.q
  /\ UNCHANGED <<up, row, thread, issued, arbitrations, display, link, sent, reads, history>>

OnAnswered(v, i) ==
  IF v.status = "unknown" THEN v
  ELSE [v EXCEPT !.answered = i, !.q = 0, !.status = "running", !.behind = FALSE]

\* The graph has gone past question q.
Past(q) == q < issued \/ (q = issued /\ thread # "interrupted")

\* The graph has taken the answer to question q, or is about to.
Taken(q) == Past(q) \/ (rpc \in {"begin", "invoke"} /\ given = q)

\* Questions announced on the stream that the screen has not read yet.
Announced == {i \in Questions : <<"interaction", i>> \in Range(queues[tab])}

\* The answer is taken: the screen leaves the question and reads the state.
AnswerTaken ==
  /\ answer.pc = "accepted"
  /\ Show(OnAnswered(view, answer.q), FALSE)
  /\ told' = told \cup {answer.q}
  /\ heard' = IF Announced = {} /\ Taken(answer.q) THEN heard \cup {answer.q} ELSE heard
  /\ answer' = NoAnswer /\ Refresh
  /\ UNCHANGED <<server, loadError, link, reads, unheard, gestures, extras>>

\* Any other end of sendAnswer: stale, given up, or failed.
AnswerOver ==
  /\ \/ answer.pc = "over"
     \/ answer.pc = "refused" /\ answer.tries = MaxAttempts
  /\ answer' = NoAnswer /\ Refresh
  /\ UNCHANGED <<server, display, link, reads, history>>

\* The attempts are not counted.
AnswerRetryMutant ==
  /\ up /\ answer.pc = "refused"
  /\ answer' = IF pending = answer.q
               THEN [answer EXCEPT !.pc = "sent", !.tries = @ + 1]
               ELSE Returns("over")
  /\ UNCHANGED <<server, display, link, sent, reads, history>>

\* Refused: after a delay the state tells whether the question still stands.
AnswerRetry ==
  /\ up /\ answer.pc = "refused" /\ answer.tries < MaxAttempts
  /\ answer' = IF pending = answer.q
               THEN [answer EXCEPT !.pc = "sent", !.tries = @ + 1]
               ELSE Returns("over")
  /\ UNCHANGED <<server, display, link, sent, reads, history>>

\* The request or its response is lost; down, the server answers nothing.
LoseAnswer ==
  /\ \/ ~up /\ answer.pc \in {"sent", "refused"} /\ UNCHANGED <<unheard, extras>>
     \/ Extra /\ answer.pc = "accepted" /\ unheard' = TRUE
  /\ answer' = Returns("over")
  /\ UNCHANGED <<server, display, link, sent, reads, told, heard, gestures>>

\* POST /resume, when the screen proposes it, then a reading of /state.
Resume ==
  /\ Gesture /\ up /\ ~loadError /\ ~Arbitrating
  /\ \/ view.status = "failed"
     \/ view.status = "idle" /\ idleStuck
  /\ rpc' = IF rpc = "none" /\ (row = "failed" \/ (thread = "none" /\ row = "idle"))
            THEN "begin" ELSE rpc
  /\ Refresh
  /\ UNCHANGED <<up, row, thread, issued, arbitrations, given, display, link, reads, answer,
                 told, heard, unheard, extras>>

-----------------------------------------------------------------------------
ScreenStep ==
  \/ ReadRow \/ ReadThread \/ ApplyRead \/ LoseRead
  \/ OpenStream \/ CloseStream \/ Connect \/ Cut \/ TakeEvent
  \/ ReadTransient \/ GiveUpIdle

UserStep ==
  \/ SendAnswer \/ DecideAnswer \/ AnswerTaken \/ AnswerOver \/ AnswerRetry \/ LoseAnswer \/ Resume

Next ==
  \/ RunStep \/ PublishText \/ RunningFault \/ Fail \/ OtherAnswer \/ Stop \/ Restart
  \/ ScreenStep \/ UserStep

Spec == Init /\ [][Next]_vars

\* A live process makes its run and its requests advance, the browser its
\* timers and its stream.  Nothing is fair that the user or the network
\* decides: no answer, no resume, no cut, no loss.
Fairness ==
  /\ WF_vars(RunStep \/ Restart)
  /\ WF_vars(ReadRow \/ ReadThread \/ ApplyRead \/ (LoseRead /\ ~up)
               \/ DecideAnswer \/ AnswerTaken \/ AnswerOver \/ AnswerRetry)
  /\ WF_vars(OpenStream \/ CloseStream \/ Connect \/ TakeEvent \/ ReadTransient \/ GiveUpIdle)

FairSpec == Spec /\ Fairness

-----------------------------------------------------------------------------
(* Properties. *)

\* A question whose answer this screen knows taken is not asked again by it:
\* the guard `answered` of the reducer is never lifted too early by a reading
\* or an event.  `heard` leaves out what the guard does not hold: a question
\* answered while an announcement is on its way, one whose run lost the answer
\* before the screen learnt that it was taken, and every question once a
\* reading overtaken, ahead of the row, or of a run that has ended, came.
AskedOnce == Asked \notin heard

\* The screen shows what the project came to rest in.
Seen ==
  \/ row = "waiting" /\ Asked = pending
  \/ ~Arbitrating /\ \/ row = "done" /\ view.status = "done"
                     \/ row = "failed" /\ view.status = "failed"
                     \/ row = "idle" /\ idleStuck

\* A row left at `running` by an outage rests only at the next start.
AtRest == up /\ rpc = "none" /\ row # "running"

\* The screen holds the pending question as answered, although the answer
\* went with its task before the graph took it.
Masked == view.answered # 0 /\ view.answered = pending

\* The failure is hidden by the arbitration it still carries, which can be
\* answered all the same.
Covered == row = "failed" /\ pending \in arbitrations /\ Asked = pending

\* Once the run rests (a question, the end, a failure, a start that never
\* came), the screen comes to show it, or an error, or something changes,
\* although no event is kept for a screen that was not listening: it loses
\* nothing that the next reading does not give back.  Except after a reading
\* overtaken or taken ahead of the row, on a question it holds as answered,
\* when an answer was taken without its knowledge, and for a failure that the
\* arbitration covers.
SettledIsSeen ==
  []<>(~AtRest \/ Seen \/ Covered \/ loadError \/ view.behind \/ Masked \/ unheard)

\* A failure must be seen (liveReducer: "un `failed` ... doit se voir"): the
\* screen comes to show it, or at least to offer to start again.
FailureIsSeen ==
  (AtRest /\ row = "failed")
    ~> (row # "failed" \/ (Ended /\ ~Arbitrating) \/ loadError)

\* No question whose answer this screen knows taken is asked again by it
\* (`Live.answered`: "La reposer ferait répondre deux fois"), once nothing is
\* on its way that could correct it.
AnsweredIsNotAsked ==
  Asked \in told /\ sent = 0 /\ Begun = {} /\ conn = "closed" => ~Taken(Asked)
=============================================================================
