-------------------------- MODULE LiveScreenProofs ---------------------------
(* The screen and its run use the bus as its specification says, so what is  *)
(* proved of the bus holds of the stream of the screen.                      *)
EXTENDS LiveScreen, EventBusProofs, FiniteSetTheorems

\* A run that goes to rest on an interruption has one to announce.
RestHasQuestion ==
  /\ issued \in 0..MaxQuestions
  /\ thread = "interrupted" => issued # 0
  /\ rpc \in {"toWaiting", "interaction"} => thread = "interrupted"

LEMMA RestHasQuestionKept ==
  ASSUME RestHasQuestion, [Next]_vars PROVE RestHasQuestion'
<1>1. CASE RunStep
  BY <1>1, ScreenAssumption DEF RunStep, WriteRunning, Invoke, EndGraph, WriteRest, AnnounceRest,
     WriteFailed, Task, RestHasQuestion
<1>2. CASE UNCHANGED server
  BY <1>2 DEF server, RestHasQuestion
<1>3. CASE PublishText \/ ScreenStep
  <2>1. UNCHANGED server
    BY <1>3 DEF PublishText, ScreenStep, ReadRow, ReadThread, ApplyRead, LoseRead, OpenStream,
       CloseStream, Connect, Cut, TakeEvent, ReadTransient, GiveUpIdle
  <2> QED
    BY <1>2, <2>1
<1>4. CASE RunningFault \/ Fail \/ OtherAnswer \/ Stop \/ Restart
  BY <1>4 DEF RunningFault, Fail, OtherAnswer, Stop, Restart, Task, RestHasQuestion
<1>5. CASE SendAnswer \/ AnswerTaken \/ AnswerOver \/ AnswerRetry \/ LoseAnswer
  <2>1. UNCHANGED server
    BY <1>5 DEF SendAnswer, AnswerTaken, AnswerOver, AnswerRetry, LoseAnswer
  <2> QED
    BY <1>2, <2>1
<1>6. CASE DecideAnswer \/ Resume
  BY <1>6 DEF DecideAnswer, Resume, RestHasQuestion
<1> QED
  BY <1>1, <1>2, <1>3, <1>4, <1>5, <1>6 DEF Next, UserStep, vars

\* Every step of the screen, of its run and of its process is a step of the
\* bus, or leaves it alone.
LEMMA StepIsBusStep ==
  ASSUME RestHasQuestion, [Next]_vars PROVE [BusNext]_busVars
<1>0. tab \in Subscribers /\ Events = RunEvents
  BY ScreenAssumption
<1>1. CASE AnnounceRest
  <2>1. rpc = "interaction" => pending \in Questions
    BY ScreenAssumption DEF RestHasQuestion, pending, Questions
  <2>2. \E e \in Events : Publish(e)
    BY <1>0, <1>1, <2>1 DEF AnnounceRest, Task, RunEvents
  <2> QED
    BY <2>2 DEF BusNext
<1>2. CASE PublishText \/ Fail
  <2>1. \E e \in Events : Publish(e)
    BY <1>0, <1>2 DEF PublishText, Fail, RunEvents
  <2> QED
    BY <2>1 DEF BusNext
<1>3. CASE CloseStream \/ Connect \/ Cut \/ TakeEvent
  <2>1. Leave(tab) \/ Subscribe(tab) \/ Take(tab)
    BY <1>3 DEF CloseStream, Connect, Cut, TakeEvent
  <2> QED
    BY <1>0, <2>1 DEF BusNext
<1>4. CASE Stop
  BY <1>4 DEF Stop, BusNext
<1>5. CASE WriteRunning \/ Invoke \/ EndGraph \/ WriteRest \/ WriteFailed
             \/ RunningFault \/ OtherAnswer \/ Restart
  BY <1>5 DEF WriteRunning, Invoke, EndGraph, WriteRest, WriteFailed, RunningFault,
     OtherAnswer, Restart, link
<1>6. CASE ReadRow \/ ReadThread \/ ApplyRead \/ LoseRead \/ OpenStream
             \/ ReadTransient \/ GiveUpIdle
  BY <1>6 DEF ReadRow, ReadThread, ApplyRead, LoseRead, OpenStream, ReadTransient,
     GiveUpIdle, link
<1>7. CASE UserStep
  BY <1>7 DEF UserStep, SendAnswer, DecideAnswer, AnswerTaken, AnswerOver, AnswerRetry,
     LoseAnswer, Resume, link
<1>8. CASE UNCHANGED vars
  BY <1>8 DEF vars, link
<1> QED
  BY <1>1, <1>2, <1>3, <1>4, <1>5, <1>6, <1>7, <1>8 DEF Next, RunStep, ScreenStep

\* The screen, its run and the process that may die under them are one use of
\* the bus: the detailed specification implements the bus's.
THEOREM ScreenUsesBus == Spec => BusSpec
<1>1. Init => RestHasQuestion /\ BusInit
  BY ScreenAssumption DEF Init, RestHasQuestion
<1> QED
  BY <1>1, RestHasQuestionKept, StepIsBusStep, PTL DEF Spec, BusSpec

\* On the stream of the screen too, the lag notice comes once and last.
THEOREM ScreenNoticeIsLast == Spec => []NoticeIsLast
BY ScreenUsesBus, BusNoticeIsLast, PTL

\* The screen never waits on a stream that publications no longer reach
\* without the notice that makes it reconnect.
THEOREM ScreenNoSilentDrop == Spec => []NoSilentDrop
BY ScreenUsesBus, BusNoSilentDrop, PTL

-----------------------------------------------------------------------------
(* Types.                                                                   *)

LEMMA ServerOKKept ==
  ASSUME ServerOK, HttpOK, [Next]_vars PROVE ServerOK'
<1>0. pending \in 0..MaxQuestions /\ answer.q \in 0..MaxQuestions
  BY ScreenAssumption DEF ServerOK, HttpOK, pending
<1>1. CASE RunStep
  <2>1. CASE EndGraph
    <3>1. issued' \in 0..MaxQuestions /\ issued \in 0..MaxQuestions
      BY <2>1, ScreenAssumption DEF EndGraph, ServerOK
    <3>2. CASE issued' = issued + 1
      <4>1. issued' \in Questions
        BY <3>1, <3>2, ScreenAssumption DEF Questions
      <4>2. arbitrations' \in SUBSET Questions
        BY <2>1, <4>1 DEF EndGraph, ServerOK
      <4> QED
        BY <2>1, <3>1, <4>2 DEF EndGraph, Task, ServerOK, TaskPc
    <3>3. CASE issued' = issued
      BY <2>1, <3>1, <3>3, ScreenAssumption DEF EndGraph, Task, ServerOK, TaskPc
    <3> QED
      BY <2>1, <3>2, <3>3 DEF EndGraph
  <2>2. CASE RunStep /\ ~EndGraph
    BY <2>2, ScreenAssumption DEF RunStep, WriteRunning, Invoke, WriteRest, AnnounceRest,
       WriteFailed, Task, ServerOK, Rows, TaskPc
  <2> QED
    BY <1>1, <2>1, <2>2
<1>2. CASE UNCHANGED server
  BY <1>2 DEF server, ServerOK
<1>3. CASE RunningFault \/ Fail \/ OtherAnswer \/ Stop \/ Restart
  <2>1. 0 \in 0..MaxQuestions
    BY ScreenAssumption
  <2>2. CASE RunningFault \/ Fail
    BY <2>1, <2>2 DEF RunningFault, Fail, Task, ServerOK, Rows, TaskPc
  <2>3. CASE OtherAnswer
    BY <1>0, <2>3 DEF OtherAnswer, ServerOK, TaskPc
  <2>4. CASE Stop
    BY <2>1, <2>4 DEF Stop, ServerOK, TaskPc
  <2>5. CASE Restart
    BY <2>5 DEF Restart, ServerOK, Rows
  <2> QED
    BY <1>3, <2>2, <2>3, <2>4, <2>5
<1>4. CASE PublishText \/ ScreenStep
  <2>1. UNCHANGED server
    BY <1>4 DEF PublishText, ScreenStep, ReadRow, ReadThread, ApplyRead, LoseRead, OpenStream,
       CloseStream, Connect, Cut, TakeEvent, ReadTransient, GiveUpIdle
  <2> QED
    BY <1>2, <2>1
<1>5. CASE SendAnswer \/ AnswerTaken \/ AnswerOver \/ AnswerRetry \/ LoseAnswer
  <2>1. UNCHANGED server
    BY <1>5 DEF SendAnswer, AnswerTaken, AnswerOver, AnswerRetry, LoseAnswer
  <2> QED
    BY <1>2, <2>1
<1>6. CASE DecideAnswer \/ Resume
  BY <1>0, <1>6 DEF DecideAnswer, Resume, ServerOK, TaskPc
<1> QED
  BY <1>1, <1>2, <1>3, <1>4, <1>5, <1>6 DEF Next, UserStep, vars

\* What the reducer makes of a typed view is typed.
LEMMA ReducerTypes ==
  ASSUME NEW v \in View
  PROVE  /\ \A r \in Reading : OnState(v, r) \in View
         /\ \A e \in RunEvents : OnEvent(v, e) \in View
         /\ \A i \in 0..MaxQuestions : OnAnswered(v, i) \in View
         /\ Transient(v) \in BOOLEAN
<1>0. 0 \in 0..MaxQuestions
  BY ScreenAssumption
<1>1. ASSUME NEW r \in Reading PROVE OnState(v, r) \in View
  <2>1. CASE v.answered # 0 /\ r.row \in {"waiting", "running"} /\ r.q = v.answered
    <3>1. OnState(v, r) =
            [status |-> "running", q |-> 0, answered |-> v.answered, behind |-> r.behind]
      BY <2>1 DEF OnState, View
    <3> QED
      BY <1>0, <3>1 DEF View, Reading, Rows
  <2>2. CASE ~(v.answered # 0 /\ r.row \in {"waiting", "running"} /\ r.q = v.answered)
    <3>1. OnState(v, r) = [status |-> r.row, q |-> r.q, answered |-> 0, behind |-> r.behind]
      BY <2>2 DEF OnState
    <3> QED
      BY <1>0, <3>1 DEF View, Reading
  <2> QED
    BY <2>1, <2>2
<1>2. ASSUME NEW e \in RunEvents PROVE OnEvent(v, e) \in View
  <2>1. CASE e[1] = "interaction"
    <3>1. PICK i \in Questions : e = <<"interaction", i>>
      BY <2>1 DEF RunEvents
    <3>2. e[2] \in 0..MaxQuestions
      BY <3>1, ScreenAssumption DEF Questions
    <3> QED
      BY <1>0, <2>1, <3>2 DEF OnEvent, View, Rows
  <2>2. CASE e[1] # "interaction"
    BY <2>2 DEF OnEvent, View, Rows
  <2> QED
    BY <2>1, <2>2
<1>3. ASSUME NEW i \in 0..MaxQuestions PROVE OnAnswered(v, i) \in View
  <2>1. CASE v.status = "unknown"
    BY <2>1 DEF OnAnswered
  <2>2. CASE v.status # "unknown"
    <3>1. OnAnswered(v, i) =
            [status |-> "running", q |-> 0, answered |-> i, behind |-> FALSE]
      BY <2>2 DEF OnAnswered, View
    <3> QED
      BY <1>0, <3>1 DEF View, Rows
  <2> QED
    BY <2>1, <2>2
<1> QED
  BY <1>1, <1>2, <1>3 DEF Transient

LEMMA ShowTypes ==
  ASSUME DisplayOK, NEW v \in View, NEW b \in BOOLEAN, Show(v, b)
  PROVE  view' \in View /\ idleStuck' \in BOOLEAN /\ timer' \in BOOLEAN
BY DEF Show, DisplayOK, Transient

\* What the stream gives the screen next is the notice or an event of the run.
LEMMA HeadIsEvent ==
  ASSUME BusTypeOK, Take(tab), Head(queues[tab]) # Lagged
  PROVE  Head(queues[tab]) \in RunEvents
<1>1. tab \in Subscribers /\ Events = RunEvents
  BY ScreenAssumption
<1>2. queues[tab] \in Seq(RunEvents \cup {Lagged}) /\ queues[tab] # <<>>
  BY <1>1 DEF BusTypeOK, Take
<1>3. Head(queues[tab]) \in RunEvents \cup {Lagged}
  BY <1>2
<1> QED
  BY <1>3

LEMMA DisplayOKKept ==
  ASSUME DisplayOK, HttpOK, BusTypeOK, [Next]_vars PROVE DisplayOK'
<1>1. CASE UNCHANGED display
  BY <1>1 DEF display, DisplayOK
<1>2. CASE RunStep \/ PublishText \/ RunningFault \/ Fail \/ OtherAnswer \/ Restart
  <2>1. UNCHANGED display
    BY <1>2 DEF RunStep, WriteRunning, Invoke, EndGraph, WriteRest, AnnounceRest, WriteFailed,
       PublishText, RunningFault, Fail, OtherAnswer, Restart
  <2> QED
    BY <1>1, <2>1
<1>3. CASE Stop \/ LoseRead \/ ReadTransient \/ GiveUpIdle
  BY <1>3 DEF Stop, LoseRead, ReadTransient, GiveUpIdle, DisplayOK
<1>4. CASE ReadRow \/ ReadThread \/ OpenStream \/ CloseStream \/ Connect \/ Cut
  <2>1. UNCHANGED display
    BY <1>4 DEF ReadRow, ReadThread, OpenStream, CloseStream, Connect, Cut
  <2> QED
    BY <1>1, <2>1
<1>5. CASE ApplyRead
  <2>1. PICK k \in Slots : Show(OnState(view, reads[k]), TRUE)
    BY <1>5 DEF ApplyRead
  <2>2. OnState(view, reads[k]) \in View
    BY ReducerTypes DEF DisplayOK, HttpOK
  <2> QED
    BY <1>5, <2>1, <2>2, ShowTypes DEF ApplyRead, DisplayOK
<1>6. CASE TakeEvent
  <2>1. CASE Head(queues[tab]) = Lagged
    BY <1>6, <2>1 DEF TakeEvent, DisplayOK
  <2>2. CASE Head(queues[tab]) # Lagged
    <3>1. OnEvent(view, Head(queues[tab])) \in View
      BY <1>6, <2>2, HeadIsEvent, ReducerTypes DEF TakeEvent, DisplayOK
    <3>2. Show(OnEvent(view, Head(queues[tab])), FALSE)
      BY <1>6, <2>2 DEF TakeEvent
    <3> QED
      BY <1>6, <3>1, <3>2, ShowTypes DEF TakeEvent, DisplayOK
  <2> QED
    BY <2>1, <2>2
<1>7. CASE AnswerTaken
  <2>1. OnAnswered(view, answer.q) \in View
    BY ReducerTypes DEF DisplayOK, HttpOK
  <2>2. Show(OnAnswered(view, answer.q), FALSE)
    BY <1>7 DEF AnswerTaken
  <2> QED
    BY <1>7, <2>1, <2>2, ShowTypes DEF AnswerTaken, DisplayOK
<1>8. CASE SendAnswer \/ DecideAnswer \/ AnswerOver \/ AnswerRetry \/ LoseAnswer \/ Resume
  <2>1. UNCHANGED display
    BY <1>8 DEF SendAnswer, DecideAnswer, AnswerOver, AnswerRetry, LoseAnswer, Resume
  <2> QED
    BY <1>1, <2>1
<1> QED
  BY <1>1, <1>2, <1>3, <1>4, <1>5, <1>6, <1>7, <1>8 DEF Next, ScreenStep, UserStep, vars

LEMMA OvertakenTypes ==
  ASSUME reads \in [Slots -> Reading], NEW ks
  PROVE  /\ Overtaken(ks) \in [Slots -> Reading]
         /\ \A j \in Slots : Overtaken(ks)[j] = [reads[j] EXCEPT !.behind = @ \/ j \in ks]
<1>1. ASSUME NEW j \in Slots
      PROVE  [reads[j] EXCEPT !.behind = @ \/ j \in ks] \in Reading
  <2>1. reads[j] \in Reading /\ (reads[j].behind \/ j \in ks) \in BOOLEAN
    BY DEF Reading
  <2> QED
    BY <2>1 DEF Reading
<1> QED
  BY <1>1 DEF Overtaken

LEMMA RefreshTypes ==
  ASSUME HttpOK, Refresh PROVE sent' \in 0..MaxRefreshes
<1>1. IsFiniteSet(Slots)
  BY FS_Interval, ScreenAssumption DEF Slots
<1>2. IsFiniteSet(Begun)
  BY <1>1, FS_Subset DEF Begun
<1>3. Cardinality(Begun) \in Nat
  BY <1>2, FS_CardinalityType
<1> QED
  BY <1>3, ScreenAssumption DEF HttpOK, Refresh

\* The end of sendAnswer keeps its question, and the type.
LEMMA ReturnsTypes ==
  ASSUME HttpOK, NEW p \in {"accepted", "over"}
  PROVE  /\ Returns(p) \in [pc : {"none", "sent", "accepted", "refused", "over"},
                            q : 0..MaxQuestions, tries : 0..MaxAttempts]
         /\ Returns(p).pc = p /\ Returns(p).q = answer.q
<1>1. 0 \in 0..MaxAttempts
  BY ScreenAssumption
<1> QED
  BY <1>1 DEF HttpOK, Returns

LEMMA HttpOKKept ==
  ASSUME ServerOK, DisplayOK, HttpOK, [Next]_vars PROVE HttpOK'
<1>0. /\ pending \in 0..MaxQuestions /\ Asked \in 0..MaxQuestions
      /\ 0 \in 0..MaxRefreshes /\ 0 \in 0..MaxQuestions
      /\ MaxRefreshes \in Nat /\ MaxAttempts \in Nat \ {0}
  BY ScreenAssumption DEF ServerOK, DisplayOK, View, pending, Asked
<1> DEFINE Answers == [pc : {"none", "sent", "accepted", "refused", "over"},
                       q : 0..MaxQuestions, tries : 0..MaxAttempts]
<1>1. answer \in Answers /\ NoAnswer \in Answers
      /\ [answer EXCEPT !.pc = "refused"] \in Answers
      /\ \A p \in {"accepted", "over"} : Returns(p) \in Answers
  <2>1. /\ answer \in Answers /\ NoAnswer \in Answers
        /\ [answer EXCEPT !.pc = "refused"] \in Answers
    BY <1>0 DEF HttpOK, NoAnswer
  <2>2. ASSUME NEW p \in {"accepted", "over"} PROVE Returns(p) \in Answers
    BY <1>0, ReturnsTypes
  <2> QED
    BY <2>1, <2>2
<1>2. reads \in [Slots -> Reading] /\ NoRead \in Reading
  BY <1>0 DEF HttpOK, NoRead, Reading, Rows
<1>3. \A ks : Overtaken(ks) \in [Slots -> Reading]
  BY <1>2, OvertakenTypes
<1>4. sent \in 0..MaxRefreshes /\ (sent > 0 => sent - 1 \in 0..MaxRefreshes)
  BY <1>0 DEF HttpOK
<1>5. Refresh => sent' \in 0..MaxRefreshes
  BY RefreshTypes
<1>6. CASE UNCHANGED http
  BY <1>6 DEF http, HttpOK
<1>7. CASE RunStep \/ PublishText \/ RunningFault \/ Fail \/ OtherAnswer \/ Restart
             \/ OpenStream \/ CloseStream \/ Cut \/ GiveUpIdle
  <2>1. UNCHANGED http
    BY <1>7 DEF RunStep, WriteRunning, Invoke, EndGraph, WriteRest, AnnounceRest, WriteFailed,
       PublishText, RunningFault, Fail, OtherAnswer, Restart, OpenStream, CloseStream, Cut,
       GiveUpIdle, http
  <2> QED
    BY <1>6, <2>1
<1>8. CASE Stop
  <2>1. ASSUME NEW k \in Slots
        PROVE  [reads[k] EXCEPT !.behind = TRUE, !.older = {}] \in Reading
    BY <1>2 DEF Reading
  <2>2. reads' \in [Slots -> Reading]
    BY <1>2, <1>8, <2>1 DEF Stop
  <2>3. answer' \in Answers
    BY <1>1, <1>8 DEF Stop
  <2> QED
    BY <1>0, <1>8, <2>2, <2>3 DEF Stop, HttpOK
<1>9. CASE ReadRow
  <2>1. PICK n : reads' = [reads EXCEPT ![n] = [at |-> "row", row |-> row, q |-> 0,
                              behind |-> rpc \in {"begin", "toFailed"}, older |-> Begun]]
    BY <1>9 DEF ReadRow
  <2>2. [at |-> "row", row |-> row, q |-> 0,
         behind |-> rpc \in {"begin", "toFailed"}, older |-> Begun] \in Reading
    BY <1>0 DEF Reading, ServerOK, Begun
  <2>3. reads' \in [Slots -> Reading]
    BY <1>2, <2>1, <2>2
  <2> QED
    BY <1>1, <1>4, <1>9, <2>3 DEF ReadRow, HttpOK
<1>10. CASE ReadThread
  <2>1. PICK k \in Slots :
          reads' = [reads EXCEPT ![k].at = "back", ![k].q = pending,
                      ![k].older = @ \cup {j \in Slots : reads[j].at = "back"}]
    BY <1>10 DEF ReadThread
  <2>2. [reads[k] EXCEPT !.at = "back", !.q = pending,
           !.older = @ \cup {j \in Slots : reads[j].at = "back"}] \in Reading
    BY <1>0, <1>2 DEF Reading
  <2>3. reads' = [reads EXCEPT ![k] = [reads[k] EXCEPT !.at = "back", !.q = pending,
                      !.older = @ \cup {j \in Slots : reads[j].at = "back"}]]
    BY <1>2, <2>1
  <2>4. reads' \in [Slots -> Reading]
    BY <1>2, <2>2, <2>3
  <2> QED
    BY <1>1, <1>10, <2>4 DEF ReadThread, HttpOK
<1>11. CASE ApplyRead
  <2>1. PICK k \in Slots : reads' = [j \in Slots |-> IF j = k THEN NoRead
              ELSE [Overtaken(reads[k].older)[j] EXCEPT !.older = @ \ {k}]]
    BY <1>11 DEF ApplyRead
  <2>2. ASSUME NEW j \in Slots
        PROVE  [Overtaken(reads[k].older)[j] EXCEPT !.older = @ \ {k}] \in Reading
    <3>1. Overtaken(reads[k].older)[j] \in Reading
      BY <1>3
    <3> QED
      BY <3>1 DEF Reading
  <2>3. reads' \in [Slots -> Reading]
    BY <1>2, <2>1, <2>2
  <2> QED
    BY <1>1, <1>11, <2>3 DEF ApplyRead, HttpOK
<1>12. CASE LoseRead
  BY <1>1, <1>3, <1>4, <1>12 DEF LoseRead, HttpOK
<1>13. CASE Connect \/ ReadTransient \/ Resume
  BY <1>1, <1>2, <1>5, <1>13 DEF Connect, ReadTransient, Resume, HttpOK
<1>14. CASE TakeEvent
  <2>1. sent' = sent \/ Refresh
    BY <1>14 DEF TakeEvent
  <2>2. reads' = reads \/ reads' = Overtaken(Begun)
    BY <1>14 DEF TakeEvent
  <2> QED
    BY <1>1, <1>2, <1>3, <1>4, <1>5, <1>14, <2>1, <2>2 DEF TakeEvent, HttpOK
<1>15. CASE SendAnswer
  <2>1. answer' \in Answers
    BY <1>0, <1>15 DEF SendAnswer
  <2> QED
    BY <1>2, <1>4, <1>15, <2>1 DEF SendAnswer, HttpOK
<1>16. CASE DecideAnswer \/ LoseAnswer
  <2>1. answer' \in Answers
    BY <1>1, <1>16 DEF DecideAnswer, LoseAnswer
  <2> QED
    BY <1>2, <1>4, <1>16, <2>1 DEF DecideAnswer, LoseAnswer, HttpOK
<1>17. CASE AnswerTaken \/ AnswerOver
  BY <1>1, <1>2, <1>5, <1>17 DEF AnswerTaken, AnswerOver, HttpOK
<1>18. CASE AnswerRetry
  <2>1. answer.tries + 1 \in 0..MaxAttempts
    BY <1>0, <1>1, <1>18 DEF AnswerRetry
  <2>2. [answer EXCEPT !.pc = "sent", !.tries = @ + 1] \in Answers
    BY <1>1, <2>1
  <2>3. answer' \in Answers
    BY <1>1, <1>18, <2>2 DEF AnswerRetry
  <2> QED
    BY <1>2, <1>4, <1>18, <2>3 DEF AnswerRetry, HttpOK
<1> QED
  BY <1>6, <1>7, <1>8, <1>9, <1>10, <1>11, <1>12, <1>13, <1>14, <1>15, <1>16, <1>17, <1>18
     DEF Next, ScreenStep, UserStep, vars

\* What the screen holds together: a question or an answered one, never both;
\* while an answer is sent none is answered, and the state has been read.
ViewFits ==
  /\ view.answered # 0 => view.q = 0
  /\ view.status = "unknown" => view.q = 0
  /\ IF answer.pc = "none" THEN answer.q = 0
     ELSE answer.q # 0 /\ view.answered = 0 /\ view.status # "unknown"
  /\ view.status \in {"failed", "idle"} => heard = {}

LEMMA ViewFitsKept ==
  ASSUME DisplayOK, HttpOK, BusTypeOK, ViewFits, [Next]_vars PROVE ViewFits'
<1>1. CASE UNCHANGED <<view, answer, heard>>
  BY <1>1 DEF ViewFits
<1>2. CASE RunStep \/ PublishText \/ RunningFault \/ Fail \/ OtherAnswer \/ Restart
  <2>1. UNCHANGED <<view, answer, heard>>
    BY <1>2 DEF RunStep, WriteRunning, Invoke, EndGraph, WriteRest, AnnounceRest, WriteFailed,
       PublishText, RunningFault, Fail, OtherAnswer, Restart, display, http, history
  <2> QED
    BY <1>1, <2>1
<1>3. CASE ReadRow \/ ReadThread \/ LoseRead \/ OpenStream \/ CloseStream \/ Connect \/ Cut
             \/ ReadTransient \/ GiveUpIdle \/ Resume
  <2>1. UNCHANGED <<view, answer, heard>>
    BY <1>3 DEF ReadRow, ReadThread, LoseRead, OpenStream, CloseStream, Connect, Cut,
       ReadTransient, GiveUpIdle, Resume, display, http, history
  <2> QED
    BY <1>1, <2>1
<1>4. CASE Stop \/ DecideAnswer \/ LoseAnswer \/ AnswerRetry
  <2>1. /\ (answer'.pc # "none" /\ answer.pc # "none") \/ answer' = answer
        /\ answer'.q = answer.q
    BY <1>4, ReturnsTypes DEF Stop, DecideAnswer, LoseAnswer, AnswerRetry, HttpOK
  <2>2. view' = view /\ heard' = heard
    BY <1>4 DEF Stop, DecideAnswer, LoseAnswer, AnswerRetry, display, history
  <2> QED
    BY <2>1, <2>2 DEF ViewFits
<1>5. CASE ApplyRead
  <2>1. PICK k \in Slots :
          /\ view' = OnState(view, reads[k])
          /\ heard' = IF reads[k].behind \/ reads[k].row \notin {"waiting", "running"} THEN {}
                      ELSE heard
    BY <1>5 DEF ApplyRead, Show
  <2>2. answer' = answer /\ reads[k] \in Reading
    BY <1>5 DEF ApplyRead, HttpOK
  <2>3. CASE view.answered # 0 /\ reads[k].row \in {"waiting", "running"}
               /\ reads[k].q = view.answered
    <3>1. view' = [status |-> "running", q |-> 0, answered |-> view.answered,
                   behind |-> reads[k].behind]
      BY <2>1, <2>3 DEF OnState, DisplayOK, View
    <3> QED
      BY <2>2, <2>3, <3>1 DEF ViewFits
  <2>4. CASE ~(view.answered # 0 /\ reads[k].row \in {"waiting", "running"}
                 /\ reads[k].q = view.answered)
    <3>1. view' = [status |-> reads[k].row, q |-> reads[k].q, answered |-> 0,
                   behind |-> reads[k].behind]
      BY <2>1, <2>4 DEF OnState
    <3>2. reads[k].row # "unknown"
      BY <2>2 DEF Reading, Rows
    <3> QED
      BY <2>1, <2>2, <3>1, <3>2 DEF ViewFits
  <2> QED
    BY <2>3, <2>4
<1>6. CASE TakeEvent
  <2>1. answer' = answer /\ heard' = heard
    BY <1>6 DEF TakeEvent, history
  <2>2. CASE Head(queues[tab]) = Lagged
    BY <1>6, <1>1, <2>1, <2>2 DEF TakeEvent
  <2>3. CASE Head(queues[tab]) # Lagged
    <3> DEFINE e == Head(queues[tab])
    <3>1. view' = OnEvent(view, e)
      BY <1>6, <2>3 DEF TakeEvent, Show
    <3>2. CASE e[1] = "interaction" /\ view.status # "unknown" /\ e[2] # view.answered
      <4>1. view' = [status |-> "waiting", q |-> e[2], answered |-> 0, behind |-> FALSE]
        BY <3>1, <3>2 DEF OnEvent
      <4> HIDE DEF e
      <4> QED
        BY <2>1, <4>1 DEF ViewFits
    <3>3. CASE ~(e[1] = "interaction" /\ view.status # "unknown" /\ e[2] # view.answered)
      <4>1. view' = view \/ view' = [view EXCEPT !.status = "done", !.behind = FALSE]
        BY <3>1, <3>3 DEF OnEvent
      <4>2. CASE view' = [view EXCEPT !.status = "done", !.behind = FALSE]
                 /\ view.status # "unknown"
        BY <2>1, <4>2 DEF ViewFits, DisplayOK, View
      <4>3. view' = view \/ view.status # "unknown"
        BY <3>1, <3>3 DEF OnEvent
      <4> QED
        BY <1>1, <2>1, <4>1, <4>2, <4>3
    <3> QED
      BY <3>2, <3>3
  <2> QED
    BY <2>2, <2>3
<1>7. CASE SendAnswer
  <2>1. view.q # 0 /\ view' = view /\ heard' = heard
    BY <1>7 DEF SendAnswer, Asked, display
  <2>2. answer' = [pc |-> "sent", q |-> view.q, tries |-> 1]
    BY <1>7 DEF SendAnswer, Asked
  <2> QED
    BY <2>1, <2>2 DEF ViewFits
<1>8. CASE AnswerTaken
  <2>1. answer' = NoAnswer /\ view.status # "unknown"
    BY <1>8 DEF AnswerTaken, ViewFits
  <2>2. view' = [view EXCEPT !.answered = answer.q, !.q = 0, !.status = "running", !.behind = FALSE]
    BY <1>8, <2>1 DEF AnswerTaken, Show, OnAnswered
  <2>3. view'.q = 0 /\ view'.status = "running"
    BY <2>2 DEF DisplayOK, View
  <2> QED
    BY <2>1, <2>3 DEF ViewFits, NoAnswer
<1>9. CASE AnswerOver
  BY <1>9 DEF AnswerOver, NoAnswer, ViewFits, display, history
<1> QED
  BY <1>1, <1>2, <1>3, <1>4, <1>5, <1>6, <1>7, <1>8, <1>9 DEF Next, ScreenStep, UserStep, vars,
     display, http, history

LEMMA HistoryOKKept ==
  ASSUME HttpOK, HistoryOK, ViewFits, [Next]_vars PROVE HistoryOK'
<1>1. /\ Gesture => gestures' \in 0..MaxGestures
      /\ Extra => extras' \in 0..MaxExtras
  BY ScreenAssumption DEF Gesture, Extra, HistoryOK
<1>2. CASE UNCHANGED history
  BY <1>2 DEF history, HistoryOK
<1>3. CASE RunStep \/ Restart \/ ReadRow \/ ReadThread \/ OpenStream \/ CloseStream \/ Connect
             \/ TakeEvent \/ ReadTransient \/ GiveUpIdle \/ DecideAnswer \/ AnswerOver
             \/ AnswerRetry
  <2>1. UNCHANGED history
    BY <1>3 DEF RunStep, WriteRunning, Invoke, EndGraph, WriteRest, AnnounceRest, WriteFailed,
       Restart, ReadRow, ReadThread, OpenStream, CloseStream, Connect, TakeEvent, ReadTransient,
       GiveUpIdle, DecideAnswer, AnswerOver, AnswerRetry, history
  <2> QED
    BY <1>2, <2>1
<1>4. CASE PublishText \/ RunningFault \/ Fail \/ OtherAnswer \/ Cut
  BY <1>1, <1>4 DEF PublishText, RunningFault, Fail, OtherAnswer, Cut, HistoryOK
<1>5. CASE LoseRead \/ LoseAnswer
  BY <1>1, <1>5 DEF LoseRead, LoseAnswer, HistoryOK
<1>6. CASE Stop
  BY <1>1, <1>6 DEF Stop, HistoryOK
<1>7. CASE ApplyRead
  BY <1>7 DEF ApplyRead, HistoryOK
<1>8. CASE SendAnswer \/ Resume
  BY <1>1, <1>8 DEF SendAnswer, Resume, HistoryOK
<1>9. CASE AnswerTaken
  <2>1. answer.q \in Questions
    BY <1>9, ScreenAssumption DEF AnswerTaken, ViewFits, HttpOK, Questions
  <2> QED
    BY <1>9, <2>1 DEF AnswerTaken, HistoryOK
<1> QED
  BY <1>2, <1>3, <1>4, <1>5, <1>6, <1>7, <1>8, <1>9 DEF Next, ScreenStep, UserStep, vars

\* What every step keeps of the types, the bus and the view.
ScreenInv == TypeOK /\ BusInv /\ RestHasQuestion /\ ViewFits

LEMMA InitScreenInv ==
  ASSUME Init PROVE ScreenInv
<1>0. 0 \in 0..MaxQuestions /\ 1 \in 0..MaxRefreshes /\ 0 \in 0..MaxAttempts
  BY ScreenAssumption
<1>1. BusInv
  BY BusInitInv DEF Init
<1>2. ServerOK /\ RestHasQuestion
  BY ScreenAssumption DEF Init, ServerOK, RestHasQuestion, Rows, TaskPc
<1>3. DisplayOK /\ conn \in {"closed", "asking", "open"} /\ ViewFits
  <2>1. Blank \in View
    BY <1>0 DEF Blank, View
  <2> QED
    BY <2>1 DEF Init, DisplayOK, Blank, ViewFits, NoAnswer
<1>4. NoRead \in Reading
  BY ScreenAssumption DEF NoRead, Reading, Rows
<1>5. HttpOK
  <2>1. reads \in [Slots -> Reading] /\ sent \in 0..MaxRefreshes
    BY <1>0, <1>4 DEF Init
  <2>2. answer = NoAnswer
    BY DEF Init
  <2>3. NoAnswer \in [pc : {"none", "sent", "accepted", "refused", "over"},
                      q : 0..MaxQuestions, tries : 0..MaxAttempts]
    BY <1>0 DEF NoAnswer
  <2> QED
    BY <2>1, <2>2, <2>3 DEF HttpOK
<1>6. HistoryOK
  <2>1. told = {} /\ heard = {} /\ unheard = FALSE /\ gestures = 0 /\ extras = 0
    BY DEF Init
  <2>2. 0 \in 0..MaxGestures /\ 0 \in 0..MaxExtras
    BY ScreenAssumption
  <2> QED
    BY <2>1, <2>2 DEF HistoryOK
<1> QED
  BY <1>1, <1>2, <1>3, <1>5, <1>6 DEF ScreenInv, TypeOK, BusInv

LEMMA ScreenInvKept ==
  ASSUME ScreenInv, [Next]_vars PROVE ScreenInv'
<1>0. /\ ServerOK /\ DisplayOK /\ HttpOK /\ HistoryOK /\ BusTypeOK
      /\ BusInv /\ RestHasQuestion /\ ViewFits /\ conn \in {"closed", "asking", "open"}
  BY DEF ScreenInv, TypeOK
<1>1. BusInv' /\ RestHasQuestion'
  BY <1>0, RestHasQuestionKept, StepIsBusStep, BusStepKeepsInv
<1>2. ServerOK' /\ HttpOK' /\ DisplayOK' /\ HistoryOK' /\ ViewFits'
  BY <1>0, ServerOKKept, HttpOKKept, DisplayOKKept, HistoryOKKept, ViewFitsKept
<1>3. conn' \in {"closed", "asking", "open"}
  <2>1. CASE conn' = conn
    BY <1>0, <2>1
  <2>2. CASE Stop \/ OpenStream \/ CloseStream \/ Connect \/ Cut \/ TakeEvent
    BY <1>0, <2>2 DEF Stop, OpenStream, CloseStream, Connect, Cut, TakeEvent
  <2>3. CASE RunStep \/ PublishText \/ RunningFault \/ Fail \/ OtherAnswer \/ Restart \/ UserStep
    BY <2>1, <2>3 DEF RunStep, WriteRunning, Invoke, EndGraph, WriteRest, AnnounceRest,
       WriteFailed, PublishText, RunningFault, Fail, OtherAnswer, Restart, UserStep, SendAnswer,
       DecideAnswer, AnswerTaken, AnswerOver, AnswerRetry, LoseAnswer, Resume, link
  <2>4. CASE ReadRow \/ ReadThread \/ ApplyRead \/ LoseRead \/ ReadTransient \/ GiveUpIdle
    BY <2>1, <2>4 DEF ReadRow, ReadThread, ApplyRead, LoseRead, ReadTransient, GiveUpIdle, link
  <2> QED
    BY <2>1, <2>2, <2>3, <2>4 DEF Next, ScreenStep, vars, link
<1> QED
  BY <1>1, <1>2, <1>3 DEF ScreenInv, TypeOK, BusInv

\* The screen, its readings, its answer and the run keep their types, and the
\* bounds of the readings, the attempts and the gestures hold.
THEOREM ScreenIsTyped == Spec => []TypeOK
<1>1. ScreenInv => TypeOK
  BY DEF ScreenInv
<1> QED
  BY <1>1, InitScreenInv, ScreenInvKept, PTL DEF Spec

-----------------------------------------------------------------------------
(* A question this screen knows answered is not asked again.                *)

\* A reading come back that nothing has overtaken.
Standing(k) == reads[k].at = "back" /\ ~reads[k].behind

\* The questions this screen shows, sends an answer to, or holds as answered.
Held == {view.q, view.answered, answer.q} \ {0}

\* The screen knows no question the graph has not drawn.
OnlyIssued ==
  /\ Held \subseteq 1..issued /\ heard \subseteq 1..issued
  /\ \A k \in Slots : reads[k].at = "back" => reads[k].q \in 0..issued
  /\ Announced \subseteq 1..issued

\* A question told answered is behind the graph, or its answer is on the way to
\* it, or was lost with its task.
HeardIsTaken ==
  \A q \in heard : Past(q) \/ rpc \in {"none", "toFailed"}
                   \/ (rpc \in {"begin", "invoke"} /\ given = q)

\* The announcements still to read are of later questions.
AnnouncedIsLater == \A i \in Announced : \A q \in heard : q < i

\* Once the guard holds another question, the graph has gone past this one.
UnguardedIsPast == \A q \in heard : view.answered # q => Past(q)

\* Of two readings that both still stand, the one that the other does not count
\* as older read a question as long as the graph had not gone past it.
ReadingsAgree ==
  \A j, k \in Slots :
    /\ reads[j].at = "back" /\ Standing(k) /\ j # k /\ k \notin reads[j].older
    /\ reads[j].q # 0 /\ reads[k].q # reads[j].q
    => Past(reads[j].q)

\* A question that a later reading no longer shows does not come back in one
\* later still.
NoReturn ==
  \A i, j, k \in Slots :
    /\ reads[i].at = "back" /\ Standing(j) /\ Standing(k)
    /\ i # j /\ i # k /\ j # k /\ j \notin reads[i].older /\ k \notin reads[j].older
    /\ reads[i].q # 0 /\ reads[j].q # reads[i].q
    => reads[k].q # reads[i].q

\* The same of a question the screen holds and of the readings that stand.
HeldAgrees ==
  \A q \in Held : \A j \in Slots : Standing(j) /\ reads[j].q # q => Past(q)

HeldNoReturn ==
  \A q \in Held : \A j, k \in Slots :
    Standing(j) /\ Standing(k) /\ k \notin reads[j].older /\ reads[j].q # q => reads[k].q # q

\* No reading that stands shows a question told answered, but for the one the
\* guard holds.
UnguardedIsUnread ==
  \A q \in heard : \A k \in Slots : view.answered # q /\ Standing(k) => reads[k].q # q

NotAsked == view.q \notin heard

\* The question the checkpoint does not show has been passed, if it was drawn.
LEMMA PastUnlessPending ==
  ASSUME ServerOK, NEW q \in 1..issued, q # pending PROVE Past(q)
BY ScreenAssumption DEF ServerOK, pending, Past

LEMMA PendingIsNotPast ==
  ASSUME ServerOK, pending # 0 PROVE ~Past(pending) /\ pending = issued
BY ScreenAssumption DEF ServerOK, pending, Past

\* The graph never goes back.
LEMMA PastIsForGood ==
  ASSUME ServerOK, ServerOK', [Next]_vars
  PROVE  issued <= issued' /\ \A q \in Nat : Past(q) => Past(q)'
<1>1. issued \in Nat /\ issued' \in Nat
  BY ScreenAssumption DEF ServerOK
<1>2. \/ issued' = issued + 1
      \/ issued' = issued /\ (thread # "interrupted" => thread' # "interrupted")
  <2>1. CASE RunStep
    BY <2>1 DEF RunStep, WriteRunning, Invoke, EndGraph, WriteRest, AnnounceRest, WriteFailed, Task
  <2>2. CASE ~RunStep
    <3>1. UNCHANGED <<issued, thread>>
      BY <2>2 DEF Next, PublishText, RunningFault, Fail, OtherAnswer, Stop, Restart, ScreenStep,
         ReadRow, ReadThread, ApplyRead, LoseRead, OpenStream, CloseStream, Connect, Cut, TakeEvent,
         ReadTransient, GiveUpIdle, UserStep, SendAnswer, DecideAnswer, AnswerTaken, AnswerOver,
         AnswerRetry, LoseAnswer, Resume, server, vars
    <3> QED
      BY <3>1
  <2> QED
    BY <2>1, <2>2
<1> QED
  BY <1>1, <1>2 DEF Past

\* What one queue announces, before and after a step.
LEMMA InSequence ==
  ASSUME NEW S, NEW q \in Seq(S), NEW x
  PROVE  x \in Range(q) <=> \E n \in 1..Len(q) : q[n] = x
BY DEF Range

LEMMA AnnouncedInQueue ==
  ASSUME BusTypeOK, BusTypeOK'
  PROVE  /\ tab \in Subscribers
         /\ queues[tab] \in Seq(RunEvents \cup {Lagged})
         /\ queues'[tab] \in Seq(RunEvents \cup {Lagged})
         /\ \A i \in Questions :
              /\ i \in Announced <=>
                   \E n \in 1..Len(queues[tab]) : queues[tab][n] = <<"interaction", i>>
              /\ i \in Announced' <=>
                   \E n \in 1..Len(queues'[tab]) : queues'[tab][n] = <<"interaction", i>>
<1>1. tab \in Subscribers /\ Events = RunEvents
  BY ScreenAssumption
<1>2. /\ queues[tab] \in Seq(RunEvents \cup {Lagged})
      /\ queues'[tab] \in Seq(RunEvents \cup {Lagged})
  BY <1>1 DEF BusTypeOK
<1>3. ASSUME NEW i \in Questions
      PROVE  /\ i \in Announced <=> <<"interaction", i>> \in Range(queues[tab])
             /\ i \in Announced' <=> <<"interaction", i>> \in Range(queues'[tab])
  BY DEF Announced
<1> QED
  BY <1>1, <1>2, <1>3, InSequence

LEMMA PublishAnnounces ==
  ASSUME BusTypeOK, BusTypeOK', NEW e \in RunEvents, Publish(e)
  PROVE  Announced' \subseteq Announced \cup {i \in Questions : e = <<"interaction", i>>}
<1> DEFINE q == queues[tab]
           r == queues'[tab]
<1>1. tab \in Subscribers /\ q \in Seq(RunEvents \cup {Lagged})
  BY ScreenAssumption, AnnouncedInQueue
<1>2. r = q \/ r = Append(q, e) \/ (r = drop_lagging(q) /\ Len(q) >= QueueSize)
  BY <1>1 DEF Publish, Full
<1>3. ASSUME NEW n \in 1..Len(r), NEW i \in Questions, r[n] = <<"interaction", i>>
      PROVE  e = <<"interaction", i>> \/ \E m \in 1..Len(q) : q[m] = <<"interaction", i>>
  <2>1. CASE r = q
    BY <1>3, <2>1
  <2>2. CASE r = Append(q, e)
    <3> HIDE DEF q, r
    <3>1. Len(r) = Len(q) + 1 /\ r[Len(q) + 1] = e /\ Len(q) \in Nat
          /\ \A m \in 1..Len(q) : r[m] = q[m]
      BY <1>1, <2>2
    <3>2. n \in 1..Len(q) \/ n = Len(q) + 1
      BY <3>1
    <3> QED
      BY <1>3, <3>1, <3>2
  <2>3. CASE r = drop_lagging(q) /\ Len(q) >= QueueSize
    <3>1. q # <<>> /\ q \in Seq(Events \cup {Lagged}) /\ Len(q) \in Nat
      BY <1>1, <2>3, BusAssumption, ScreenAssumption
    <3>2. /\ Len(r) = Len(q) /\ r[Len(q)] = Lagged
          /\ \A m \in 1..(Len(q) - 1) : r[m] = q[m + 1]
      BY <2>3, <3>1, DropKeepsLength
    <3>3. <<"interaction", i>> # Lagged
      BY BusAssumption, ScreenAssumption DEF RunEvents
    <3> HIDE DEF q, r
    <3>4. n \in 1..(Len(q) - 1)
      <4>1. n # Len(q)
        BY <1>3, <3>2, <3>3
      <4> QED
        BY <3>1, <3>2, <4>1
    <3>5. n + 1 \in 1..Len(q) /\ q[n + 1] = <<"interaction", i>>
      BY <1>3, <3>1, <3>2, <3>4
    <3> QED
      BY <3>5
  <2> QED
    BY <1>2, <2>1, <2>2, <2>3
<1>4. Announced \subseteq Questions /\ Announced' \subseteq Questions
  BY DEF Announced
<1> HIDE DEF q, r
<1> QED
  BY <1>3, <1>4, AnnouncedInQueue DEF q, r

\* Reading the stream, opening it or losing it announces nothing.
LEMMA TakeAnnounces ==
  ASSUME BusTypeOK, BusTypeOK', Take(tab) \/ Leave(tab) \/ Subscribe(tab) \/ LoseBus
  PROVE  Announced' \subseteq Announced
<1> DEFINE q == queues[tab]
           r == queues'[tab]
<1>1. tab \in Subscribers /\ q \in Seq(RunEvents \cup {Lagged})
      /\ queues \in [Subscribers -> Seq(Events \cup {Lagged})]
  BY ScreenAssumption, AnnouncedInQueue DEF BusTypeOK
<1>2. r = <<>> \/ (r = Tail(q) /\ q # <<>>)
  BY <1>1 DEF Take, Leave, Subscribe, LoseBus
<1>3. ASSUME NEW n \in 1..Len(r), NEW i \in Questions, r[n] = <<"interaction", i>>
      PROVE  \E m \in 1..Len(q) : q[m] = <<"interaction", i>>
  <2>1. r = Tail(q) /\ q # <<>>
    BY <1>2
  <2>2. n + 1 \in 1..Len(q) /\ q[n + 1] = r[n]
    BY <1>1, <2>1
  <2> QED
    BY <1>3, <2>2
<1>4. Announced \subseteq Questions /\ Announced' \subseteq Questions
  BY DEF Announced
<1> HIDE DEF q, r
<1> QED
  BY <1>3, <1>4, AnnouncedInQueue DEF q, r

\* Only the run announces a question, the one its checkpoint shows.
LEMMA AnnouncedIsPending ==
  ASSUME ScreenInv, BusTypeOK', [Next]_vars
  PROVE  \A i \in Announced' :
           i \in Announced \/ (i = pending /\ i # 0 /\ rpc = "interaction" /\ AnnounceRest)
<1>0. ServerOK /\ BusTypeOK /\ RestHasQuestion
  BY DEF ScreenInv, TypeOK
<1>1. CASE AnnounceRest
  <2>1. CASE rpc = "interaction"
    <3>1. pending \in Questions /\ Publish(<<"interaction", pending>>)
      BY <1>1, <2>1, <1>0, ScreenAssumption DEF AnnounceRest, Task, RestHasQuestion, pending, Questions
    <3>2. <<"interaction", pending>> \in RunEvents
      BY <3>1 DEF RunEvents
    <3>3. Announced' \subseteq Announced
            \cup {i \in Questions : <<"interaction", pending>> = <<"interaction", i>>}
      BY <1>0, <3>1, <3>2, PublishAnnounces
    <3> QED
      BY <1>1, <2>1, <3>1, <3>3, ScreenAssumption DEF Questions
  <2>2. CASE rpc # "interaction"
    <3>1. Publish(<<"done", 0>>) /\ <<"done", 0>> \in RunEvents
      BY <1>1, <2>2 DEF AnnounceRest, Task, RunEvents
    <3>2. Announced' \subseteq Announced
            \cup {i \in Questions : <<"done", 0>> = <<"interaction", i>>}
      BY <1>0, <3>1, PublishAnnounces
    <3> QED
      BY <3>2
  <2> QED
    BY <2>1, <2>2
<1>2. CASE PublishText \/ Fail
  <2>1. PICK e \in {<<"display", 0>>, <<"section_saved", 0>>, <<"error", 0>>} : Publish(e)
    BY <1>2 DEF PublishText, Fail
  <2>2. e \in RunEvents
    BY DEF RunEvents
  <2>3. Announced' \subseteq Announced \cup {i \in Questions : e = <<"interaction", i>>}
    BY <1>0, <2>1, <2>2, PublishAnnounces
  <2> QED
    BY <2>3
<1>3. CASE CloseStream \/ Connect \/ Cut \/ TakeEvent \/ Stop
  <2>1. Take(tab) \/ Leave(tab) \/ Subscribe(tab) \/ LoseBus
    BY <1>3 DEF CloseStream, Connect, Cut, TakeEvent, Stop
  <2> QED
    BY <1>0, <2>1, TakeAnnounces
<1>4. CASE UNCHANGED queues
  BY <1>4 DEF Announced
<1>5. CASE \/ WriteRunning \/ Invoke \/ EndGraph \/ WriteRest \/ WriteFailed
           \/ RunningFault \/ OtherAnswer \/ Restart \/ UserStep
  <2>1. UNCHANGED queues
    BY <1>5 DEF WriteRunning, Invoke, EndGraph, WriteRest, WriteFailed, RunningFault, OtherAnswer,
       Restart, UserStep, SendAnswer, DecideAnswer, AnswerTaken, AnswerOver, AnswerRetry,
       LoseAnswer, Resume, link, busVars
  <2> QED
    BY <1>4, <2>1
<1>6. CASE ReadRow \/ ReadThread \/ ApplyRead \/ LoseRead \/ OpenStream \/ ReadTransient
             \/ GiveUpIdle
  <2>1. UNCHANGED queues
    BY <1>6 DEF ReadRow, ReadThread, ApplyRead, LoseRead, OpenStream, ReadTransient, GiveUpIdle,
       link, busVars
  <2> QED
    BY <1>4, <2>1
<1> QED
  BY <1>1, <1>2, <1>3, <1>4, <1>5, <1>6 DEF Next, RunStep, ScreenStep, vars, link, busVars

\* A step that brings no reading back: what stood may be overtaken or gone.
Fewer ==
  /\ \A k \in Slots : reads'[k].at = "back" => reads[k].at = "back" /\ reads'[k].q = reads[k].q
  /\ \A k \in Slots : Standing(k)' =>
       /\ Standing(k)
       /\ \A j \in Slots : reads'[j].at = "back" /\ k \in reads[j].older => k \in reads'[j].older

\* A step that shows the screen nothing.
Quiet == view' = view /\ heard' = heard /\ Held' \subseteq Held /\ Fewer

LEMMA SameReadings == ASSUME reads' = reads PROVE Fewer
BY DEF Fewer, Standing

\* Nothing in flight survives what overtakes every reading.
LEMMA AllOvertaken ==
  ASSUME HttpOK, reads' = Overtaken(Begun)
  PROVE  Fewer /\ \A k \in Slots : ~Standing(k)'
<1>1. ASSUME NEW k \in Slots
      PROVE  /\ reads'[k].at = reads[k].at /\ reads'[k].q = reads[k].q
             /\ reads'[k].at = "back" => reads'[k].behind
  <2>1. reads[k] \in Reading /\ reads'[k] = [reads[k] EXCEPT !.behind = @ \/ k \in Begun]
    BY OvertakenTypes DEF HttpOK
  <2>2. /\ reads'[k].at = reads[k].at /\ reads'[k].q = reads[k].q
        /\ reads'[k].behind = (reads[k].behind \/ k \in Begun)
    BY <2>1 DEF Reading
  <2> QED
    BY <2>2 DEF Begun
<1> QED
  BY <1>1 DEF Fewer, Standing

LEMMA QuietServer ==
  ASSUME RunStep \/ PublishText \/ RunningFault \/ Fail \/ OtherAnswer \/ Restart \/ UNCHANGED vars
  PROVE  Quiet
<1>1. UNCHANGED <<view, heard, answer, reads>>
  BY DEF RunStep, WriteRunning, Invoke, EndGraph, WriteRest, AnnounceRest, WriteFailed, PublishText,
     RunningFault, Fail, OtherAnswer, Restart, vars, display, http, history
<1> QED
  BY <1>1, SameReadings DEF Quiet, Held

LEMMA QuietScreen ==
  ASSUME OpenStream \/ CloseStream \/ Connect \/ Cut \/ ReadTransient \/ GiveUpIdle \/ Resume
  PROVE  Quiet
<1>1. UNCHANGED <<view, heard, answer, reads>>
  BY DEF OpenStream, CloseStream, Connect, Cut, ReadTransient, GiveUpIdle, Resume, display, http,
     history
<1> QED
  BY <1>1, SameReadings DEF Quiet, Held

LEMMA QuietStop ==
  ASSUME HttpOK, ServerOK, Stop \/ ReadRow \/ LoseRead PROVE Quiet
<1>1. view' = view /\ heard' = heard /\ answer'.q = answer.q
  BY ReturnsTypes DEF Stop, ReadRow, LoseRead, display, history, HttpOK
<1>2. Held' = Held
  BY <1>1 DEF Held
<1>3. CASE Stop
  <2>1. ASSUME NEW k \in Slots, reads'[k].at = "back"
        PROVE  reads[k].at = "back" /\ reads'[k].q = reads[k].q /\ reads'[k].behind
    <3>1. reads[k] \in Reading
      BY DEF HttpOK
    <3>2. reads'[k] = IF reads[k].at = "back"
                      THEN [reads[k] EXCEPT !.behind = TRUE, !.older = {}] ELSE NoRead
      BY <1>3 DEF Stop
    <3>3. reads[k].at = "back"
      BY <2>1, <3>2 DEF NoRead
    <3> QED
      BY <3>1, <3>2, <3>3 DEF Reading
  <2> QED
    BY <1>1, <1>2, <2>1 DEF Quiet, Fewer, Standing
<1>4. CASE ReadRow
  <2>1. PICK n : reads' = [reads EXCEPT ![n] = [at |-> "row", row |-> row, q |-> 0,
                              behind |-> rpc \in {"begin", "toFailed"}, older |-> Begun]]
    BY <1>4 DEF ReadRow
  <2>2. \A k \in Slots : k # n => reads'[k] = reads[k]
    BY <2>1 DEF HttpOK
  <2>3. n \in Slots => reads'[n].at = "row"
    BY <2>1 DEF HttpOK
  <2>4. \A k \in Slots : reads'[k].at = "back" => k # n /\ reads'[k] = reads[k]
    BY <2>2, <2>3
  <2> QED
    BY <1>1, <1>2, <2>4 DEF Quiet, Fewer, Standing
<1>5. CASE LoseRead
  BY <1>1, <1>2, <1>5, AllOvertaken DEF LoseRead, Quiet
<1> QED
  BY <1>3, <1>4, <1>5

LEMMA QuietAnswer ==
  ASSUME HttpOK, SendAnswer \/ DecideAnswer \/ AnswerOver \/ AnswerRetry \/ LoseAnswer
  PROVE  Quiet
<1>1. view' = view /\ heard' = heard /\ reads' = reads
  BY DEF SendAnswer, DecideAnswer, AnswerOver, AnswerRetry, LoseAnswer, display, history
<1>2. answer'.q \in {0, answer.q, view.q}
  <2>1. CASE SendAnswer
    BY <2>1 DEF SendAnswer, Asked
  <2>2. CASE AnswerOver
    BY <2>2 DEF AnswerOver, NoAnswer
  <2>3. CASE DecideAnswer \/ AnswerRetry \/ LoseAnswer
    BY <2>3, ReturnsTypes DEF DecideAnswer, AnswerRetry, LoseAnswer, HttpOK
  <2> QED
    BY <2>1, <2>2, <2>3
<1> QED
  BY <1>1, <1>2, SameReadings DEF Quiet, Held

\* What the stream gives the screen changes nothing it holds, or overtakes
\* every reading with a question that was announced.
LEMMA EventShows ==
  ASSUME ScreenInv, ScreenInv', TakeEvent
  PROVE  \/ /\ heard' = heard /\ Held' \subseteq Held /\ Fewer
            /\ view'.q = view.q /\ view'.answered = view.answered
         \/ /\ heard' = heard /\ answer' = answer /\ Fewer
            /\ \A k \in Slots : ~Standing(k)'
            /\ view'.q \in Announced /\ view'.q # view.answered /\ view'.answered = 0
<1>0. HttpOK /\ BusTypeOK /\ BusTypeOK' /\ DisplayOK /\ Take(tab)
      /\ heard' = heard /\ answer' = answer
  BY DEF ScreenInv, TypeOK, TakeEvent, history
<1> DEFINE e == Head(queues[tab])
<1>1. CASE e = Lagged
  <2>1. reads' = reads /\ view' = view
    BY <1>1 DEF TakeEvent
  <2> QED
    BY <1>0, <2>1, SameReadings DEF Held
<1>2. CASE e # Lagged
  <2>1. /\ view' = OnEvent(view, e)
        /\ reads' = IF e[1] \in {"interaction", "done"} THEN Overtaken(Begun) ELSE reads
    BY <1>2 DEF TakeEvent, Show
  <2>2. Fewer
    BY <1>0, <2>1, SameReadings, AllOvertaken
  <2>3. e \in RunEvents
    BY <1>0, <1>2, HeadIsEvent
  <2>4. CASE e[1] = "interaction" /\ view.status # "unknown" /\ e[2] # view.answered
    <3>1. \A k \in Slots : ~Standing(k)'
      BY <1>0, <2>1, <2>4, AllOvertaken
    <3>2. view' = [status |-> "waiting", q |-> e[2], answered |-> 0, behind |-> FALSE]
      BY <2>1, <2>4 DEF OnEvent
    <3>3. PICK i \in Questions : e = <<"interaction", i>>
      BY <2>3, <2>4 DEF RunEvents
    <3>4. queues[tab] \in Seq(RunEvents \cup {Lagged}) /\ queues[tab] # <<>>
      BY <1>0, AnnouncedInQueue DEF Take
    <3>5. 1 \in 1..Len(queues[tab]) /\ queues[tab][1] = e
      BY <3>4
    <3>6. i \in Announced
      BY <1>0, <3>3, <3>5, AnnouncedInQueue
    <3> HIDE DEF e
    <3>7. view'.q = i /\ view'.answered = 0 /\ i # view.answered
      BY <2>4, <3>2, <3>3
    <3> QED
      BY <1>0, <2>2, <3>1, <3>6, <3>7
  <2>5. CASE ~(e[1] = "interaction" /\ view.status # "unknown" /\ e[2] # view.answered)
    <3>1. view' = view \/ view' = [view EXCEPT !.status = "done", !.behind = FALSE]
      BY <2>1, <2>5 DEF OnEvent
    <3>2. view'.q = view.q /\ view'.answered = view.answered
      BY <1>0, <3>1 DEF DisplayOK, View
    <3> QED
      BY <1>0, <2>2, <3>2 DEF Held
  <2> QED
    BY <2>4, <2>5
<1> QED
  BY <1>1, <1>2

\* A reading comes back with the pending question: those already back are older.
LEMMA ThreadRead ==
  ASSUME HttpOK, ReadThread
  PROVE  \E k \in Slots :
           /\ reads'[k].at = "back" /\ reads'[k].q = pending
           /\ \A j \in Slots : j # k =>
                reads'[j] = reads[j] /\ (reads[j].at = "back" => j \in reads'[k].older)
           /\ UNCHANGED <<view, heard, answer>>
<1>1. PICK k \in Slots :
        reads' = [reads EXCEPT ![k].at = "back", ![k].q = pending,
                    ![k].older = @ \cup {j \in Slots : reads[j].at = "back"}]
  BY DEF ReadThread
<1>2. reads[k] \in Reading
  BY DEF HttpOK
<1>3. reads'[k] = [reads[k] EXCEPT !.at = "back", !.q = pending,
                     !.older = @ \cup {j \in Slots : reads[j].at = "back"}]
  BY <1>1 DEF HttpOK
<1>4. /\ reads'[k].at = "back" /\ reads'[k].q = pending
      /\ reads'[k].older = reads[k].older \cup {j \in Slots : reads[j].at = "back"}
  BY <1>2, <1>3 DEF Reading
<1>5. \A j \in Slots : j # k => reads'[j] = reads[j]
  BY <1>1 DEF HttpOK
<1>6. UNCHANGED <<view, heard, answer>>
  BY DEF ReadThread, display, history
<1> QED
  BY <1>4, <1>5, <1>6

\* A response is applied: what is older is overtaken, and the guard holds its
\* question or is lifted.
LEMMA ReadShown ==
  ASSUME HttpOK, DisplayOK, ApplyRead
  PROVE  \E k \in Slots :
           /\ reads[k].at = "back" /\ reads'[k].at = "free" /\ reads'[k].q = 0
           /\ \A j \in Slots : j # k =>
                /\ reads'[j].at = reads[j].at /\ reads'[j].q = reads[j].q
                /\ reads'[j].older = reads[j].older \ {k}
                /\ reads'[j].behind = (reads[j].behind \/ j \in reads[k].older)
           /\ answer' = answer
           /\ heard' = {} \/ (heard' = heard /\ Standing(k))
           /\ \/ view'.q = 0 /\ view'.answered = view.answered
              \/ /\ view'.q = reads[k].q /\ view'.answered = 0
                 /\ view.answered = 0 \/ reads[k].q # view.answered \/ heard' = {}
<1>1. PICK k \in Slots :
        /\ reads[k].at = "back" /\ view' = OnState(view, reads[k])
        /\ heard' = IF reads[k].behind \/ reads[k].row \notin {"waiting", "running"} THEN {}
                    ELSE heard
        /\ reads' = [j \in Slots |-> IF j = k THEN NoRead
                       ELSE [Overtaken(reads[k].older)[j] EXCEPT !.older = @ \ {k}]]
  BY DEF ApplyRead, Show
<1>2. reads'[k].at = "free" /\ reads'[k].q = 0
  BY <1>1 DEF NoRead
<1>3. ASSUME NEW j \in Slots, j # k
      PROVE  /\ reads'[j].at = reads[j].at /\ reads'[j].q = reads[j].q
             /\ reads'[j].older = reads[j].older \ {k}
             /\ reads'[j].behind = (reads[j].behind \/ j \in reads[k].older)
  <2>1. reads[j] \in Reading
    BY DEF HttpOK
  <2>2. Overtaken(reads[k].older)[j] = [reads[j] EXCEPT !.behind = @ \/ j \in reads[k].older]
    BY OvertakenTypes DEF HttpOK
  <2>3. reads'[j] = [Overtaken(reads[k].older)[j] EXCEPT !.older = @ \ {k}]
    BY <1>1, <1>3
  <2> QED
    BY <2>1, <2>2, <2>3 DEF Reading
<1>4. answer' = answer /\ (heard' = {} \/ (heard' = heard /\ Standing(k)))
  BY <1>1 DEF ApplyRead, Standing
<1>5. \/ view'.q = 0 /\ view'.answered = view.answered
      \/ /\ view'.q = reads[k].q /\ view'.answered = 0
         /\ view.answered = 0 \/ reads[k].q # view.answered \/ heard' = {}
  <2>1. CASE view.answered # 0 /\ reads[k].row \in {"waiting", "running"}
               /\ reads[k].q = view.answered
    <3>1. view' = [view EXCEPT !.status = "running", !.q = 0, !.behind = reads[k].behind]
      BY <1>1, <2>1 DEF OnState
    <3> QED
      BY <3>1 DEF DisplayOK, View
  <2>2. CASE ~(view.answered # 0 /\ reads[k].row \in {"waiting", "running"}
                 /\ reads[k].q = view.answered)
    <3>1. view' = [status |-> reads[k].row, q |-> reads[k].q, answered |-> 0,
                   behind |-> reads[k].behind]
      BY <1>1, <2>2 DEF OnState
    <3>2. reads[k].row \notin {"waiting", "running"} => heard' = {}
      BY <1>1
    <3> QED
      BY <2>2, <3>1, <3>2
  <2> QED
    BY <2>1, <2>2
<1> QED
  BY <1>1, <1>2, <1>3, <1>4, <1>5

\* The screen learns that its answer was taken.
LEMMA AnswerShown ==
  ASSUME ScreenInv, AnswerTaken
  PROVE  /\ reads' = reads /\ answer'.q = 0 /\ answer.q # 0
         /\ view.answered = 0 /\ view'.q = 0 /\ view'.answered = answer.q
         /\ \/ heard' = heard
            \/ heard' = heard \cup {answer.q} /\ Announced = {} /\ Taken(answer.q)
<1>1. answer.q # 0 /\ view.answered = 0 /\ view.status # "unknown"
  BY DEF AnswerTaken, ScreenInv, ViewFits
<1>2. view' = [view EXCEPT !.answered = answer.q, !.q = 0, !.status = "running", !.behind = FALSE]
  BY <1>1 DEF AnswerTaken, Show, OnAnswered
<1>3. view'.q = 0 /\ view'.answered = answer.q
  BY <1>2 DEF ScreenInv, TypeOK, DisplayOK, View
<1> QED
  BY <1>1, <1>3 DEF AnswerTaken, NoAnswer

\* The ways a step can touch what the guard is about.
LEMMA ScreenMoves ==
  ASSUME ScreenInv, [Next]_vars
  PROVE  Quiet \/ ReadThread \/ ApplyRead \/ TakeEvent \/ AnswerTaken
<1>0. HttpOK /\ ServerOK
  BY DEF ScreenInv, TypeOK
<1> QED
  BY <1>0, QuietServer, QuietScreen, QuietStop, QuietAnswer DEF Next, ScreenStep, UserStep

LEMMA OnlyIssuedKept ==
  ASSUME ScreenInv, ScreenInv', OnlyIssued, [Next]_vars PROVE OnlyIssued'
<1>0. /\ ServerOK /\ ServerOK' /\ HttpOK /\ HttpOK' /\ DisplayOK /\ BusTypeOK /\ BusTypeOK'
      /\ RestHasQuestion
  BY DEF ScreenInv, TypeOK
<1>1. issued \in Nat /\ issued' \in Nat /\ issued <= issued' /\ pending \in 0..issued
  BY <1>0, PastIsForGood, ScreenAssumption DEF ServerOK, pending
<1>2. Announced' \subseteq Announced \cup ({pending} \ {0})
  BY <1>0, AnnouncedIsPending
<1>3. /\ Held' \subseteq 1..issued /\ heard' \subseteq 1..issued
      /\ \A k \in Slots : reads'[k].at = "back" => reads'[k].q \in 0..issued
  <2>1. CASE Quiet
    BY <2>1 DEF Quiet, Fewer, OnlyIssued
  <2>2. CASE ReadThread
    <3>1. PICK k \in Slots :
            /\ reads'[k].q = pending /\ \A j \in Slots : j # k => reads'[j] = reads[j]
            /\ UNCHANGED <<view, heard, answer>>
      BY <1>0, <2>2, ThreadRead
    <3>2. Held' = Held
      BY <3>1 DEF Held
    <3>3. ASSUME NEW j \in Slots, reads'[j].at = "back" PROVE reads'[j].q \in 0..issued
      <4>1. CASE j = k
        BY <1>1, <3>1, <4>1
      <4>2. CASE j # k
        <5>1. reads'[j] = reads[j]
          BY <3>1, <4>2
        <5> QED
          BY <3>3, <5>1 DEF OnlyIssued
      <4> QED
        BY <4>1, <4>2
    <3>4. Held' \subseteq 1..issued
      BY <3>2 DEF OnlyIssued
    <3>5. heard' \subseteq 1..issued
      BY <3>1 DEF OnlyIssued
    <3> QED
      BY <3>3, <3>4, <3>5
  <2>3. CASE ApplyRead
    <3>1. PICK k \in Slots :
            /\ reads[k].at = "back" /\ reads'[k].at = "free"
            /\ \A j \in Slots : j # k => reads'[j].at = reads[j].at /\ reads'[j].q = reads[j].q
            /\ answer' = answer /\ (heard' = {} \/ heard' = heard)
            /\ view'.q \in {0, reads[k].q} /\ view'.answered \in {0, view.answered}
      BY <1>0, <2>3, ReadShown
    <3>2. Held' \subseteq Held \cup ({reads[k].q} \ {0})
      BY <3>1 DEF Held
    <3>3. Held' \subseteq 1..issued
      <4>1. reads[k].q \in 0..issued
        BY <3>1 DEF OnlyIssued
      <4>2. {reads[k].q} \ {0} \subseteq 1..issued
        BY <1>1, <4>1
      <4> QED
        BY <3>2, <4>2 DEF OnlyIssued
    <3>4. heard' \subseteq 1..issued
      BY <3>1 DEF OnlyIssued
    <3>5. ASSUME NEW j \in Slots, reads'[j].at = "back" PROVE reads'[j].q \in 0..issued
      <4>1. j # k
        BY <3>1, <3>5
      <4>2. reads'[j].at = reads[j].at /\ reads'[j].q = reads[j].q
        BY <3>1, <4>1
      <4> QED
        BY <3>5, <4>2 DEF OnlyIssued
    <3> QED
      BY <3>3, <3>4, <3>5
  <2>4. CASE TakeEvent
    <3>1. Fewer /\ heard' = heard
      BY <2>4, EventShows
    <3>2. Held' \subseteq Held \cup Announced
      BY <2>4, EventShows DEF Held
    <3> QED
      BY <3>1, <3>2 DEF Fewer, OnlyIssued
  <2>5. CASE AnswerTaken
    <3>1. /\ reads' = reads /\ answer'.q = 0 /\ view'.q = 0 /\ view'.answered = answer.q
          /\ answer.q # 0 /\ heard' \subseteq heard \cup {answer.q}
      BY <2>5, AnswerShown
    <3>2. Held' \subseteq Held /\ answer.q \in Held
      BY <3>1 DEF Held
    <3> QED
      BY <3>1, <3>2 DEF OnlyIssued
  <2> QED
    BY <2>1, <2>2, <2>3, <2>4, <2>5, ScreenMoves
<1>4. 1..issued \subseteq 1..issued' /\ 0..issued \subseteq 0..issued'
  BY <1>1
<1>5. {pending} \ {0} \subseteq 1..issued
  BY <1>1
<1>6. Announced' \subseteq 1..issued'
  BY <1>2, <1>4, <1>5 DEF OnlyIssued
<1> QED
  BY <1>3, <1>4, <1>6 DEF OnlyIssued

\* What a question told answered owes to the run.
LEMMA HeardIsTakenKept ==
  ASSUME ScreenInv, ScreenInv', OnlyIssued, HeardIsTaken, [Next]_vars PROVE HeardIsTaken'
<1>0. ServerOK /\ ServerOK' /\ HttpOK /\ HistoryOK /\ RestHasQuestion /\ ViewFits
  BY DEF ScreenInv, TypeOK
<1>1. \A q \in Nat : Past(q) => Past(q)'
  BY <1>0, PastIsForGood
<1>2. /\ heard \subseteq 1..issued /\ issued \in Nat
      /\ \A q \in heard : q \in Nat /\ (~Past(q) => q = pending)
  BY <1>0, PastUnlessPending, ScreenAssumption DEF OnlyIssued, ServerOK
<1> SUFFICES ASSUME NEW q \in heard', ~Past(q)'
             PROVE  rpc' \in {"none", "toFailed"} \/ (rpc' \in {"begin", "invoke"} /\ given' = q)
  BY DEF HeardIsTaken
<1>3. CASE AnswerTaken /\ q \notin heard
  <2>1. q = answer.q /\ Taken(answer.q)
    BY <1>3 DEF AnswerTaken
  <2>2. UNCHANGED <<rpc, given, issued, thread>>
    BY <1>3 DEF AnswerTaken, server
  <2> QED
    BY <2>1, <2>2 DEF Taken, Past
<1>4. ~AnswerTaken => heard' \subseteq heard
  <2>1. ApplyRead => heard' \subseteq heard
    BY DEF ApplyRead
  <2>2. ReadThread => heard' = heard
    BY DEF ReadThread, history
  <2>3. TakeEvent => heard' = heard
    BY DEF TakeEvent, history
  <2> QED
    BY <2>1, <2>2, <2>3, ScreenMoves DEF Quiet
<1>5. CASE q \in heard
  <2>0. /\ q = pending /\ q \in Nat /\ ~Past(q)
        /\ rpc \in {"none", "toFailed"} \/ (rpc \in {"begin", "invoke"} /\ given = q)
    BY <1>1, <1>2, <1>5 DEF HeardIsTaken
  <2>1. CASE RunStep
    <3>1. CASE WriteRunning \/ WriteRest \/ AnnounceRest \/ WriteFailed \/ EndGraph
      BY <2>0, <3>1 DEF WriteRunning, WriteRest, AnnounceRest, WriteFailed, EndGraph, Task
    <3>2. CASE Invoke
      <4>1. q # 0 /\ thread = "interrupted" /\ q = issued /\ given = issued
        BY <1>2, <1>5, <2>0, <3>2 DEF Invoke, pending
      <4>2. thread' = "active" /\ issued' = issued
        BY <4>1, <3>2 DEF Invoke
      <4> QED
        BY <4>1, <4>2 DEF Past
    <3> QED
      BY <2>1, <3>1, <3>2 DEF RunStep
  <2>2. CASE PublishText \/ RunningFault \/ Fail \/ OtherAnswer \/ Stop \/ Restart
    BY <2>0, <2>2 DEF PublishText, RunningFault, Fail, OtherAnswer, Stop, Restart, Task, server
  <2>3. CASE DecideAnswer
    BY <2>0, <2>3 DEF DecideAnswer
  <2>4. CASE Resume
    <3>1. view.status \in {"failed", "idle"}
      BY <2>4 DEF Resume
    <3> QED
      BY <1>0, <1>5, <3>1 DEF ViewFits
  <2>5. CASE UNCHANGED server
    BY <2>0, <2>5 DEF server
  <2>6. CASE ScreenStep
    <3>1. UNCHANGED server
      BY <2>6 DEF ScreenStep, ReadRow, ReadThread, ApplyRead, LoseRead, OpenStream, CloseStream,
         Connect, Cut, TakeEvent, ReadTransient, GiveUpIdle
    <3> QED
      BY <2>5, <3>1
  <2>7. CASE SendAnswer \/ AnswerTaken \/ AnswerOver \/ AnswerRetry \/ LoseAnswer
    <3>1. UNCHANGED server
      BY <2>7 DEF SendAnswer, AnswerTaken, AnswerOver, AnswerRetry, LoseAnswer
    <3> QED
      BY <2>5, <3>1
  <2> QED
    BY <2>1, <2>2, <2>3, <2>4, <2>5, <2>6, <2>7 DEF Next, UserStep, vars
<1> QED
  BY <1>3, <1>4, <1>5

\* The announcement that follows an answer is of another question.
LEMMA AnnouncedIsLaterKept ==
  ASSUME ScreenInv, ScreenInv', OnlyIssued, HeardIsTaken, AnnouncedIsLater, [Next]_vars
  PROVE  AnnouncedIsLater'
<1>0. ServerOK /\ BusTypeOK' /\ RestHasQuestion
  BY DEF ScreenInv, TypeOK
<1> SUFFICES ASSUME NEW i \in Announced', NEW q \in heard' PROVE q < i
  BY DEF AnnouncedIsLater
<1>1. CASE AnswerTaken
  <2>1. i \in Announced
    BY <1>1 DEF AnswerTaken, link, busVars, Announced
  <2>2. q \in heard
    BY <1>1, <2>1 DEF AnswerTaken
  <2> QED
    BY <2>1, <2>2 DEF AnnouncedIsLater
<1>2. CASE ~AnswerTaken
  <2>1. q \in heard
    <3>1. ApplyRead => heard' \subseteq heard
      BY DEF ApplyRead
    <3>2. ReadThread => heard' = heard
      BY DEF ReadThread, history
    <3>3. TakeEvent => heard' = heard
      BY DEF TakeEvent, history
    <3> QED
      BY <1>2, <3>1, <3>2, <3>3, ScreenMoves DEF Quiet
  <2>2. CASE i \in Announced
    BY <2>1, <2>2 DEF AnnouncedIsLater
  <2>3. CASE i \notin Announced
    <3>1. i = pending /\ i # 0 /\ rpc = "interaction"
      BY <1>0, <2>3, AnnouncedIsPending
    <3>2. Past(q) /\ q \in 1..issued
      BY <2>1, <3>1 DEF HeardIsTaken, OnlyIssued
    <3> QED
      BY <1>0, <3>1, <3>2, ScreenAssumption DEF Past, pending, ServerOK
  <2> QED
    BY <2>2, <2>3
<1> QED
  BY <1>1, <1>2

\* What the readings in flight say of each other lasts when none comes back.
LEMMA ReadingsKept ==
  ASSUME ScreenInv, ScreenInv', OnlyIssued, ReadingsAgree, NoReturn, [Next]_vars, Fewer
  PROVE  ReadingsAgree' /\ NoReturn'
<1>1. \A q \in Nat : Past(q) => Past(q)'
  BY PastIsForGood DEF ScreenInv, TypeOK
<1>2. \A j \in Slots : reads'[j].at = "back" =>
        reads[j].at = "back" /\ reads'[j].q = reads[j].q /\ reads[j].q \in Nat
  BY ScreenAssumption DEF Fewer, ScreenInv, TypeOK, ServerOK, OnlyIssued
<1>3. \A j, k \in Slots :
        reads'[j].at = "back" /\ Standing(k)' /\ k \notin reads'[j].older =>
          Standing(k) /\ reads'[k].at = "back" /\ k \notin reads[j].older
  BY DEF Fewer, Standing
<1>4. ReadingsAgree'
  <2> SUFFICES ASSUME NEW j \in Slots, NEW k \in Slots,
                      reads'[j].at = "back", Standing(k)', j # k, k \notin reads'[j].older,
                      reads'[j].q # 0, reads'[k].q # reads'[j].q
               PROVE  Past(reads[j].q)'
    BY DEF ReadingsAgree
  <2>1. Past(reads[j].q)
    BY <1>2, <1>3 DEF ReadingsAgree, Standing
  <2>2. reads'[j].q = reads[j].q /\ reads[j].q \in Nat
    BY <1>2
  <2> QED
    BY <1>1, <2>1, <2>2 DEF Past
<1>5. NoReturn'
  <2> SUFFICES ASSUME NEW i \in Slots, NEW j \in Slots, NEW k \in Slots,
                      reads'[i].at = "back", Standing(j)', Standing(k)',
                      i # j, i # k, j # k, j \notin reads'[i].older, k \notin reads'[j].older,
                      reads'[i].q # 0, reads'[j].q # reads'[i].q
               PROVE  reads'[k].q # reads'[i].q
    BY DEF NoReturn
  <2>1. reads'[j].at = "back"
    BY DEF Standing
  <2>2. /\ Standing(j) /\ j \notin reads[i].older /\ Standing(k) /\ k \notin reads[j].older
        /\ reads'[k].at = "back"
    BY <1>3, <2>1
  <2> QED
    BY <1>2, <2>1, <2>2 DEF NoReturn
<1> QED
  BY <1>4, <1>5

\* The same of the questions the screen holds.
LEMMA HeldKept ==
  ASSUME ScreenInv, ScreenInv', OnlyIssued, HeldAgrees, HeldNoReturn, [Next]_vars, Fewer
  PROVE  \A q \in Held :
           /\ \A j \in Slots : Standing(j)' /\ reads'[j].q # q => Past(q)'
           /\ \A j, k \in Slots :
                Standing(j)' /\ Standing(k)' /\ k \notin reads'[j].older /\ reads'[j].q # q
                => reads'[k].q # q
<1>1. \A q \in Held : Past(q) => Past(q)'
  BY PastIsForGood, ScreenAssumption DEF ScreenInv, TypeOK, ServerOK, OnlyIssued
<1>2. \A j \in Slots : Standing(j)' => Standing(j) /\ reads'[j].at = "back" /\ reads'[j].q = reads[j].q
  BY DEF Fewer, Standing
<1>3. \A j, k \in Slots :
        Standing(j)' /\ Standing(k)' /\ k \notin reads'[j].older => k \notin reads[j].older
  BY DEF Fewer, Standing
<1>4. ASSUME NEW q \in Held, NEW j \in Slots, Standing(j)', reads'[j].q # q PROVE Past(q)'
  <2>1. Past(q)
    BY <1>2, <1>4 DEF HeldAgrees
  <2> QED
    BY <1>1, <2>1
<1>5. ASSUME NEW q \in Held, NEW j \in Slots, NEW k \in Slots,
             Standing(j)', Standing(k)', k \notin reads'[j].older, reads'[j].q # q
      PROVE  reads'[k].q # q
  BY <1>2, <1>3, <1>5 DEF HeldNoReturn
<1> QED
  BY <1>4, <1>5

\* The same of the questions told answered, as long as the guard holds as much.
LEMMA HeardKept ==
  ASSUME ScreenInv, ScreenInv', OnlyIssued, UnguardedIsPast, UnguardedIsUnread, [Next]_vars, Fewer
  PROVE  \A q \in heard : view.answered # q =>
           Past(q)' /\ \A k \in Slots : Standing(k)' => reads'[k].q # q
<1>1. \A q \in heard : Past(q) => Past(q)'
  BY PastIsForGood, ScreenAssumption DEF ScreenInv, TypeOK, ServerOK, OnlyIssued
<1>2. \A j \in Slots : Standing(j)' => Standing(j) /\ reads'[j].q = reads[j].q
  BY DEF Fewer, Standing
<1> QED
  BY <1>1, <1>2 DEF UnguardedIsPast, UnguardedIsUnread

-----------------------------------------------------------------------------
(* What each of these steps keeps.                                          *)

\* What the guard is about and what the readings know, with the run left out.
ScreenGuard ==
  /\ UnguardedIsPast /\ ReadingsAgree /\ NoReturn /\ HeldAgrees /\ HeldNoReturn
  /\ UnguardedIsUnread /\ NotAsked

LEMMA QuietKeepsGuard ==
  ASSUME ScreenInv, ScreenInv', OnlyIssued, ScreenGuard, [Next]_vars, Fewer,
         heard' = heard, Held' \subseteq Held, view'.q = view.q, view'.answered = view.answered
  PROVE  ScreenGuard'
<1>1. ReadingsAgree' /\ NoReturn'
  BY ReadingsKept DEF ScreenGuard
<1>2. HeldAgrees' /\ HeldNoReturn'
  BY HeldKept DEF ScreenGuard, HeldAgrees, HeldNoReturn
<1>3. UnguardedIsPast' /\ UnguardedIsUnread'
  BY HeardKept DEF ScreenGuard, UnguardedIsPast, UnguardedIsUnread
<1>4. NotAsked'
  BY DEF ScreenGuard, NotAsked
<1> QED
  BY <1>1, <1>2, <1>3, <1>4 DEF ScreenGuard

\* A reading that comes back shows the question the run waits on, which the
\* graph has not passed: it contradicts nothing.
LEMMA ReadThreadKeepsGuard ==
  ASSUME ScreenInv, ScreenInv', OnlyIssued, ScreenGuard, [Next]_vars, ReadThread
  PROVE  ScreenGuard'
<1>0. /\ HttpOK /\ ServerOK /\ issued \in Nat
      /\ ReadingsAgree /\ NoReturn /\ HeldAgrees /\ HeldNoReturn
      /\ UnguardedIsPast /\ UnguardedIsUnread /\ NotAsked
  BY ScreenAssumption DEF ScreenInv, TypeOK, ServerOK, ScreenGuard
<1>1. PICK k \in Slots :
        /\ reads'[k].at = "back" /\ reads'[k].q = pending
        /\ \A j \in Slots : j # k =>
             reads'[j] = reads[j] /\ (reads[j].at = "back" => j \in reads'[k].older)
        /\ UNCHANGED <<view, heard, answer>>
  BY <1>0, ThreadRead
<1>2. \A q : Past(q)' <=> Past(q)
  BY DEF ReadThread, server, Past
<1>3. \A q \in 1..issued : q # pending => Past(q)
  BY <1>0, PastUnlessPending
<1>4. \A q \in Nat : Past(q) /\ q # 0 => q # pending
  BY <1>0, PendingIsNotPast
<1>5. \A j \in Slots : j # k /\ reads'[j].at = "back" =>
        reads[j].at = "back" /\ reads'[j].q = reads[j].q /\ reads[j].q \in 0..issued
        /\ reads'[j].older = reads[j].older /\ j \in reads'[k].older
        /\ (Standing(j)' => Standing(j))
  BY <1>1 DEF OnlyIssued, Standing
<1>6. Held' = Held /\ Held \subseteq 1..issued /\ heard \subseteq 1..issued
  BY <1>1 DEF Held, OnlyIssued
<1>7. \A j \in Slots : Standing(j)' => reads'[j].at = "back"
  BY DEF Standing
<1>8. ReadingsAgree'
  <2> SUFFICES ASSUME NEW j \in Slots, NEW m \in Slots,
                      reads'[j].at = "back", Standing(m)', j # m, m \notin reads'[j].older,
                      reads'[j].q # 0, reads'[m].q # reads'[j].q
               PROVE  Past(reads[j].q)'
    BY DEF ReadingsAgree
  <2>1. j # k
    BY <1>5, <1>7
  <2>2. reads'[j].q = reads[j].q /\ reads[j].q \in 1..issued
    BY <1>0, <1>5, <2>1
  <2>3. Past(reads[j].q)
    <3>1. CASE m = k
      BY <1>1, <1>3, <2>2, <3>1
    <3>2. CASE m # k
      <4>1. /\ reads[j].at = "back" /\ Standing(m) /\ m \notin reads[j].older
            /\ reads[j].q # 0 /\ reads[m].q # reads[j].q
        BY <1>5, <1>7, <2>1, <2>2, <3>2
      <4> QED
        BY <1>0, <4>1 DEF ReadingsAgree
    <3> QED
      BY <3>1, <3>2
  <2> QED
    BY <1>2, <2>2, <2>3 DEF Past
<1>9. NoReturn'
  <2> SUFFICES ASSUME NEW i \in Slots, NEW j \in Slots, NEW m \in Slots,
                      reads'[i].at = "back", Standing(j)', Standing(m)',
                      i # j, i # m, j # m, j \notin reads'[i].older, m \notin reads'[j].older,
                      reads'[i].q # 0, reads'[j].q # reads'[i].q
               PROVE  reads'[m].q # reads'[i].q
    BY DEF NoReturn
  <2>1. i # k /\ j # k
    BY <1>5, <1>7
  <2>2. /\ reads[i].at = "back" /\ Standing(j) /\ j \notin reads[i].older
        /\ m \notin reads[j].older /\ reads'[i].q = reads[i].q /\ reads'[j].q = reads[j].q
        /\ reads[i].q \in 1..issued
    BY <1>0, <1>5, <1>7, <2>1
  <2>3. CASE m = k
    <3>1. Past(reads[i].q)
      BY <1>0, <2>2 DEF ReadingsAgree
    <3> QED
      BY <1>0, <1>1, <1>4, <2>2, <2>3, <3>1
  <2>4. CASE m # k
    <3>1. Standing(m) /\ reads'[m].q = reads[m].q
      BY <1>5, <1>7, <2>4
    <3> QED
      BY <1>0, <2>2, <3>1 DEF NoReturn
  <2> QED
    BY <2>3, <2>4
<1>10. HeldAgrees'
  <2> SUFFICES ASSUME NEW q \in Held, NEW j \in Slots, Standing(j)', reads'[j].q # q
               PROVE  Past(q)
    BY <1>2, <1>6 DEF HeldAgrees
  <2>1. CASE j = k
    BY <1>1, <1>3, <1>6, <2>1
  <2>2. CASE j # k
    BY <1>0, <1>5, <1>7, <2>2 DEF HeldAgrees
  <2> QED
    BY <2>1, <2>2
<1>11. HeldNoReturn'
  <2> SUFFICES ASSUME NEW q \in Held, NEW j \in Slots, NEW m \in Slots,
                      Standing(j)', Standing(m)', m \notin reads'[j].older, reads'[j].q # q
               PROVE  reads'[m].q # q
    BY <1>6 DEF HeldNoReturn
  <2>1. CASE j = m
    BY <2>1
  <2>2. CASE j # m
    <3>1. j # k
      BY <1>5, <1>7, <2>2
    <3>2. Standing(j) /\ reads[j].q # q /\ m \notin reads[j].older
      BY <1>5, <1>7, <3>1
    <3>3. CASE m = k
      <4>1. Past(q) /\ q \in Nat /\ q # 0
        BY <1>0, <1>6, <3>2 DEF HeldAgrees
      <4> QED
        BY <1>1, <1>4, <3>3, <4>1
    <3>4. CASE m # k
      BY <1>0, <1>5, <1>7, <3>2, <3>4 DEF HeldNoReturn
    <3> QED
      BY <3>3, <3>4
  <2> QED
    BY <2>1, <2>2
<1>12. UnguardedIsUnread'
  <2> SUFFICES ASSUME NEW q \in heard, NEW m \in Slots, view.answered # q, Standing(m)'
               PROVE  reads'[m].q # q
    BY <1>1 DEF UnguardedIsUnread
  <2>1. CASE m = k
    <3>1. Past(q) /\ q \in Nat /\ q # 0
      BY <1>0, <1>6 DEF UnguardedIsPast
    <3> QED
      BY <1>1, <1>4, <2>1, <3>1
  <2>2. CASE m # k
    BY <1>0, <1>5, <1>7, <2>2 DEF UnguardedIsUnread
  <2> QED
    BY <2>1, <2>2
<1>13. UnguardedIsPast' /\ NotAsked'
  BY <1>0, <1>1, <1>2 DEF UnguardedIsPast, NotAsked
<1> QED
  BY <1>8, <1>9, <1>10, <1>11, <1>12, <1>13 DEF ScreenGuard

\* A response is applied: the readings left standing came after it, and agree
\* with it on the question it brings and on the one that was held.
LEMMA ApplyReadKeepsGuard ==
  ASSUME ScreenInv, ScreenInv', OnlyIssued, ScreenGuard, [Next]_vars, ApplyRead
  PROVE  ScreenGuard'
<1>0. /\ HttpOK /\ DisplayOK /\ ServerOK /\ issued \in Nat
      /\ ReadingsAgree /\ NoReturn /\ HeldAgrees /\ HeldNoReturn
      /\ UnguardedIsPast /\ UnguardedIsUnread /\ NotAsked
  BY ScreenAssumption DEF ScreenInv, TypeOK, ServerOK, ScreenGuard
<1>1. PICK k \in Slots :
        /\ reads[k].at = "back" /\ reads'[k].at = "free"
        /\ \A j \in Slots : j # k =>
             /\ reads'[j].at = reads[j].at /\ reads'[j].q = reads[j].q
             /\ reads'[j].older = reads[j].older \ {k}
             /\ reads'[j].behind = (reads[j].behind \/ j \in reads[k].older)
        /\ answer' = answer
        /\ heard' = {} \/ (heard' = heard /\ Standing(k))
        /\ \/ view'.q = 0 /\ view'.answered = view.answered
           \/ /\ view'.q = reads[k].q /\ view'.answered = 0
              /\ view.answered = 0 \/ reads[k].q # view.answered \/ heard' = {}
  BY <1>0, ReadShown
<1>2. \A q : Past(q)' <=> Past(q)
  BY DEF ApplyRead, server, Past
<1>3. \A j \in Slots : Standing(j)' =>
        /\ j # k /\ Standing(j) /\ reads'[j].q = reads[j].q
        /\ j \notin reads[k].older
  BY <1>1 DEF Standing
<1>4. \A j \in Slots : reads'[j].at = "back" =>
        /\ j # k /\ reads[j].at = "back" /\ reads'[j].q = reads[j].q
        /\ reads'[j].older = reads[j].older \ {k}
  BY <1>1
<1>5. Fewer
  BY <1>3, <1>4 DEF Fewer
<1>6. ReadingsAgree' /\ NoReturn'
  BY <1>0, <1>5, ReadingsKept
<1>7. \A q \in Held' : q \in Held \/ (q = reads[k].q /\ q # 0)
  BY <1>1 DEF Held
<1>8. HeldAgrees'
  <2> SUFFICES ASSUME NEW q \in Held', NEW j \in Slots, Standing(j)', reads'[j].q # q
               PROVE  Past(q)
    BY <1>2 DEF HeldAgrees
  <2>1. CASE q \in Held
    BY <1>0, <1>3, <2>1 DEF HeldAgrees
  <2>2. CASE q = reads[k].q /\ q # 0
    BY <1>0, <1>1, <1>3, <2>2 DEF ReadingsAgree
  <2> QED
    BY <1>7, <2>1, <2>2
<1>9. HeldNoReturn'
  <2> SUFFICES ASSUME NEW q \in Held', NEW j \in Slots, NEW m \in Slots,
                      Standing(j)', Standing(m)', m \notin reads'[j].older, reads'[j].q # q
               PROVE  reads'[m].q # q
    BY DEF HeldNoReturn
  <2>1. /\ j # k /\ m # k /\ m \notin reads[j].older /\ Standing(j) /\ Standing(m)
        /\ reads'[j].q = reads[j].q /\ reads'[m].q = reads[m].q
        /\ j \notin reads[k].older
    BY <1>3, <1>4 DEF Standing
  <2>2. CASE q \in Held
    BY <1>0, <2>1, <2>2 DEF HeldNoReturn
  <2>3. CASE q = reads[k].q /\ q # 0 /\ j # m
    BY <1>0, <1>1, <2>1, <2>3 DEF NoReturn
  <2>4. CASE j = m
    BY <2>4
  <2> QED
    BY <1>7, <2>2, <2>3, <2>4
<1>10. CASE heard' = {}
  <2>1. UnguardedIsPast' /\ UnguardedIsUnread' /\ NotAsked'
    BY <1>10 DEF UnguardedIsPast, UnguardedIsUnread, NotAsked
  <2> QED
    BY <1>6, <1>8, <1>9, <2>1 DEF ScreenGuard
<1>11. CASE heard' # {}
  <2>0. heard' = heard /\ Standing(k) /\ 0 \notin heard /\ heard \subseteq Nat
    BY <1>0, <1>1, <1>11 DEF OnlyIssued
  <2>1. CASE view'.q = 0 /\ view'.answered = view.answered
    <3>1. UnguardedIsPast' /\ UnguardedIsUnread' /\ NotAsked'
      BY <1>0, <1>2, <1>3, <2>0, <2>1 DEF UnguardedIsPast, UnguardedIsUnread, NotAsked
    <3> QED
      BY <1>6, <1>8, <1>9, <3>1 DEF ScreenGuard
  <2>2. CASE /\ view'.q = reads[k].q /\ view'.answered = 0
             /\ view.answered = 0 \/ reads[k].q # view.answered
    \* The question the guard held is no longer what was read.
    <3>1. ASSUME NEW q \in heard PROVE reads[k].q # q
      <4>1. CASE q = view.answered
        BY <2>0, <2>2, <4>1
      <4>2. CASE q # view.answered
        BY <1>0, <2>0, <4>2 DEF UnguardedIsUnread
      <4> QED
        BY <4>1, <4>2
    <3>2. ASSUME NEW q \in heard PROVE Past(q)
      <4>1. CASE q = view.answered
        <5>1. q \in Held
          BY <2>0, <4>1 DEF Held
        <5> QED
          BY <1>0, <2>0, <3>1, <5>1 DEF HeldAgrees
      <4>2. CASE q # view.answered
        BY <1>0, <4>2 DEF UnguardedIsPast
      <4> QED
        BY <4>1, <4>2
    <3>3. ASSUME NEW q \in heard, NEW m \in Slots, Standing(m)' PROVE reads'[m].q # q
      <4>0. Standing(m) /\ reads'[m].q = reads[m].q /\ m \notin reads[k].older
        BY <1>3, <3>3
      <4>1. CASE q = view.answered
        <5>1. q \in Held
          BY <2>0, <4>1 DEF Held
        <5> QED
          BY <1>0, <2>0, <3>1, <4>0, <5>1 DEF HeldNoReturn
      <4>2. CASE q # view.answered
        BY <1>0, <4>0, <4>2 DEF UnguardedIsUnread
      <4> QED
        BY <4>1, <4>2
    <3>4. UnguardedIsPast' /\ UnguardedIsUnread' /\ NotAsked'
      BY <1>2, <2>0, <2>2, <3>1, <3>2, <3>3 DEF UnguardedIsPast, UnguardedIsUnread, NotAsked
    <3> QED
      BY <1>6, <1>8, <1>9, <3>4 DEF ScreenGuard
  <2> QED
    BY <1>1, <1>11, <2>1, <2>2
<1> QED
  BY <1>10, <1>11

\* An announced question is of a later interruption than any told answered.
LEMMA TakeEventKeepsGuard ==
  ASSUME ScreenInv, ScreenInv', OnlyIssued, AnnouncedIsLater, ScreenGuard, [Next]_vars, TakeEvent
  PROVE  ScreenGuard'
<1>1. CASE /\ heard' = heard /\ Held' \subseteq Held /\ Fewer
           /\ view'.q = view.q /\ view'.answered = view.answered
  BY <1>1, QuietKeepsGuard
<1>2. CASE /\ heard' = heard /\ answer' = answer /\ Fewer
           /\ \A k \in Slots : ~Standing(k)'
           /\ view'.q \in Announced /\ view'.q # view.answered /\ view'.answered = 0
  <2>1. ReadingsAgree' /\ NoReturn' /\ HeldAgrees' /\ HeldNoReturn' /\ UnguardedIsUnread'
    BY <1>2 DEF ReadingsAgree, NoReturn, HeldAgrees, HeldNoReturn, UnguardedIsUnread
  <2>2. issued' = issued /\ issued \in Nat
    BY ScreenAssumption DEF TakeEvent, server, ScreenInv, TypeOK, ServerOK
  <2>3. /\ view'.q \in 1..issued /\ heard \subseteq 1..issued
        /\ \A q \in heard : q < view'.q
    BY <1>2 DEF AnnouncedIsLater, OnlyIssued
  <2>4. UnguardedIsPast' /\ NotAsked'
    BY <1>2, <2>2, <2>3 DEF UnguardedIsPast, NotAsked, Past
  <2> QED
    BY <2>1, <2>4 DEF ScreenGuard
<1> QED
  BY <1>1, <1>2, EventShows

\* The guard comes to hold the question just answered, which was held already.
LEMMA AnswerTakenKeepsGuard ==
  ASSUME ScreenInv, ScreenInv', OnlyIssued, ScreenGuard, [Next]_vars, AnswerTaken
  PROVE  ScreenGuard'
<1>1. /\ reads' = reads /\ answer'.q = 0 /\ answer.q # 0
      /\ view.answered = 0 /\ view'.q = 0 /\ view'.answered = answer.q
      /\ heard' \subseteq heard \cup {answer.q}
  BY AnswerShown
<1>2. Fewer /\ Held' \subseteq Held /\ answer.q \in Held
  BY <1>1, SameReadings DEF Held
<1>3. 0 \notin heard
  BY DEF OnlyIssued
<1>4. ReadingsAgree' /\ NoReturn'
  BY <1>2, ReadingsKept DEF ScreenGuard
<1>5. HeldAgrees' /\ HeldNoReturn'
  BY <1>2, HeldKept DEF ScreenGuard, HeldAgrees, HeldNoReturn
<1>6. \A q \in heard : Past(q)' /\ \A k \in Slots : Standing(k)' => reads'[k].q # q
  BY <1>1, <1>2, <1>3, HeardKept DEF ScreenGuard
<1>7. UnguardedIsPast' /\ UnguardedIsUnread'
  BY <1>1, <1>6 DEF UnguardedIsPast, UnguardedIsUnread
<1>8. NotAsked'
  BY <1>1, <1>3 DEF NotAsked
<1> QED
  BY <1>4, <1>5, <1>7, <1>8 DEF ScreenGuard

GuardInv == ScreenInv /\ OnlyIssued /\ HeardIsTaken /\ AnnouncedIsLater /\ ScreenGuard

LEMMA InitGuardInv ==
  ASSUME Init PROVE GuardInv
<1>1. view.q = 0 /\ view.answered = 0 /\ answer.q = 0 /\ heard = {}
      /\ \A k \in Slots : reads[k].at = "free"
  BY DEF Init, Blank, NoAnswer, NoRead
<1>2. Held = {}
  BY <1>1 DEF Held
<1>3. Announced = {}
  <2>1. tab \in Subscribers /\ queues[tab] = <<>>
    BY ScreenAssumption DEF Init, BusInit
  <2> QED
    BY <2>1 DEF Announced, Range
<1>4. OnlyIssued /\ HeardIsTaken /\ AnnouncedIsLater
  BY <1>1, <1>2, <1>3 DEF OnlyIssued, HeardIsTaken, AnnouncedIsLater
<1>5. ScreenGuard
  BY <1>1, <1>2 DEF ScreenGuard, UnguardedIsPast, ReadingsAgree, NoReturn, HeldAgrees,
     HeldNoReturn, UnguardedIsUnread, NotAsked, Standing
<1> QED
  BY <1>4, <1>5, InitScreenInv DEF GuardInv

LEMMA GuardInvKept ==
  ASSUME GuardInv, [Next]_vars PROVE GuardInv'
<1>1. /\ ScreenInv /\ OnlyIssued /\ HeardIsTaken /\ AnnouncedIsLater /\ ScreenGuard
      /\ ScreenInv'
  BY ScreenInvKept DEF GuardInv
<1>2. OnlyIssued' /\ HeardIsTaken' /\ AnnouncedIsLater'
  BY <1>1, OnlyIssuedKept, HeardIsTakenKept, AnnouncedIsLaterKept
<1>3. CASE Quiet
  BY <1>1, <1>3, QuietKeepsGuard, <1>2 DEF Quiet, GuardInv
<1>4. CASE ReadThread
  BY <1>1, <1>4, ReadThreadKeepsGuard, <1>2 DEF GuardInv
<1>5. CASE ApplyRead
  BY <1>1, <1>5, ApplyReadKeepsGuard, <1>2 DEF GuardInv
<1>6. CASE TakeEvent
  BY <1>1, <1>6, TakeEventKeepsGuard, <1>2 DEF GuardInv
<1>7. CASE AnswerTaken
  BY <1>1, <1>7, AnswerTakenKeepsGuard, <1>2 DEF GuardInv
<1> QED
  BY <1>1, <1>3, <1>4, <1>5, <1>6, <1>7, ScreenMoves

\* However many questions, readings in flight, gestures, cuts and stops there
\* are: a question whose answer this screen knows taken does not come back on
\* it while the guard of the reducer holds it.
THEOREM NotAskedTwice == Spec => []AskedOnce
<1>1. GuardInv => AskedOnce
  BY DEF GuardInv, ScreenGuard, NotAsked, OnlyIssued, AskedOnce, Asked
<1> QED
  BY <1>1, InitGuardInv, GuardInvKept, PTL DEF Spec
=============================================================================
