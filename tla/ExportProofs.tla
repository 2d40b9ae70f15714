---------------------------- MODULE ExportProofs -----------------------------
(***************************************************************************)
(* What Export promises for any exports, files, failures and stops.        *)
(*                                                                         *)
(* Types first, then the registry, then the order of an export: a file is  *)
(* deposited before it is named and no longer named when it is removed.    *)
(***************************************************************************)
EXTENDS Export, TLAPS

\* Any step of an export, of its failures, of the screen or of the process
\* keeps the types.
LEMMA NextType ==
  ASSUME TypeOK, [Next]_vars
  PROVE  TypeOK'
<1> USE ExportBounds DEF TypeOK, service, storage, work, listing, exportVars, Advance, Prefixes
<1>1. ASSUME NEW e \in Exports, Launch(e) PROVE TypeOK'
  BY <1>1 DEF Launch, LivePcs
<1>2. ASSUME NEW e \in Exports, TaskStep(e) PROVE TypeOK'
  <2>1. CASE ReadSections(e)
    BY <2>1 DEF ReadSections, LivePcs
  <2>2. CASE ReadPrevious(e)
    BY <2>2 DEF ReadPrevious, LivePcs
  <2>3. CASE Render(e)
    BY <2>3 DEF Render, LivePcs
  <2>4. CASE Upload(e)
    BY <2>4 DEF Upload
  <2>5. CASE Record(e)
    BY <2>5 DEF Record, LivePcs
  <2>6. CASE DeleteOld(e)
    BY <2>6 DEF DeleteOld
  <2>7. CASE End(e)
    BY <2>7 DEF End
  <2>8. CASE Forget(e)
    BY <2>8 DEF Forget
  <2> QED
    BY <1>2, <2>1, <2>2, <2>3, <2>4, <2>5, <2>6, <2>7, <2>8 DEF TaskStep
<1>3. ASSUME NEW e \in Exports, TaskFault(e) PROVE TypeOK'
  <2>1. CASE Fail(e)
    BY <2>1 DEF Fail
  <2>2. CASE RecordUnacknowledged(e)
    BY <2>2 DEF RecordUnacknowledged
  <2>3. CASE DeleteOldFault(e)
    BY <2>3 DEF DeleteOldFault
  <2> QED
    BY <1>3, <2>1, <2>2, <2>3 DEF TaskFault
<1>4. CASE ScreenStep
  <2>1. CASE OpenScreen \/ Poll
    BY <2>1 DEF OpenScreen, Poll, AskList
  <2>2. CASE ReadRows \/ AnswerListing
    BY <2>2 DEF ReadRows, AnswerListing
  <2>3. CASE FailListing
    BY <2>3 DEF FailListing
  <2> QED
    BY <1>4, <2>1, <2>2, <2>3 DEF ScreenStep
<1>5. CASE Stop
  <2>1. epc' \in [Exports -> LivePcs \cup {"new", "refused", "ended", "forgotten", "killed"}]
    BY <1>5 DEF Stop, LoseExports
  <2>2. lpc' \in {"idle", "timer", "reading", "signing"} /\ error' \in BOOLEAN
    BY <1>5 DEF Stop, LoseExports
  <2>3. UNCHANGED <<rows, stored, old, left, listed, screen, faults>>
    BY <1>5 DEF Stop, LoseExports
  <2>4. up' = FALSE /\ registered' = NoExport /\ outcome' = "none" /\ crashes' \in 0..MaxCrashes
    BY <1>5 DEF Stop, LoseExports
  <2> QED
    BY <2>1, <2>2, <2>3, <2>4
<1>6. CASE Restart \/ UNCHANGED vars
  BY <1>6 DEF Restart, vars
<1> QED
  BY <1>1, <1>2, <1>3, <1>4, <1>5, <1>6 DEF Next

\* Type correctness of every reachable state.
LEMMA TypeStart == Init => TypeOK
<1> SUFFICES ASSUME Init PROVE TypeOK
  OBVIOUS
<1> USE DEF Init
<1>1. up \in BOOLEAN /\ error \in BOOLEAN
  OBVIOUS
<1>2. /\ rows \in [Files -> Prefixes \cup {NoRow}] /\ listed \in [Files -> Prefixes \cup {NoRow}]
      /\ stored \in SUBSET (Prefixes \X Files)
  BY DEF Prefixes
<1>3. faults \in 0..MaxFaults /\ crashes \in 0..MaxCrashes
  BY ExportBounds
<1> QED
  BY <1>1, <1>2, <1>3 DEF TypeOK

THEOREM ExportTypeCorrect == Spec => []TypeOK
BY TypeStart, NextType, PTL DEF Spec

\* The registry is written when an export becomes live, and its entry is
\* removed only by the callback of an export that is over.
LEMMA NextRegistered ==
  ASSUME TypeOK, RegisteredIsLive, [Next]_vars
  PROVE  RegisteredIsLive'
<1> USE DEF TypeOK, RegisteredIsLive, Live, LivePcs, service, listing, exportVars, Advance
<1>1. ASSUME NEW e \in Exports, Launch(e) PROVE RegisteredIsLive'
  BY <1>1, ExportNames DEF Launch, is_exporting
<1>2. ASSUME NEW e \in Exports, TaskStep(e) PROVE RegisteredIsLive'
  <2>1. CASE Forget(e)
    BY <2>1 DEF Forget
  <2>2. CASE ~Forget(e)
    BY <1>2, <2>2 DEF TaskStep, ReadSections, ReadPrevious, Render, Upload, Record, DeleteOld, End
  <2> QED
    BY <2>1, <2>2
<1>3. ASSUME NEW e \in Exports, TaskFault(e) PROVE RegisteredIsLive'
  BY <1>3 DEF TaskFault, Fail, RecordUnacknowledged, DeleteOldFault
<1>4. CASE ScreenStep
  BY <1>4 DEF ScreenStep, OpenScreen, Poll, AskList, ReadRows, AnswerListing, FailListing
<1>5. CASE Stop \/ Restart
  BY <1>5 DEF Stop, LoseExports, Restart
<1>6. CASE UNCHANGED vars
  BY <1>6 DEF vars
<1> QED
  BY <1>1, <1>2, <1>3, <1>4, <1>5, <1>6 DEF Next

\* Only one export is live.
LEMMA LiveIsUnique ==
  ASSUME RegisteredIsLive, NEW d \in Exports, NEW e \in Exports, Live(d), Live(e)
  PROVE  d = e
BY DEF RegisteredIsLive

\* What is under a prefix is under no other.
LEMMA UnderOther ==
  ASSUME NEW p, NEW q, NEW f, p # q
  PROVE  <<q, f>> \notin Under(p)
BY DEF Under

\* What the step leaves of the bucket and of the rows.
Agreement == TypeOK /\ RegisteredIsLive /\ DepositedFirst /\ RecordedFilesExist /\ OneExport

\* A step that neither removes a file nor changes a row keeps what is said of
\* the rows and of what was read of them.
LEMMA RowsKept ==
  ASSUME TypeOK, RecordedFilesExist, OneExport, UNCHANGED rows, stored \subseteq stored',
         listed' \in {listed, rows}
  PROVE  RecordedFilesExist' /\ OneExport'
BY DEF TypeOK, RecordedFilesExist, OneExport

\* A task before its record, and its failures.
LEMMA BeforeRecord ==
  ASSUME Agreement, NEW e \in Exports,
         ReadSections(e) \/ ReadPrevious(e) \/ Render(e) \/ Upload(e) \/ Fail(e)
  PROVE  DepositedFirst' /\ RecordedFilesExist' /\ OneExport'
<1> USE DEF Agreement, TypeOK, service, storage, work, listing, Advance
<1>1. UNCHANGED <<rows, listed>> /\ stored \subseteq stored'
  BY DEF ReadSections, ReadPrevious, Render, Upload, Fail
<1>2. DepositedFirst'
  <2>1. CASE ReadSections(e)
    BY <2>1 DEF ReadSections, DepositedFirst
  <2>2. CASE ReadPrevious(e)
    BY <2>2 DEF ReadPrevious, DepositedFirst
  <2>3. CASE Render(e)
    BY <2>3 DEF Render, DepositedFirst
  <2>4. CASE Upload(e)
    BY <2>4 DEF Upload, DepositedFirst
  <2>5. CASE Fail(e)
    BY <1>1, <2>5 DEF Fail, DepositedFirst
  <2> QED
    BY <2>1, <2>2, <2>3, <2>4, <2>5
<1> QED
  BY <1>1, <1>2, RowsKept

\* The record names files that are all there; no other export is live.
LEMMA AtRecord ==
  ASSUME Agreement, NEW e \in Exports, Record(e) \/ RecordUnacknowledged(e)
  PROVE  DepositedFirst' /\ RecordedFilesExist' /\ OneExport'
<1> USE DEF Agreement, TypeOK, service, storage, work, listing, Advance
<1>1. /\ epc[e] = "upload" /\ left[e] = {}
      /\ rows' = [f \in Files |-> e]
      /\ UNCHANGED <<stored, old, left, listed>>
      /\ \E pc \in {"cleanup", "ended"} : epc' = [epc EXCEPT ![e] = pc]
  BY DEF Record, RecordUnacknowledged
<1>2. \A f \in Files : <<e, f>> \in stored
  BY <1>1 DEF DepositedFirst
<1>3. \A d \in Exports \ {e} : ~Live(d)
  BY <1>1, LiveIsUnique DEF Live, LivePcs
<1>4. e \notin old[e]
  BY <1>1 DEF DepositedFirst
<1>5. RecordedFilesExist' /\ OneExport'
  BY <1>1, <1>2 DEF RecordedFilesExist, OneExport
<1>6. DepositedFirst'
  BY <1>1, <1>3, <1>4 DEF DepositedFirst, Live, LivePcs
<1> QED
  BY <1>5, <1>6

\* What is removed is not named: every row names the export that removes.
LEMMA AfterRecord ==
  ASSUME Agreement, NEW e \in Exports,
         DeleteOld(e) \/ DeleteOldFault(e) \/ End(e) \/ Forget(e)
  PROVE  DepositedFirst' /\ RecordedFilesExist' /\ OneExport'
<1> USE DEF Agreement, TypeOK, service, storage, work, listing, Advance
<1>1. CASE End(e) \/ Forget(e)
  <2>1. UNCHANGED <<rows, stored, old, left, listed>>
    BY <1>1 DEF End, Forget
  <2>2. DepositedFirst'
    BY <1>1, <2>1 DEF End, Forget, DepositedFirst
  <2> QED
    BY <2>1, <2>2, RowsKept
<1>2. CASE DeleteOld(e) \/ DeleteOldFault(e)
  <2>1. PICK p \in old[e] : /\ stored \ Under(p) \subseteq stored'
                            /\ old' = [old EXCEPT ![e] = @ \ {p}]
                            /\ epc[e] = "cleanup"
                            /\ UNCHANGED <<rows, left, epc, listed>>
    BY <1>2 DEF DeleteOld, DeleteOldFault
  <2>2. p # e /\ \A f \in Files : rows[f] = e
    BY <2>1 DEF DepositedFirst
  <2>3. \A f \in Files : <<e, f>> \in stored => <<e, f>> \in stored'
    BY <2>1, <2>2, UnderOther
  <2>4. RecordedFilesExist' /\ OneExport'
    BY <2>1, <2>2, <2>3 DEF RecordedFilesExist, OneExport
  <2>5. \A d \in Exports \ {e} : ~Live(d)
    BY <2>1, LiveIsUnique DEF Live, LivePcs
  <2>6. DepositedFirst'
    BY <2>1, <2>2, <2>5 DEF DepositedFirst, Live, LivePcs
  <2> QED
    BY <2>4, <2>6
<1> QED
  BY <1>1, <1>2

\* The other steps leave the bucket and the rows alone.
LEMMA Elsewhere ==
  ASSUME Agreement,
         (\E e \in Exports : Launch(e)) \/ ScreenStep \/ Stop \/ Restart \/ UNCHANGED vars
  PROVE  DepositedFirst' /\ RecordedFilesExist' /\ OneExport'
<1> USE DEF Agreement, TypeOK, service, storage, work, listing, exportVars, Advance
<1>1. UNCHANGED <<rows, stored, old, left>> /\ listed' \in {listed, rows}
  BY DEF Launch, ScreenStep, OpenScreen, Poll, AskList, ReadRows, AnswerListing, FailListing, Stop,
         LoseExports, Restart, vars
<1>2. DepositedFirst'
  <2>1. ASSUME NEW e \in Exports, Launch(e) PROVE DepositedFirst'
    BY <1>1, <2>1 DEF Launch, DepositedFirst
  <2>2. CASE Stop
    BY <1>1, <2>2 DEF Stop, LoseExports, DepositedFirst, Live, LivePcs
  <2>3. CASE ScreenStep \/ Restart \/ UNCHANGED vars
    <3>1. UNCHANGED epc
      BY <2>3 DEF ScreenStep, OpenScreen, Poll, AskList, ReadRows, AnswerListing, FailListing, Restart, vars
    <3> QED
      BY <1>1, <3>1 DEF DepositedFirst
  <2> QED
    BY <2>1, <2>2, <2>3
<1> QED
  BY <1>1, <1>2, RowsKept

\* As long as nothing failed, what an export replaces is on its list before the
\* rows stop naming it, and it ends with its list empty.
LEMMA NextAccounted ==
  ASSUME Agreement, EveryFileAccounted, [Next]_vars
  PROVE  EveryFileAccounted'
<1> USE DEF Agreement, TypeOK, EveryFileAccounted, service, storage, work, listing, exportVars, Advance
<1>1. ASSUME NEW e \in Exports, Launch(e) PROVE EveryFileAccounted'
  BY <1>1 DEF Launch
<1>2. ASSUME NEW e \in Exports, TaskStep(e) PROVE EveryFileAccounted'
  <2>1. CASE ReadSections(e)
    BY <2>1 DEF ReadSections
  <2>2. CASE ReadPrevious(e)
    BY <2>2 DEF ReadPrevious
  <2>3. CASE Render(e)
    BY <2>3 DEF Render
  <2>4. CASE Upload(e)
    BY <2>4 DEF Upload
  <2>5. CASE Record(e)
    <3>1. \A d \in Exports \ {e} : ~Live(d)
      BY <2>5, LiveIsUnique DEF Record, Live, LivePcs
    <3>2. \A d \in Exports \ {e} : epc[d] # "upload" /\ epc[d] # "cleanup"
      BY <3>1 DEF Live, LivePcs
    <3>3. epc' = [epc EXCEPT ![e] = "cleanup"] /\ rows' = [f \in Files |-> e]
      BY <2>5 DEF Record
    <3>4. \A p \in Exports, f \in Files : rows[f] = p => p \in old[e]
      BY <2>5 DEF Record, DepositedFirst
    <3>5. UNCHANGED <<stored, old, faults, crashes>> /\ epc[e] = "upload"
      BY <2>5 DEF Record
    <3> QED
      BY <3>2, <3>3, <3>4, <3>5
  <2>6. CASE DeleteOld(e)
    <3>1. PICK q \in old[e] : /\ stored' = stored \ Under(q)
                              /\ old' = [old EXCEPT ![e] = @ \ {q}]
      BY <2>6 DEF DeleteOld
    <3>2. UNCHANGED <<rows, epc, faults, crashes>>
      BY <2>6 DEF DeleteOld
    <3>3. \A f \in Files : <<q, f>> \notin stored'
      BY <3>1 DEF Under
    <3> QED
      BY <3>1, <3>2, <3>3
  <2>7. CASE End(e)
    BY <2>7 DEF End
  <2>8. CASE Forget(e)
    BY <2>8 DEF Forget
  <2> QED
    BY <1>2, <2>1, <2>2, <2>3, <2>4, <2>5, <2>6, <2>7, <2>8 DEF TaskStep
<1>3. ASSUME NEW e \in Exports, TaskFault(e) PROVE EveryFileAccounted'
  BY <1>3, ExportBounds DEF TaskFault, Fail, RecordUnacknowledged, DeleteOldFault
<1>4. CASE ScreenStep
  BY <1>4 DEF ScreenStep, OpenScreen, Poll, AskList, ReadRows, AnswerListing, FailListing
<1>5. CASE Stop
  BY <1>5, ExportBounds DEF Stop
<1>6. CASE Restart \/ UNCHANGED vars
  BY <1>6 DEF Restart, vars
<1> QED
  BY <1>1, <1>2, <1>3, <1>4, <1>5, <1>6 DEF Next

\* The conjunction is inductive.
LEMMA ExportInduction == ExportInv /\ [Next]_vars => ExportInv'
<1> SUFFICES ASSUME ExportInv, [Next]_vars PROVE ExportInv'
  OBVIOUS
<1> USE DEF ExportInv
<1>1. TypeOK' /\ RegisteredIsLive'
  BY NextType, NextRegistered
<1>2. DepositedFirst' /\ RecordedFilesExist' /\ OneExport'
  <2>1. Agreement
    BY DEF Agreement
  <2> QED
    BY <2>1, BeforeRecord, AtRecord, AfterRecord, Elsewhere DEF Next, TaskStep, TaskFault
<1>3. EveryFileAccounted'
  BY NextAccounted DEF Agreement
<1> QED
  BY <1>1, <1>2, <1>3

LEMMA ExportStart == Init => ExportInv
<1> SUFFICES ASSUME Init PROVE ExportInv
  OBVIOUS
<1>1. RecordedFilesExist /\ OneExport /\ EveryFileAccounted
  BY ExportNames DEF Init, RecordedFilesExist, OneExport, EveryFileAccounted
<1>2. RegisteredIsLive /\ DepositedFirst
  BY ExportNames DEF Init, RegisteredIsLive, Live, LivePcs, DepositedFirst
<1> QED
  BY <1>1, <1>2, TypeStart DEF ExportInv

\* The registry, the steps of the export, the rows and the bucket agree in
\* every reachable state.
THEOREM ExportInvariant == Spec => []ExportInv
BY ExportStart, ExportInduction, PTL DEF Spec

\* One export at a time, through the gap between the end of a task and its
\* callback.
THEOREM OneExporter == Spec => []SingleExporter
<1>1. ExportInv => SingleExporter
  BY LiveIsUnique DEF ExportInv, SingleExporter
<1> QED
  BY <1>1, ExportInvariant, PTL

\* Without failure nor stop, nothing is left in the bucket but what rows name.
THEOREM NothingLeaks == Spec => []StorageTidy
<1>1. ExportInv => StorageTidy
  BY ExportNames DEF ExportInv, StorageTidy, EveryFileAccounted, RegisteredIsLive, is_exporting, Live, LivePcs,
         TypeOK
<1> QED
  BY <1>1, ExportInvariant, PTL

\* No link leads to a file that was never deposited or that was removed.
THEOREM NoDeadRow == Spec => []RecordedFilesExist
<1>1. ExportInv => RecordedFilesExist
  BY DEF ExportInv
<1> QED
  BY <1>1, ExportInvariant, PTL

\* The rows are those of a single export.
THEOREM WholeExport == Spec => []OneExport
<1>1. ExportInv => OneExport
  BY DEF ExportInv
<1> QED
  BY <1>1, ExportInvariant, PTL
\* Rows name what is recorded, so what a listing reads of them was recorded.
LEMMA NextListed ==
  ASSUME Agreement, ListedWasRecorded, [Next]_vars
  PROVE  ListedWasRecorded'
<1> USE DEF Agreement, TypeOK, ListedWasRecorded, service, storage, work, listing, exportVars, Advance
<1>1. ASSUME NEW e \in Exports, Launch(e) PROVE ListedWasRecorded'
  BY <1>1 DEF Launch
<1>2. ASSUME NEW e \in Exports, TaskStep(e) PROVE ListedWasRecorded'
  BY <1>2 DEF TaskStep, ReadSections, ReadPrevious, Render, Upload, Record, DeleteOld, End, Forget
<1>3. ASSUME NEW e \in Exports, TaskFault(e) PROVE ListedWasRecorded'
  BY <1>3 DEF TaskFault, Fail, RecordUnacknowledged, DeleteOldFault
<1>4. CASE ScreenStep
  <2>1. CASE ReadRows
    BY <2>1 DEF ReadRows, DepositedFirst
  <2> QED
    BY <1>4, <2>1 DEF ScreenStep, OpenScreen, Poll, AskList, AnswerListing, FailListing
<1>5. CASE Stop
  BY <1>5 DEF Stop, LoseExports, Live, LivePcs
<1>6. CASE Restart \/ UNCHANGED vars
  BY <1>6 DEF Restart, vars
<1> QED
  BY <1>1, <1>2, <1>3, <1>4, <1>5, <1>6 DEF Next

\* A link that cannot be signed any more never comes back, whatever is
\* deposited or removed.
LEMMA StaleForGood ==
  ASSUME Agreement, ListedWasRecorded, NEW e \in Exports, TaskStep(e) \/ TaskFault(e),
         NEW f \in Files, ~Signable(f)
  PROVE  ~Signable(f)'
<1> USE DEF Agreement, TypeOK, ListedWasRecorded, service, storage, work, listing, Advance
<1>1. UNCHANGED listed /\ listed[f] # NoRow /\ <<listed[f], f>> \notin stored
  BY DEF Signable, TaskStep, ReadSections, ReadPrevious, Render, Upload, Record, DeleteOld, End,
         Forget, TaskFault, Fail, RecordUnacknowledged, DeleteOldFault
<1>2. \A x \in stored' \ stored : x[1] = e /\ listed[f] # e
  BY DEF TaskStep, ReadSections, ReadPrevious, Render, Upload, Record, DeleteOld, End,
         Forget, TaskFault, Fail, RecordUnacknowledged, DeleteOldFault
<1> QED
  BY <1>1, <1>2 DEF Signable

LEMMA NextDown ==
  ASSUME TypeOK, DownWasStopped, [Next]_vars
  PROVE  DownWasStopped'
<1>1. CASE Stop
  BY <1>1, ExportBounds DEF Stop, TypeOK, DownWasStopped
<1>2. CASE ~Stop
  <2>1. (up' = up /\ crashes' = crashes) \/ up'
    BY <1>2 DEF Next, Launch, TaskStep, ReadSections, ReadPrevious, Render, Upload, Record,
       DeleteOld, End, Forget, TaskFault, Fail, RecordUnacknowledged, DeleteOldFault, ScreenStep,
       OpenScreen, Poll, ReadRows, AnswerListing, FailListing, Restart, vars
  <2> QED
    BY <2>1 DEF DownWasStopped
<1> QED
  BY <1>1, <1>2

\* Every end of the reading that is not a listing leaves its banner; as long
\* as nothing failed or stopped, its cause lasts while the screen is stopped.
LEMMA NextPolling ==
  ASSUME Agreement, ListedWasRecorded, DownWasStopped, PollingStopsOnlyOnError, [Next]_vars
  PROVE  PollingStopsOnlyOnError'
<1> USE DEF Agreement, TypeOK, PollingStopsOnlyOnError, Signable, service, storage, work, listing,
            exportVars, Advance
<1>1. ASSUME NEW e \in Exports, Launch(e) PROVE PollingStopsOnlyOnError'
  BY <1>1 DEF Launch
<1>2. ASSUME NEW e \in Exports, TaskStep(e) \/ TaskFault(e) PROVE PollingStopsOnlyOnError'
  <2>1. UNCHANGED <<screen, lpc, error, crashes>> /\ (faults' = 0 => faults = 0)
    BY <1>2, ExportBounds DEF TaskStep, ReadSections, ReadPrevious, Render, Upload, Record,
       DeleteOld, End, Forget, TaskFault, Fail, RecordUnacknowledged, DeleteOldFault
  <2> QED
    BY <1>2, <2>1, StaleForGood
<1>3. CASE ScreenStep
  <2>1. CASE OpenScreen
    <3>1. CASE screen' = "unknown"
      BY <3>1
    <3>2. CASE screen = "over" /\ screen' = screen
      BY <3>2
    <3> QED
      BY <2>1, <3>1, <3>2 DEF OpenScreen
  <2>2. CASE Poll
    <3>1. CASE up
      BY <2>2, <3>1 DEF Poll, AskList
    <3>2. CASE ~up
      <4>1. error'
        BY <2>2, <3>2 DEF Poll, AskList
      <4>2. crashes # 0 /\ crashes' = crashes
        BY <2>2, <3>2 DEF Poll, DownWasStopped
      <4> QED
        BY <4>1, <4>2
    <3> QED
      BY <3>1, <3>2
  <2>3. CASE ReadRows \/ AnswerListing
    BY <2>3 DEF ReadRows, AnswerListing
  <2>4. CASE FailListing
    <3>1. error' /\ UNCHANGED <<listed, stored, crashes>>
      BY <2>4 DEF FailListing
    <3>2. CASE faults' = faults + 1
      <4>1. faults' # 0
        BY <3>2, ExportBounds
      <4> QED
        BY <3>1, <4>1
    <3>3. CASE \E f \in Files : ~Signable(f)
      BY <3>1, <3>3
    <3> QED
      BY <2>4, <3>2, <3>3 DEF FailListing
  <2> QED
    BY <1>3, <2>1, <2>2, <2>3, <2>4 DEF ScreenStep
<1>4. CASE Stop
  <2>1. error /\ lpc = "idle" => error'
    BY <1>4 DEF Stop, LoseExports
  <2>2. lpc' = "idle" /\ lpc # "idle" => error'
    BY <1>4 DEF Stop, LoseExports
  <2>3. screen' = screen /\ crashes' # 0
    BY <1>4, ExportBounds DEF Stop, LoseExports
  <2> QED
    BY <2>1, <2>2, <2>3
<1>5. CASE Restart \/ UNCHANGED vars
  BY <1>5 DEF Restart, vars
<1> QED
  BY <1>1, <1>2, <1>3, <1>4, <1>5 DEF Next

\* The screen that says that an export goes on has a timer, or says that a
\* list could not be loaded; and without failure nor stop, only because the
\* export replaced the files of that list meanwhile.
THEOREM PollingGoesOn == Spec => []PollingStopsOnlyOnError
<1> DEFINE PollingInv == ExportInv /\ ListedWasRecorded /\ DownWasStopped /\ PollingStopsOnlyOnError
<1>1. Init => PollingInv
  <2>1. Init => ListedWasRecorded /\ DownWasStopped /\ PollingStopsOnlyOnError
    BY ExportNames DEF Init, ListedWasRecorded, DownWasStopped, PollingStopsOnlyOnError
  <2> QED
    BY <2>1, ExportStart
<1>2. PollingInv /\ [Next]_vars => PollingInv'
  <2>1. ExportInv => Agreement
    BY DEF ExportInv, Agreement
  <2> QED
    BY <2>1, ExportInduction, NextListed, NextDown, NextPolling DEF Agreement
<1>3. PollingInv => PollingStopsOnlyOnError
  OBVIOUS
<1> HIDE DEF PollingInv
<1> QED
  BY <1>1, <1>2, <1>3, PTL DEF Spec
=============================================================================
