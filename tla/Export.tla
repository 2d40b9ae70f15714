------------------------------- MODULE Export --------------------------------
(***************************************************************************)
(* The exports of one project: the background task that renders the files, *)
(* deposits them under a prefix of its own, records them in one            *)
(* transaction and then removes the prefixes it replaced; the registry     *)
(* that admits one export at a time; the listing with its signed links and *)
(* the screen that polls it.                                               *)
(*                                                                         *)
(* The time stamp of an export is its identity: prefix e is the folder     *)
(* {project_id}/{stamp} of export e.                                       *)
(***************************************************************************)
EXTENDS Naturals

CONSTANTS
  Exports,     \* POST /exports: each starts at most one task
  Files,       \* the files of an export: every document in every format
  NoExport, NoRow,
  Flat,        \* the prefix of the flat paths written before time stamps
  MaxFaults,   \* bound: failures of the storage, the database, the renderer or
               \* the network
  MaxCrashes   \* bound: stops of the process

ASSUME ExportNames ==
  /\ NoExport \notin Exports
  /\ NoRow \notin Exports /\ Flat \notin Exports /\ Flat # NoRow

ASSUME ExportBounds == MaxFaults \in Nat /\ MaxCrashes \in Nat

VARIABLES
  up,
  registered,  \* service._exports[project_id], or NoExport
  outcome,     \* service._outcomes[project_id]
  rows,        \* the table `exports`: file -> prefix of its storage_path
  stored,      \* the bucket: <<prefix, file>>
  epc,         \* per export: where its task is
  old,         \* per export: the prefixes to remove once recorded
  left,        \* per export: the files still to deposit
  lpc, listed, \* GET /exports: where it is, the rows it read
  screen,      \* en_cours in the last listing the screen received
  error,       \* the screen says that the list could not be loaded
  faults, crashes

service == <<registered, outcome>>
storage == <<rows, stored>>
work    == <<old, left>>
listing == <<lpc, listed, screen, error>>
exportVars == <<registered, outcome, rows, stored, epc, old, left, lpc, listed, screen, error>>
vars    == <<up, exportVars, faults, crashes>>

Prefixes == Exports \cup {Flat}
LivePcs  == {"sections", "previous", "render", "upload", "cleanup"}

TypeOK ==
  /\ up \in BOOLEAN
  /\ registered \in Exports \cup {NoExport}
  /\ outcome \in {"none", "ok", "echec"}
  /\ rows \in [Files -> Prefixes \cup {NoRow}]
  /\ stored \in SUBSET (Prefixes \X Files)
  /\ epc \in [Exports -> LivePcs \cup {"new", "refused", "ended", "forgotten", "killed"}]
  /\ old \in [Exports -> SUBSET Exports]
  /\ left \in [Exports -> SUBSET Files]
  /\ lpc \in {"idle", "timer", "reading", "signing"}
  /\ listed \in [Files -> Prefixes \cup {NoRow}]
  /\ screen \in {"unknown", "running", "over"}
  /\ error \in BOOLEAN
  /\ faults \in 0..MaxFaults
  /\ crashes \in 0..MaxCrashes

\* A project never exported, or exported before prefixes had a time stamp.
Init ==
  /\ up = TRUE
  /\ registered = NoExport /\ outcome = "none"
  /\ \/ /\ rows = [f \in Files |-> NoRow]
        /\ stored = {}
     \/ /\ rows = [f \in Files |-> Flat]
        /\ stored = {Flat} \X Files
  /\ epc = [e \in Exports |-> "new"]
  /\ old = [e \in Exports |-> {}]
  /\ left = [e \in Exports |-> {}]
  /\ lpc = "idle" /\ listed = [f \in Files |-> NoRow] /\ screen = "unknown" /\ error = FALSE
  /\ faults = 0 /\ crashes = 0

Under(p) == {p} \X Files

-----------------------------------------------------------------------------
(* The registry of exports. *)

Live(e) == epc[e] \in LivePcs

is_exporting == registered # NoExport /\ Live(registered)

Advance(e, pc) == epc' = [epc EXCEPT ![e] = pc]

\* Variants named ...Mutant are plausible bugs: each breaks a property.
\* The callback forgets whatever export is registered.
ForgetMutant(e) ==
  /\ epc[e] = "ended"
  /\ registered' = NoExport
  /\ Advance(e, "forgotten")
  /\ UNCHANGED <<up, outcome, storage, work, listing, faults, crashes>>

\* The callback runs one turn of the loop after the end of the task.
Forget(e) ==
  /\ epc[e] = "ended"
  /\ registered' = IF registered = e THEN NoExport ELSE registered
  /\ Advance(e, "forgotten")
  /\ UNCHANGED <<up, outcome, storage, work, listing, faults, crashes>>

\* POST /exports.  The row of the project is read first, of which the export
\* only uses columns that never change; its run_status is not looked at.
Launch(e) ==
  /\ up /\ epc[e] = "new"
  /\ \/ /\ is_exporting
        /\ Advance(e, "refused")
        /\ UNCHANGED registered
     \/ /\ ~is_exporting
        /\ Advance(e, "sections")
        /\ registered' = e
  /\ UNCHANGED <<up, outcome, storage, work, listing, faults, crashes>>

-----------------------------------------------------------------------------
(* The background task: export_project. *)

\* load_sections is one query: what it returns is of one instant.
ReadSections(e) ==
  /\ epc[e] = "sections"
  /\ Advance(e, "previous")
  /\ UNCHANGED <<up, service, storage, work, listing, faults, crashes>>

\* The prefixes of the previous export are not read.
ReadPreviousMutant(e) ==
  /\ epc[e] = "previous"
  /\ old' = [old EXCEPT ![e] = {}]
  /\ Advance(e, "render")
  /\ UNCHANGED <<up, service, storage, left, listing, faults, crashes>>

\* The folder of a flat path is taken for a prefix too.
ReadPreviousFlatMutant(e) ==
  /\ epc[e] = "previous"
  /\ old' = [old EXCEPT ![e] = {rows[f] : f \in Files} \ {NoRow}]
  /\ Advance(e, "render")
  /\ UNCHANGED <<up, service, storage, left, listing, faults, crashes>>

\* The prefixes that will be replaced; a flat path is not one, its folder
\* being the parent of all the others.
ReadPrevious(e) ==
  /\ epc[e] = "previous"
  /\ old' = [old EXCEPT ![e] = {rows[f] : f \in Files} \cap Exports]
  /\ Advance(e, "render")
  /\ UNCHANGED <<up, service, storage, left, listing, faults, crashes>>

\* The checkpoint is read and every file rendered before any is deposited.
Render(e) ==
  /\ epc[e] = "render"
  /\ left' = [left EXCEPT ![e] = Files]
  /\ Advance(e, "upload")
  /\ UNCHANGED <<up, service, storage, old, listing, faults, crashes>>

Upload(e) ==
  /\ epc[e] = "upload"
  /\ \E f \in left[e] :
       /\ stored' = stored \cup {<<e, f>>}
       /\ left' = [left EXCEPT ![e] = @ \ {f}]
  /\ UNCHANGED <<up, service, rows, epc, old, listing, faults, crashes>>

\* The prefixes to remove are read once the new rows are there.
RecordThenReadMutant(e) ==
  /\ epc[e] = "upload" /\ left[e] = {}
  /\ rows' = [f \in Files |-> e]
  /\ outcome' = "ok"
  /\ old' = [old EXCEPT ![e] = {rows'[f] : f \in Files} \cap Exports]
  /\ Advance(e, "cleanup")
  /\ UNCHANGED <<up, registered, stored, left, listing, faults, crashes>>

\* Each file is recorded by itself, as soon as it is deposited.
RecordEachMutant(e) ==
  /\ epc[e] = "upload"
  /\ rows' = [f \in Files |-> IF f \in left[e] THEN rows[f] ELSE e]
  /\ IF left[e] = {} THEN outcome' = "ok" /\ Advance(e, "cleanup")
                     ELSE UNCHANGED <<outcome, epc>>
  /\ UNCHANGED <<up, registered, stored, work, listing, faults, crashes>>

\* record_exports: all the rows in one transaction, then the outcome.
Record(e) ==
  /\ epc[e] = "upload" /\ left[e] = {}
  /\ rows' = [f \in Files |-> e]
  /\ outcome' = "ok"
  /\ Advance(e, "cleanup")
  /\ UNCHANGED <<up, registered, stored, work, listing, faults, crashes>>

\* The answer to the commit is lost: the rows are there, the task fails.
RecordUnacknowledged(e) ==
  /\ epc[e] = "upload" /\ left[e] = {}
  /\ faults < MaxFaults /\ faults' = faults + 1
  /\ rows' = [f \in Files |-> e]
  /\ outcome' = "echec"
  /\ Advance(e, "ended")
  /\ UNCHANGED <<up, registered, stored, work, listing, crashes>>

\* delete_prefix, for each prefix replaced.
DeleteOld(e) ==
  /\ epc[e] = "cleanup"
  /\ \E p \in old[e] :
       /\ stored' = stored \ Under(p)
       /\ old' = [old EXCEPT ![e] = @ \ {p}]
  /\ UNCHANGED <<up, service, rows, epc, left, listing, faults, crashes>>

\* A deletion that fails is logged; the storage may have done it.
DeleteOldFault(e) ==
  /\ epc[e] = "cleanup"
  /\ faults < MaxFaults /\ faults' = faults + 1
  /\ \E p \in old[e] :
       /\ stored' \in {stored, stored \ Under(p)}
       /\ old' = [old EXCEPT ![e] = @ \ {p}]
  /\ UNCHANGED <<up, service, rows, epc, left, listing, crashes>>

End(e) ==
  /\ epc[e] = "cleanup" /\ old[e] = {}
  /\ Advance(e, "ended")
  /\ UNCHANGED <<up, service, storage, work, listing, faults, crashes>>

\* Anything raised before the rows are recorded; a deposit that fails may
\* have left its file.
Fail(e) ==
  /\ epc[e] \in {"sections", "previous", "render", "upload"}
  /\ faults < MaxFaults /\ faults' = faults + 1
  /\ stored' \in {stored} \cup {stored \cup {<<e, f>>} : f \in left[e]}
  /\ outcome' = "echec"
  /\ Advance(e, "ended")
  /\ UNCHANGED <<up, registered, rows, work, listing, crashes>>

-----------------------------------------------------------------------------
(* GET /exports and the screen that calls it. *)

\* A server that is stopped does not list anything.
AskList(before) ==
  /\ lpc' = IF up THEN "reading" ELSE "idle"
  /\ error' = (before \/ ~up)

\* The page is opened, or the list is asked for again after a click on the
\* launch button, which is shown when the last list said that none goes on.
OpenScreen ==
  /\ lpc = "idle" /\ AskList(FALSE)
  /\ screen' = "unknown" \/ (screen = "over" /\ UNCHANGED screen)
  /\ UNCHANGED <<up, service, storage, epc, work, listed, faults, crashes>>

\* The timer set when the last listing said that an export is going on.
Poll ==
  /\ lpc = "timer" /\ AskList(error)
  /\ UNCHANGED <<up, service, storage, epc, work, listed, screen, faults, crashes>>

ReadRows ==
  /\ lpc = "reading"
  /\ listed' = rows
  /\ lpc' = "signing"
  /\ UNCHANGED <<up, service, storage, epc, work, screen, error, faults, crashes>>

Signable(f) == listed[f] = NoRow \/ <<listed[f], f>> \in stored

\* The listing looks at the rows instead of the registry.
AnswerListingMutant ==
  /\ lpc = "signing"
  /\ \A f \in Files : Signable(f)
  /\ lpc' = IF \A f \in Files : listed[f] = NoRow THEN "timer" ELSE "idle"
  /\ screen' = IF is_exporting THEN "running" ELSE "over"
  /\ UNCHANGED <<up, service, storage, epc, work, listed, error, faults, crashes>>

\* Every link is signed, then the registry is read.
AnswerListing ==
  /\ lpc = "signing"
  /\ \A f \in Files : Signable(f)
  /\ lpc' = IF is_exporting THEN "timer" ELSE "idle"
  /\ screen' = IF is_exporting THEN "running" ELSE "over"
  /\ UNCHANGED <<up, service, storage, epc, work, listed, error, faults, crashes>>

\* The storage refuses to sign a file that is gone, or the query, a signature
\* or the network fails: the screen says so, keeps the last list it had and
\* sets no timer.
FailListing ==
  /\ \/ lpc = "signing" /\ (\E f \in Files : ~Signable(f)) /\ UNCHANGED faults
     \/ lpc \in {"reading", "signing"} /\ faults < MaxFaults /\ faults' = faults + 1
  /\ lpc' = "idle" /\ error' = TRUE
  /\ UNCHANGED <<up, service, storage, epc, work, listed, screen, crashes>>

-----------------------------------------------------------------------------
(* The process. *)

\* Memory is lost, a call in flight fails, the database and the bucket stay.
LoseExports ==
  /\ registered' = NoExport
  /\ outcome' = "none"
  /\ epc' = [e \in Exports |-> IF Live(e) \/ epc[e] = "ended" THEN "killed" ELSE epc[e]]
  /\ IF lpc \in {"reading", "signing"} THEN lpc' = "idle" /\ error' = TRUE
                                        ELSE UNCHANGED <<lpc, error>>
  /\ UNCHANGED <<storage, work, listed, screen>>

Stop ==
  /\ up /\ crashes < MaxCrashes
  /\ up' = FALSE
  /\ crashes' = crashes + 1
  /\ LoseExports
  /\ UNCHANGED faults

Restart ==
  /\ ~up
  /\ up' = TRUE
  /\ UNCHANGED <<exportVars, faults, crashes>>

TaskStep(e) ==
  \/ ReadSections(e) \/ ReadPrevious(e) \/ Render(e) \/ Upload(e)
  \/ Record(e) \/ DeleteOld(e) \/ End(e) \/ Forget(e)

TaskFault(e) == Fail(e) \/ RecordUnacknowledged(e) \/ DeleteOldFault(e)

ScreenStep == OpenScreen \/ Poll \/ ReadRows \/ AnswerListing \/ FailListing

Next ==
  \/ \E e \in Exports : Launch(e) \/ TaskStep(e) \/ TaskFault(e)
  \/ ScreenStep
  \/ Stop \/ Restart

Spec == Init /\ [][Next]_vars

-----------------------------------------------------------------------------
(* Properties. *)

\* One export at a time: the next one reads as previous the rows the former
\* has finished with, and removes nothing the former still writes.
SingleExporter ==
  \A d, e \in Exports : Live(d) /\ Live(e) => d = e

\* Every file a row names is in the bucket, whatever failed or stopped: the
\* old files go only once the rows name the new ones, which are all there.
RecordedFilesExist ==
  \A f \in Files : rows[f] # NoRow => <<rows[f], f>> \in stored

\* An export is seen whole or not at all (export_project: "l'écran ne montre
\* jamais un mélange d'ancien et de nouveau"): neither the rows nor what a
\* screen has read of them ever mix two exports, those of an export that failed
\* no more than the others.
OneExport == \A f, g \in Files : rows[f] = rows[g] /\ listed[f] = listed[g]

\* Without failure nor stop, the bucket holds what the rows name and nothing
\* else, but for the flat files that are left alone.
StorageTidy ==
  faults = 0 /\ crashes = 0 /\ ~is_exporting
    => \A p \in Exports, f \in Files : <<p, f>> \in stored => rows[f] = p

\* The screen reads the list again as long as an export goes on: when it
\* stops on a list that says so, it says that a list could not be loaded; and
\* if nothing failed nor stopped, that list could not be signed any more, the
\* export having replaced its files between the query and the signature.
PollingStopsOnlyOnError ==
  screen = "running" /\ lpc = "idle" =>
    /\ error
    /\ faults = 0 /\ crashes = 0 => \E f \in Files : ~Signable(f)

-----------------------------------------------------------------------------
(* The inductive invariant behind the safety properties. *)

\* The registry knows the live export, if there is one.
RegisteredIsLive == \A e \in Exports : Live(e) => registered = e

\* What an export has deposited is there until it is recorded, and once it is
\* recorded nothing it removes is its own.
DepositedFirst ==
  \A e \in Exports :
    /\ epc[e] = "upload" => \A f \in Files \ left[e] : <<e, f>> \in stored
    /\ epc[e] = "cleanup" => /\ e \notin old[e]
                             /\ \A f \in Files : rows[f] = e
    /\ epc[e] \in {"new", "refused", "sections", "previous", "render", "upload"}
         => \A f \in Files : rows[f] # e
    /\ epc[e] \in {"render", "upload"} =>
         \A p \in Exports : p \in old[e] <=> \E f \in Files : rows[f] = p

\* As long as nothing fails or stops, a file no row names is being deposited
\* or about to be removed.
EveryFileAccounted ==
  faults = 0 /\ crashes = 0 =>
    \A p \in Exports, f \in Files : <<p, f>> \in stored =>
      \/ rows[f] = p
      \/ epc[p] = "upload"
      \/ \E e \in Exports : epc[e] = "cleanup" /\ p \in old[e]

\* What a listing has read was recorded: no export still deposits under it.
ListedWasRecorded ==
  \A e \in Exports, f \in Files :
    epc[e] \in {"new", "refused", "sections", "previous", "render", "upload"} => listed[f] # e

\* A server that is down has been stopped.
DownWasStopped == ~up => crashes > 0

\* The inductive invariant: registry, steps of the export, rows and bucket.
ExportInv ==
  /\ TypeOK
  /\ RegisteredIsLive
  /\ DepositedFirst
  /\ RecordedFilesExist
  /\ OneExport
  /\ EveryFileAccounted
=============================================================================
