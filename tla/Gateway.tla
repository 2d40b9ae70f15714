------------------------------ MODULE Gateway -------------------------------
(***************************************************************************)
(* The calls to the language models: each tries the providers of its route *)
(* and their models in turn, within a budget counted in the database and   *)
(* at a pace kept in memory.  `complete` returns an answer, `stream` gives *)
(* its text as it comes to the node `write`.                               *)
(***************************************************************************)
EXTENDS Integers, FiniteSets, Sequences

CONSTANTS
  Calls,       \* tasks that call the gateway, one call at a time each
  Providers,
  Configured,  \* those that have a key
  Models,      \* PROVIDERS: how many models each has
  RPM,         \* its published limit of requests in a window
  Paced,       \* those limited per second, with a pacer
  Interval,    \* the spacing they ask for, in ticks
  Nobody,      \* holder of a free lock
  RouteOf      \* ROUTES: for `complete` and for `stream`, the providers in order

Kinds == {"complete", "stream"}

\* ModelUnavailable and ProviderUnavailable.
Failures == {"model", "provider"}

ASSUME GatewayAssumption ==
  /\ IsFiniteSet(Calls) /\ Calls # {} /\ Nobody \notin Calls
  /\ Configured \subseteq Providers /\ Paced \subseteq Providers
  /\ Models \in [Providers -> Nat \ {0}] /\ RPM \in [Providers -> Nat]
  /\ Interval \in Nat
  /\ RouteOf \in [Kinds -> Seq(Providers)]

VARIABLES
  fake,      \* settings().fake_llm, for the whole process
  pc, kind,
  i, j,      \* the provider of the route and the model being tried
  emitted,   \* text has come from this try
  out,       \* how the try ended
  usage,     \* llm_usage: per provider, the lines still in its window
  since,     \* per paced provider, ticks since Pacer._last
  holder,    \* who holds the lock of its pacer
  remaining, \* the sleep of the holder
  pieces,    \* `write`: the tries its text comes from
  owed       \* a try was sent and no line of it attempted yet (history)

call  == <<fake, pc, kind, i, j, emitted, out>>
pacer == <<since, holder, remaining>>
vars  == <<call, usage, pacer, pieces, owed>>

InRoute(c)  == i[c] \in 1..Len(RouteOf[kind[c]])
provider(c) == RouteOf[kind[c]][i[c]]
Try(c)      == <<i[c], j[c]>>

Pcs == {"idle", "check", "pace", "sleep", "asked", "record"}

\* A call admitted by a provider is at one of its models, another at none yet.
InPlace(c) ==
  /\ pc[c] \in {"pace", "sleep", "asked", "record"} =>
       InRoute(c) /\ j[c] <= Models[provider(c)]
  /\ pc[c] \in {"idle", "check"} => j[c] = 1

TypeOK ==
  /\ pc \in [Calls -> Pcs] /\ kind \in [Calls -> Kinds] /\ fake \in BOOLEAN
  /\ i \in [Calls -> Nat \ {0}] /\ j \in [Calls -> Nat \ {0}]
  /\ \A c \in Calls : InPlace(c)
  /\ emitted \in [Calls -> BOOLEAN]
  /\ out \in [Calls -> {"none", "ok", "cut"} \cup Failures]
  /\ usage \in [Providers -> Nat]
  /\ since \in [Providers -> 0..Interval]
  /\ holder \in [Providers -> Calls \cup {Nobody}]
  /\ remaining \in [Calls -> 0..Interval]
  /\ pieces \in [Calls -> SUBSET ((Nat \ {0}) \X (Nat \ {0}))]
  /\ owed \in [Calls -> {0, 1}]

Init ==
  /\ pc = [c \in Calls |-> "idle"] /\ kind = [c \in Calls |-> "complete"]
  /\ fake \in BOOLEAN
  /\ i = [c \in Calls |-> 1] /\ j = [c \in Calls |-> 1]
  /\ emitted = [c \in Calls |-> FALSE] /\ out = [c \in Calls |-> "none"]
  /\ usage = [p \in Providers |-> 0]
  /\ since = [p \in Providers |-> Interval]
  /\ holder = [p \in Providers |-> Nobody] /\ remaining = [c \in Calls |-> 0]
  /\ pieces = [c \in Calls |-> {}]
  /\ owed = [c \in Calls |-> 0]

At(c, place) == pc[c] = place
Go(c, place) == pc' = [pc EXCEPT ![c] = place]

\* The call is over and its locals with it.
Return(c) ==
  /\ Go(c, "idle")
  /\ i' = [i EXCEPT ![c] = 1] /\ j' = [j EXCEPT ![c] = 1]
  /\ emitted' = [emitted EXCEPT ![c] = FALSE] /\ out' = [out EXCEPT ![c] = "none"]
  /\ pieces' = [pieces EXCEPT ![c] = {}]

\* A node calls the gateway.
Start(c) ==
  /\ At(c, "idle") /\ Go(c, "check")
  /\ kind' \in {[kind EXCEPT ![c] = k] : k \in Kinds}
  /\ owed' = [owed EXCEPT ![c] = 0]
  /\ UNCHANGED <<fake, i, j, emitted, out, usage, pacer, pieces>>

\* The call to come is not counted.
budget_availableMutant(p) == usage[p] <= RPM[p]

\* The call to come counts.
budget_available(p) == usage[p] + 1 <= RPM[p]

_usable(c) == fake \/ (provider(c) \in Configured /\ budget_available(provider(c)))

NextProvider(c) ==
  /\ i' = [i EXCEPT ![c] = @ + 1] /\ j' = [j EXCEPT ![c] = 1]

\* The provider is looked at once, before its first model.
Check(c) ==
  /\ At(c, "check") /\ InRoute(c)
  /\ IF _usable(c)
     THEN Go(c, "pace") /\ UNCHANGED <<i, j>>
     ELSE NextProvider(c) /\ UNCHANGED pc
  /\ UNCHANGED <<fake, kind, emitted, out, usage, pacer, pieces, owed>>

\* NoProviderAvailable.
Exhausted(c) ==
  /\ At(c, "check") /\ ~InRoute(c) /\ Return(c)
  /\ UNCHANGED <<fake, kind, usage, pacer, owed>>

-----------------------------------------------------------------------------
(* Pacer.wait, then the request. *)

IsPaced(c) == ~fake /\ provider(c) \in Paced

\* The request leaves for the model at hand.
Ask(c) ==
  /\ Go(c, "asked")
  /\ emitted' = [emitted EXCEPT ![c] = FALSE]
  /\ owed' = [owed EXCEPT ![c] = 1]

AskAtOnce(c) ==
  /\ At(c, "pace") /\ ~IsPaced(c) /\ Ask(c)
  /\ UNCHANGED <<fake, kind, i, j, out, usage, pacer, pieces>>

\* The lock is given up during the sleep.
TakeTurnMutant(c) ==
  /\ At(c, "pace") /\ IsPaced(c) /\ Go(c, "sleep")
  /\ remaining' = [remaining EXCEPT ![c] = Interval - since[provider(c)]]
  /\ UNCHANGED <<fake, kind, i, j, emitted, out, usage, since, holder, pieces, owed>>

\* The lock is free: how long is left to wait.
TakeTurn(c) ==
  /\ At(c, "pace") /\ IsPaced(c) /\ holder[provider(c)] = Nobody /\ Go(c, "sleep")
  /\ holder' = [holder EXCEPT ![provider(c)] = c]
  /\ remaining' = [remaining EXCEPT ![c] = Interval - since[provider(c)]]
  /\ UNCHANGED <<fake, kind, i, j, emitted, out, usage, since, pieces, owed>>

\* The lock of c, if it holds one.
Released(c) == [p \in Providers |-> IF holder[p] = c THEN Nobody ELSE holder[p]]

\* The wait is over: the time is noted, the lock released, the request sent.
WakeUp(c) ==
  /\ At(c, "sleep") /\ remaining[c] = 0
  /\ since' = [since EXCEPT ![provider(c)] = 0]
  /\ holder' = Released(c)
  /\ Ask(c)
  /\ UNCHANGED <<fake, kind, i, j, out, usage, remaining, pieces>>

Tick ==
  /\ \/ \E p \in Providers : since[p] < Interval
     \/ \E c \in Calls : remaining[c] > 0
  /\ since' = [p \in Providers |-> IF since[p] < Interval THEN since[p] + 1 ELSE Interval]
  /\ remaining' = [c \in Calls |-> IF remaining[c] > 0 THEN remaining[c] - 1 ELSE 0]
  /\ UNCHANGED <<call, usage, holder, pieces, owed>>

-----------------------------------------------------------------------------
(* The try. *)

OnTextDelta(c)     == pieces' = [pieces EXCEPT ![c] = @ \cup {Try(c)}]
OnStreamRestart(c) == pieces' = [pieces EXCEPT ![c] = {}]

\* A fragment of the stream, which `write` adds to its text.
Delta(c) ==
  /\ At(c, "asked") /\ kind[c] = "stream"
  /\ emitted' = [emitted EXCEPT ![c] = TRUE]
  /\ OnTextDelta(c)
  /\ UNCHANGED <<fake, pc, kind, i, j, out, usage, pacer, owed>>

\* An answer, or a model or a provider in cause: what _fail, _parse and the
\* empty answers are sorted into.  The simulated transport always answers.
Outcome(c) ==
  /\ At(c, "asked") /\ Go(c, "record")
  /\ \E o \in {"ok"} \cup (IF fake THEN {} ELSE Failures) :
       out' = [out EXCEPT ![c] = o]
  /\ UNCHANGED <<fake, kind, i, j, emitted, usage, pacer, pieces, owed>>

\* A stream cut is not recorded.
CutMutant(c) ==
  /\ pc[c] \in {"check", "pace", "sleep", "asked", "record"}
  /\ Return(c)
  /\ owed' = [owed EXCEPT ![c] = IF At(c, "record") THEN 0 ELSE @]
  /\ holder' = Released(c) /\ remaining' = [remaining EXCEPT ![c] = 0]
  /\ UNCHANGED <<fake, kind, usage, since>>

\* The lock is not released by a wait that is cut.
CutKeepsLockMutant(c) ==
  /\ pc[c] \in {"check", "pace", "sleep", "asked", "record"}
  /\ IF At(c, "asked") /\ kind[c] = "stream"
     THEN /\ Go(c, "record") /\ out' = [out EXCEPT ![c] = "cut"]
          /\ UNCHANGED <<i, j, emitted, pieces, owed>>
     ELSE /\ Return(c)
          /\ owed' = [owed EXCEPT ![c] = IF At(c, "record") THEN 0 ELSE @]
  /\ UNCHANGED holder /\ remaining' = [remaining EXCEPT ![c] = 0]
  /\ UNCHANGED <<fake, kind, usage, since>>

\* The task is cancelled, or an exception of another kind goes through the
\* call: a stream still records its try on the way out, once, unless the
\* record itself is what is cut.
Cut(c) ==
  /\ pc[c] \in {"check", "pace", "sleep", "asked", "record"}
  /\ IF At(c, "asked") /\ kind[c] = "stream"
     THEN /\ Go(c, "record") /\ out' = [out EXCEPT ![c] = "cut"]
          /\ UNCHANGED <<i, j, emitted, pieces, owed>>
     ELSE /\ Return(c)
          /\ owed' = [owed EXCEPT ![c] = IF At(c, "record") THEN 0 ELSE @]
  /\ holder' = Released(c) /\ remaining' = [remaining EXCEPT ![c] = 0]
  /\ UNCHANGED <<fake, kind, usage, since>>

\* One line, a request whatever its outcome.
record_usage(p) == usage' = [usage EXCEPT ![p] = @ + 1]

\* One line; a simulated call has it under another name.
_record(c) ==
  /\ IF fake THEN UNCHANGED usage ELSE record_usage(provider(c))
  /\ owed' = [owed EXCEPT ![c] = @ - 1]

\* The answer is returned, or the cut goes on.
RecordEnd(c) ==
  /\ At(c, "record") /\ out[c] \in {"ok", "cut"}
  /\ _record(c)
  /\ Return(c)
  /\ UNCHANGED <<fake, kind, pacer>>

\* One model too many.
GoesOnMutant(c) == out[c] = "model" /\ ~emitted[c]

\* A model in cause, that is not the last and of which no text was seen: the
\* next model of the same provider.
GoesOn(c) == out[c] = "model" /\ ~emitted[c] /\ j[c] < Models[provider(c)]

\* The consumer is told of no restart.
RecordFailureMutant(c) ==
  /\ At(c, "record") /\ out[c] \in Failures
  /\ _record(c)
  /\ IF GoesOn(c)
     THEN Go(c, "pace") /\ j' = [j EXCEPT ![c] = @ + 1] /\ UNCHANGED i
     ELSE Go(c, "check") /\ NextProvider(c)
  /\ out' = [out EXCEPT ![c] = "none"]
  /\ UNCHANGED <<fake, kind, emitted, pacer, pieces>>

\* A failed try: text already given is taken back (StreamRestart) and its
\* provider left.
RecordFailure(c) ==
  /\ At(c, "record") /\ out[c] \in Failures
  /\ _record(c)
  /\ IF emitted[c] THEN OnStreamRestart(c) ELSE UNCHANGED pieces
  /\ IF GoesOn(c)
     THEN Go(c, "pace") /\ j' = [j EXCEPT ![c] = @ + 1] /\ UNCHANGED i
     ELSE Go(c, "check") /\ NextProvider(c)
  /\ out' = [out EXCEPT ![c] = "none"]
  /\ UNCHANGED <<fake, kind, emitted, pacer>>

\* A line leaves the window.
Expire(p) ==
  /\ usage[p] > 0 /\ usage' = [usage EXCEPT ![p] = @ - 1]
  /\ UNCHANGED <<call, pacer, pieces, owed>>

-----------------------------------------------------------------------------
Step(c) ==
  \/ Check(c) \/ Exhausted(c) \/ AskAtOnce(c) \/ WakeUp(c)
  \/ Outcome(c) \/ RecordEnd(c) \/ RecordFailure(c)

Next ==
  \/ \E c \in Calls : Start(c) \/ Step(c) \/ TakeTurn(c) \/ Delta(c) \/ Cut(c)
  \/ Tick
  \/ \E p \in Providers : Expire(p)

Spec == Init /\ [][Next]_vars

\* The loop runs what is ready and time passes; a request has a timeout, and
\* an asyncio.Lock serves its waiters in turn.
Fairness ==
  /\ \A c \in Calls : WF_vars(Step(c)) /\ SF_vars(TakeTurn(c))
  /\ WF_vars(Tick)

FairSpec == Spec /\ Fairness

-----------------------------------------------------------------------------
(* Properties. *)

\* The text `write` holds, and returns, comes from one try, the one at hand:
\* what a broken stream had given is never glued before what the next provider
\* writes.
TextIsOfOneTry == \A c \in Calls : pieces[c] \subseteq {Try(c)}

\* A stream leaves no try out of the count that feeds the budget, however it
\* ends, but for a line whose very writing failed; and none is counted twice.
TriesAreCounted ==
  \A c \in Calls : At(c, "idle") /\ kind[c] = "stream" => owed[c] = 0

\* The limit of a provider is passed by no more than what the calls admitted
\* together may send: one request per model each.
OverrunIsBounded ==
  \A p \in Providers :
    usage[p] + 1 <= RPM[p] + Cardinality(Calls \X (1..Models[p]))

\* Two requests to a provider limited per second are apart, whichever calls
\* send them, also for two models of the same call.
PacedApart ==
  [][\A c \in Calls : At(c, "sleep") /\ pc'[c] = "asked" => since[provider(c)] = Interval]_vars

\* A call always ends: an answer, an exhausted route, or a failure.
EveryCallEnds == \A c \in Calls : pc[c] = "check" ~> pc[c] = "idle"

-----------------------------------------------------------------------------
(* The inductive invariant. *)

\* A call has text only while its try, which has sent some, goes on.
TextOfTheTry(c) ==
  pc[c] \notin {"asked", "record"} \/ ~emitted[c] => pieces[c] = {}

\* A try is owed its line from the request to the end of its record.
OwedWhileTried(c) ==
  /\ pc[c] \in {"asked", "record"} => owed[c] = 1
  /\ pc[c] \in {"check", "pace", "sleep"} => owed[c] = 0
  /\ pc[c] = "idle" /\ kind[c] = "stream" => owed[c] = 0

\* A sleeper holds the lock, and wakes when its provider has rested enough.
SleeperHolds(c) ==
  pc[c] = "sleep" => /\ holder[provider(c)] = c
                     /\ remaining[c] + since[provider(c)] >= Interval

\* Who holds the lock of a provider sleeps for it.
HolderSleeps(p) ==
  holder[p] # Nobody => pc[holder[p]] = "sleep" /\ provider(holder[p]) = p

\* What the calls admitted by a provider may still send it.
Pending(p) ==
  {x \in Calls \X (1..Models[p]) :
     /\ ~fake /\ pc[x[1]] \in {"pace", "sleep", "asked", "record"}
     /\ provider(x[1]) = p /\ j[x[1]] <= x[2]}

\* The limit holds with what is still to come.
AdmittedIsBounded ==
  \A p \in Providers :
    usage[p] + Cardinality(Pending(p)) + 1
      <= RPM[p] + Cardinality(Calls \X (1..Models[p]))

\* What the proofs carry from step to step: the text, the lines owed, the turns
\* and the requests still to come, together with the types.
Steady ==
  /\ TypeOK /\ TextIsOfOneTry
  /\ \A c \in Calls : TextOfTheTry(c) /\ OwedWhileTried(c) /\ SleeperHolds(c)
  /\ \A p \in Providers : HolderSleeps(p)

GatewayInv == Steady /\ AdmittedIsBounded
=============================================================================
