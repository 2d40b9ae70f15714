----------------------------- MODULE ThreadLease -----------------------------
(***************************************************************************)
(* What the run registry and the routes promise about one LangGraph        *)
(* thread, whatever the requests, crashes and failures around it: one      *)
(* driver at a time advances the checkpoint, and an interruption is        *)
(* answered at most once, while it is the one pending.                     *)
(*                                                                         *)
(* RunControl is shown to implement this module.                           *)
(***************************************************************************)
EXTENDS Naturals

CONSTANTS Drivers,    \* who may drive the thread: one task per request
          NoDriver    \* the thread is at rest

VARIABLES driver,     \* the task advancing the checkpoint, or NoDriver
          open,       \* the interruption exposed by the checkpoint, 0 if none
          issued,     \* how many interruptions were ever exposed
          answered    \* the interruptions consumed so far

vars == <<driver, open, issued, answered>>

Init ==
  /\ driver = NoDriver
  /\ open = 0
  /\ issued = 0
  /\ answered = {}

Take(d) ==
  /\ driver = NoDriver
  /\ driver' = d
  /\ UNCHANGED <<open, issued, answered>>

Leave ==
  /\ driver # NoDriver
  /\ driver' = NoDriver
  /\ UNCHANGED <<open, issued, answered>>

\* Every interruption is new: the next identifier.
Interrupt ==
  /\ driver # NoDriver
  /\ open = 0
  /\ issued' = issued + 1
  /\ open' = issued + 1
  /\ UNCHANGED <<driver, answered>>

Consume ==
  /\ driver # NoDriver
  /\ open # 0
  /\ open \notin answered
  /\ answered' = answered \cup {open}
  /\ open' = 0
  /\ UNCHANGED <<driver, issued>>

\* A run started over from a fresh input drops the question it finds pending.
StartOver ==
  /\ driver # NoDriver
  /\ open' = 0
  /\ UNCHANGED <<driver, issued, answered>>

Next ==
  \/ \E d \in Drivers : Take(d)
  \/ Leave
  \/ Interrupt
  \/ Consume
  \/ StartOver

Spec == Init /\ [][Next]_vars
=============================================================================
