---------------------------- MODULE MCLiveScreen ----------------------------
(* Small instances of LiveScreen. *)
EXTENDS LiveScreen

MCEvents == RunEvents
MCSubscribers == {tab}

\* Bound of LiveScreen: where the question is an arbitration, what goes wrong is
\* a failure of the run, followed as long as the row says so.
ArbitrationFails ==
  arbitrations = {} \/ extras = 0 \/ row = "failed" \/ rpc = "toFailed" \/ ~up
=============================================================================
