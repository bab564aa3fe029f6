--------------------------- MODULE MCSessionLedger ---------------------------
(* SessionLedger with the handlers of its TLC runs. *)
EXTENDS SessionLedger

\* The handlers a dispatched session meets until its tab is recycled.
SessionHandlers ==
    {FeedDispatched, OnReady, FeedDelivered, ReconcileDead,
     <<"turn_started">>, <<"turn_ended">>, <<"cancel">>, <<"resource_closed">>,
     <<"reconcile_mismatch">>, <<"reconcile_ok">>}

\* A seeded session, the feeds that end it, the frames of its agent, and the
\* repairs that open a generation over it.
ReportedHandlers ==
    {OnReady, ReconcileDead, <<"cancel">>, RepairAdopt, RepairRebind}

AgentReports == {"ready", "fail"}

=============================================================================
