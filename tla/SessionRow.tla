----------------------------- MODULE SessionRow -----------------------------
(***************************************************************************)
(* One row of the `sessions` table and what the daemon may do to it: the   *)
(* gated upsert of db.rs, the versions and events reconcile.rs and         *)
(* repair.rs build from a stored row.  A row is the observation it stores; *)
(* the task it belongs to is known to the scheduler (session_is_known).    *)
(***************************************************************************)
EXTENDS Lifecycle

CONSTANT NoRow          \* the row does not exist yet

ASSUME NoRowAssumption == NoRow \notin Observation

\* What agents report about themselves, as the reducer sees it: ready,
\* turn_started, complete, fault, and heartbeat or snapshot.
ReportKind == {"ready", "turn_started", "complete", "fail", "reconcile_ok"}

\* The event kinds the daemon feeds itself through apply_at_next.
FeedKind ==
    {"created", "ready", "turn_started", "turn_ended", "complete",
     "intent_pending", "intent_retry", "intent_receipt", "intent_exhausted",
     "resource_attach", "resource_closed", "agent_gone", "cancel", "fail",
     "reconcile_mismatch", "reconcile_ok"}

\* The kinds feed_intent feeds.
IntentKind ==
    {"intent_pending", "intent_retry", "intent_receipt", "intent_exhausted"}

\* Fed only by callers that found the row first: feed_intent, the reconcile
\* pass and the repairs.  A row is never deleted.
TrackedKind == IntentKind \cup {"agent_gone", "reconcile_mismatch", "reconcile_ok"}

Row == Observation \cup {NoRow}

\* A missing row reduces like a fresh session.
Stored(r) == IF r = NoRow THEN Initial ELSE r

\* A corrupt row is rebuilt at its own watermark; the dimensions are lost.
MutRebuild(r) == [Initial EXCEPT !.mismatch = r.mismatch]

Rebuild(r) == Booting([gen |-> r.gen, seq |-> r.seq], "detached", r.mismatch)

NextVersion(r) == [gen |-> Stored(r).gen, seq |-> Stored(r).seq + 1]

MutUpsertUngated(r, o) == o

Upsert(r, o) == IF r = NoRow \/ Newer(o, r) THEN o ELSE r

PlainEvent(kind, v) == [kind |-> kind, gen |-> v.gen, seq |-> v.seq]

MutSettleBody(o, outcome) ==
    LET agent == IF o.agent = "booting" THEN "idle" ELSE o.agent IN
    WithPublic([o EXCEPT
      !.agent = agent,
      !.delivery = IF outcome = "done" THEN "accepted" ELSE @,
      !.recovery = "none",
      !.outcome = outcome])

\* The tuple `settle` proves: the stored one with the result of the ledger.
SettleBody(o, outcome) ==
    LET agent == IF o.agent = "booting" THEN "idle" ELSE o.agent IN
    WithPublic([o EXCEPT
      !.agent = agent,
      !.delivery = IF outcome = "done" THEN "accepted" ELSE @,
      !.recovery = IF outcome = "done" /\ agent = "idle" /\ o.live
                   THEN "draining" ELSE "none",
      !.outcome = outcome])

SettleEvent(r, outcome) ==
    LET v == NextVersion(r) IN
    [kind |-> "heartbeat", gen |-> v.gen, seq |-> v.seq,
     body |-> SettleBody(Stored(r), outcome)]

\* repair adopt: the next generation, from sequence 0.
AdoptEvent(r) ==
    PlainEvent("adopt_new_generation", [gen |-> r.gen + 1, seq |-> 0])

\* repair rebind: the next generation, on an attached handle that probes live.
RebindEvent(r) ==
    LET v == [gen |-> r.gen + 1, seq |-> r.seq + 1] IN
    [kind |-> "supersede", gen |-> v.gen, seq |-> v.seq, oldDead |-> TRUE,
     body |-> Booting(v, "attached", 0)]

\* What apply_persist makes of the row it read: the seed of a missing row,
\* or the verdict of the reducer.
Reduce(r, e) ==
    IF r = NoRow /\ e.kind = "created"
    THEN Applied(Booting(VersionOf(e), "detached", 0))
    ELSE Apply(Stored(r), e)

=============================================================================
