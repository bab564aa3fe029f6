------------------------------- MODULE Session -------------------------------
(***************************************************************************)
(* One session row, reduced one event at a time: what the session ledger   *)
(* promises.  Every caller of apply_persist (reconcile.rs) is an action:   *)
(* the feeds that allocate the next version, the settle that mirrors the   *)
(* task ledger, the frames an agent reports with its own version, and the  *)
(* two repairs that open a generation.  SessionLedger has the same calls   *)
(* with the reads and the write of one call as separate steps.             *)
(*                                                                         *)
(* The scheduler, the reap loop, the event pumps and the repair commands   *)
(* call in any order, so any action may follow any other.                  *)
(***************************************************************************)
EXTENDS SessionRow

CONSTANTS
    Feeds,        \* the kinds fed at the next version
    Reports,      \* the kinds an agent reports
    MayCorrupt,   \* whether a stored tuple may become unreadable
    MaxGen,       \* bound: no generation above this one is opened
    MaxSeq        \* bound: no sequence above this one is allocated

ASSUME SessionAssumption ==
    /\ Feeds \subseteq FeedKind
    /\ Reports \subseteq ReportKind
    /\ MayCorrupt \in BOOLEAN
    /\ MaxGen \in Nat \ {0}
    /\ MaxSeq \in Nat \ {0}

VARIABLE row

\* A row is an observation of a generation that was opened, the first one
\* or one a repair opened.
TypeOK ==
    /\ row \in Row
    /\ row # NoRow => row.gen \in 1..MaxGen /\ row.seq \in 0..MaxSeq

Init == row = NoRow

-----------------------------------------------------------------------------

\* apply_persist: only an applied verdict reaches the ledger, and only past
\* the watermark gate of the upsert.
ApplyPersist(e) ==
    LET verdict == Reduce(row, e) IN
    row' = IF verdict.tag = "applied" THEN Upsert(row, verdict.obs) ELSE row

\* feed_created, which leaves an existing row its own history.
FeedCreated ==
    /\ row = NoRow
    /\ ApplyPersist(PlainEvent("created", NextVersion(row)))

\* apply_at_next for one kind of event.
Feed(kind) ==
    /\ NextVersion(row).seq <= MaxSeq
    /\ kind \in TrackedKind => row # NoRow
    /\ ApplyPersist(PlainEvent(kind, NextVersion(row)))

\* The result of the task: `done` when the handoff is delivered, any result
\* when reconcile finds the tuple still pending.
Settle(outcome) ==
    /\ NextVersion(row).seq <= MaxSeq
    /\ outcome # "done" => row # NoRow /\ row.outcome = "pending"
    /\ ApplyPersist(SettleEvent(row, outcome))

\* apply_report: the frame carries the version the agent counted.
Report(kind, v) == ApplyPersist(PlainEvent(kind, v))

\* repair adopt, once the backend proved the stored generation gone.
Adopt ==
    /\ row # NoRow
    /\ row.gen < MaxGen
    /\ ApplyPersist(AdoptEvent(row))

\* repair rebind, once the old handle does not probe live and the new does.
Rebind ==
    /\ row # NoRow
    /\ row.gen < MaxGen
    /\ row.seq < MaxSeq
    /\ ApplyPersist(RebindEvent(row))

\* The stored tuple became unreadable; every later read rebuilds it.
Corrupt ==
    /\ MayCorrupt
    /\ row # NoRow
    /\ row' = Rebuild(row)

Next ==
    \/ FeedCreated
    \/ \E kind \in Feeds : Feed(kind)
    \/ \E outcome \in Outcome \ {"pending"} : Settle(outcome)
    \/ \E kind \in Reports, g \in 1..MaxGen, s \in 1..MaxSeq :
         Report(kind, [gen |-> g, seq |-> s])
    \/ Adopt
    \/ Rebind
    \/ Corrupt

Spec == Init /\ [][Next]_row

-----------------------------------------------------------------------------
(***************************************************************************)
(* Properties.                                                             *)
(***************************************************************************)

\* Every tuple the ledger ever holds satisfies is_legal with its projection,
\* although one branch of the mismatch ladder returns without that check.
LegalRow == row # NoRow => IsLegal(row)

\* The generation flag and the agent dimension tell the same story: a dead
\* generation is exactly a gone agent, so a terminal tuple always projects
\* `exited` and the reconcile pass may skip it on the projection alone.
DeadIffGone == row # NoRow => (row.live <=> row.agent # "gone")

\* Proof of death can always be recorded: whatever the other dimensions say,
\* the reducer applies AgentGone to a live row (reconcile_dead and repair
\* adopt rely on it to get a lost session out of the open set).
DeathRecordable ==
    row # NoRow /\ row.live =>
      Apply(row, PlainEvent("agent_gone", NextVersion(row))).tag = "applied"

\* The result of a finished task can always be mirrored.  Whatever tuple a
\* session is in, live or dead, the reducer never refuses the body settle
\* builds for `done`, nor the one for `failed` while the result is open: no
\* history of a session leaves it contradicting the task ledger for good.
MirrorAccepted ==
    row # NoRow =>
      \A outcome \in {"done", "failed"} :
        outcome = "done" \/ row.outcome = "pending" =>
          Apply(row, SettleEvent(row, outcome)).tag # "rejected"

\* Even when stored tuples become unreadable and are rebuilt, the watermark
\* never rewinds: an event older than the lost tuple stays stale.
WatermarkNeverRewinds ==
    [][row # NoRow => row' # NoRow /\ ~Newer(row, row')]_row

\* No tuple counts past terminate_after, and one that counted so far is dead.
Ladder(r) ==
    r # NoRow =>
      /\ r.mismatch <= TerminateAfter
      /\ r.mismatch = TerminateAfter => ~r.live

\* No event takes a session off the ladder: no interleaved evidence keeps one
\* running that reached the limit, and none counts past it.  Only the loss of
\* the tuple does, which revives the generation and keeps the count.
LadderTerminates ==
    [][~Corrupt /\ Ladder(row) => Ladder(row')]_row

\* A generation that ended stays ended: only a repair that opens the next
\* generation, or the loss of the tuple, makes the session live again.
DeadStaysDead ==
    [][(~Corrupt /\ row # NoRow /\ ~row.live /\ row'.gen = row.gen)
         => ~row'.live /\ row'.agent = "gone"]_row

\* Within a generation a settled result is final up to the three overrides
\* the code makes: a delivered handoff wins over failed and cancelled, a
\* fault over done, a death over cancelled.  It never becomes pending again,
\* a cancel never relabels it, and a session that projects `exited` is looked
\* at again in one way only: a fault that relabels a delivered result.
SettledStaysSettled ==
    [][(~Corrupt /\ row # NoRow /\ row.outcome # "pending" /\ row'.gen = row.gen)
         => /\ row'.outcome \in {row.outcome, "done", "failed"}
            /\ row.public = "exited" /\ row'.public # "exited"
                 => row.outcome = "done" /\ row'.outcome = "failed"]_row
=============================================================================
