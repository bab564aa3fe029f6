---------------------------- MODULE SessionLedger ----------------------------
(***************************************************************************)
(* The session row under concurrent callers.  The event pumps (one thread  *)
(* per workspace), the reap loop and the IPC connections all feed the same *)
(* row with no lock around a call: apply_at_next reads the row to allocate *)
(* a version, apply_persist reads it again to reduce the event, and the    *)
(* gated upsert writes the result.  Each read and the write is one step    *)
(* here; only a single database statement is atomic (Db.inner is a mutex   *)
(* around the connection).  A crash of the daemon loses every call in      *)
(* flight and keeps the row.                                               *)
(*                                                                         *)
(* A handler is the sequence of feeds it makes; the next feed starts when  *)
(* the one before it returned.                                             *)
(***************************************************************************)
EXTENDS SessionRow, Sequences

CONSTANTS
    Worker,       \* the threads
    Handlers,     \* the handlers that run, a subset of AllHandlers
    Reports,      \* the kinds an agent reports
    MaxGen,       \* bound: no generation above this one is opened
    MaxSeq        \* bound: no sequence above this one is allocated

\* feed_dispatched, on_ready, feed_delivered, reconcile_dead, and the
\* handlers with one feed.
FeedDispatched == <<"created", "resource_attach">>
OnReady == <<"created", "ready">>
FeedDelivered == <<"complete", "intent_receipt", "settle">>
ReconcileDead == <<"fail", "agent_gone">>

\* repair adopt records the death first when the row it read is live.
RepairAdopt == <<"agent_gone", "adopt">>
RepairRebind == <<"rebind">>

AllHandlers ==
    {FeedDispatched, OnReady, FeedDelivered, ReconcileDead, RepairAdopt,
     RepairRebind}
      \cup {<<kind>> : kind \in FeedKind \ {"created", "complete"}}

ASSUME LedgerAssumption ==
    /\ Handlers \subseteq AllHandlers
    /\ Reports \subseteq ReportKind
    /\ MaxGen \in Nat
    /\ MaxSeq \in Nat

VARIABLES
    row,      \* the stored row
    pc,       \* where each worker is: idle, check, allocate, reduce, write
    todo,     \* the feeds its handler has still to make, the current one first
    seen,     \* the row a repair read first
    event,    \* the event of the current call
    result    \* the observation the current call will write

vars == <<row, pc, todo, seen, event, result>>

NoEvent == PlainEvent("created", [gen |-> 0, seq |-> 0])

Init ==
    /\ row = NoRow
    /\ pc = [w \in Worker |-> "idle"]
    /\ todo = [w \in Worker |-> <<>>]
    /\ seen = [w \in Worker |-> NoRow]
    /\ event = [w \in Worker |-> NoEvent]
    /\ result = [w \in Worker |-> Initial]

-----------------------------------------------------------------------------

Idle(w) == pc[w] = "idle"

\* Where a call of this feed begins: feed_created looks for the row first,
\* and the repairs build their version from the row they read already.
Entry(feeds) ==
    IF feeds = <<>> THEN "idle"
    ELSE IF Head(feeds) = "created" THEN "check"
    ELSE "allocate"

\* The feeds left once the current one returned.  feed_delivered receipts
\* only a completion that was applied; adopt gives up unless the death was.
Remaining(feeds, applied) ==
    IF applied THEN Tail(feeds)
    ELSE IF Head(feeds) = "complete" THEN Tail(Tail(feeds))
    ELSE IF feeds = RepairAdopt THEN <<>>
    ELSE Tail(feeds)

\* The registers a worker no longer needs are cleared when a call returns.
Return(w, applied) ==
    LET rest == Remaining(todo[w], applied) IN
    /\ todo' = [todo EXCEPT ![w] = rest]
    /\ pc' = [pc EXCEPT ![w] = Entry(rest)]
    /\ seen' = [seen EXCEPT ![w] = IF rest = <<>> THEN NoRow ELSE @]
    /\ event' = [event EXCEPT ![w] = NoEvent]
    /\ result' = [result EXCEPT ![w] = Initial]

\* The row as the reconcile pass scans it: still open.
Open == row # NoRow /\ row.public # "exited"

\* What a caller read before its first feed.  The pass feeds an open row, the
\* failure only of a row that still owes its result; a repair starts from any
\* row, and a new generation stays within the bound.
MayStart(handler) ==
    /\ handler \in {RepairAdopt, RepairRebind} => row # NoRow /\ row.gen < MaxGen
    /\ handler = ReconcileDead => Open /\ row.outcome = "pending"
    /\ handler = <<"agent_gone">> => Open /\ row.outcome # "pending"
    /\ handler = <<"reconcile_mismatch">> => Open
    /\ handler = <<"reconcile_ok">> =>
         Open /\ (row.mismatch > 0 \/ row.recovery # "none")

Start(w, handler) ==
    /\ Idle(w)
    /\ MayStart(handler)
    /\ LET feeds == IF handler = RepairAdopt /\ ~row.live
                    THEN Tail(handler) ELSE handler IN
         /\ todo' = [todo EXCEPT ![w] = feeds]
         /\ pc' = [pc EXCEPT ![w] = Entry(feeds)]
    /\ seen' = [seen EXCEPT ![w] = IF handler \in {RepairAdopt, RepairRebind}
                                   THEN row ELSE NoRow]
    /\ UNCHANGED <<row, event, result>>

\* feed_created: a row that exists keeps its history.
CheckCreated(w) ==
    /\ pc[w] = "check"
    /\ IF row = NoRow
       THEN /\ pc' = [pc EXCEPT ![w] = "allocate"]
            /\ UNCHANGED <<todo, seen, event, result>>
       ELSE Return(w, FALSE)
    /\ UNCHANGED row

MutEventOf(w) ==
    LET feed == Head(todo[w]) IN
    CASE feed = "settle" -> SettleEvent(row, "done")
      [] feed = "adopt" -> AdoptEvent(seen[w])
      [] feed = "rebind" -> RebindEvent(seen[w])
      [] OTHER -> PlainEvent(feed, [NextVersion(row) EXCEPT !.seq = @ + 1])

\* The event a feed makes of the row its call reads.
EventOf(w) ==
    LET feed == Head(todo[w]) IN
    CASE feed = "settle" -> SettleEvent(row, "done")
      [] feed = "adopt" -> AdoptEvent(seen[w])
      [] feed = "rebind" -> RebindEvent(seen[w])
      [] OTHER -> PlainEvent(feed, NextVersion(row))

\* feed_intent makes nothing of an untracked session.
Untracked(w) == row = NoRow /\ Head(todo[w]) \in IntentKind

\* next_version and the construction of the event: the first read.
Allocate(w) ==
    /\ pc[w] = "allocate"
    /\ IF Untracked(w)
       THEN Return(w, FALSE)
       ELSE /\ EventOf(w).seq <= MaxSeq
            /\ event' = [event EXCEPT ![w] = EventOf(w)]
            /\ pc' = [pc EXCEPT ![w] = "reduce"]
            /\ UNCHANGED <<todo, seen, result>>
    /\ UNCHANGED row

\* apply_report: the version comes with the frame.
ReceiveReport(w, kind, v) ==
    /\ Idle(w)
    /\ todo' = [todo EXCEPT ![w] = <<"report">>]
    /\ event' = [event EXCEPT ![w] = PlainEvent(kind, v)]
    /\ pc' = [pc EXCEPT ![w] = "reduce"]
    /\ UNCHANGED <<row, seen, result>>

\* apply_persist up to the verdict: the second read.
ReduceEvent(w) ==
    LET verdict == Reduce(row, event[w]) IN
    /\ pc[w] = "reduce"
    /\ IF verdict.tag = "applied"
       THEN /\ result' = [result EXCEPT ![w] = verdict.obs]
            /\ pc' = [pc EXCEPT ![w] = "write"]
            /\ UNCHANGED <<todo, seen, event>>
       ELSE Return(w, FALSE)
    /\ UNCHANGED row

\* record_verdict: the upsert, which a newer watermark wins.  A lost write
\* is logged and still counts as applied for the caller.
Write(w) ==
    /\ pc[w] = "write"
    /\ row' = Upsert(row, result[w])
    /\ Return(w, TRUE)

\* The daemon dies and restarts: its calls are gone, the row is not.
Crash ==
    /\ \E w \in Worker : ~Idle(w)
    /\ pc' = [w \in Worker |-> "idle"]
    /\ todo' = [w \in Worker |-> <<>>]
    /\ seen' = [w \in Worker |-> NoRow]
    /\ event' = [w \in Worker |-> NoEvent]
    /\ result' = [w \in Worker |-> Initial]
    /\ UNCHANGED row

Next ==
    \/ \E w \in Worker :
         \/ \E handler \in Handlers : Start(w, handler)
         \/ \E kind \in Reports, g \in 1..MaxGen, s \in 1..MaxSeq :
              ReceiveReport(w, kind, [gen |-> g, seq |-> s])
         \/ CheckCreated(w)
         \/ Allocate(w)
         \/ ReduceEvent(w)
         \/ Write(w)
    \/ Crash

Spec == Init /\ [][Next]_vars

-----------------------------------------------------------------------------
(***************************************************************************)
(* Properties.                                                             *)
(***************************************************************************)

\* Whatever the interleaving, the stored tuple is legal.
LegalRow == row # NoRow => IsLegal(row)

\* The stored watermark only advances, under concurrent writers and crashes:
\* the WHERE clause of the upsert is what makes it so.
WatermarkAdvances ==
    [][row # NoRow /\ row' # row => row' # NoRow /\ Newer(row', row)]_vars

\* A call whose version the daemon allocates itself.
IsFeed(w) == Head(todo[w]) \in FeedKind \cup {"settle"}

\* No lost update between feeds: a result that will pass the gate of the
\* upsert is what the reducer makes of the row it is about to replace, so two
\* feeds that read the same row never both write.  Agent frames and repairs
\* may run at the same time; only their own writes are excluded.
FeedsSerialise ==
    \A w \in Worker :
      pc[w] = "write" /\ IsFeed(w) /\ Newer(result[w], Stored(row))
        => Reduce(row, event[w]) = Applied(result[w])

\* The split calls implement the atomic row: every write is one action of
\* Session, and every other step leaves the row alone.
Atomic == INSTANCE Session WITH Feeds <- FeedKind, MayCorrupt <- FALSE

ImplementsSession == Atomic!Spec

=============================================================================
