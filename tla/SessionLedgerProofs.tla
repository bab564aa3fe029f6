------------------------- MODULE SessionLedgerProofs -------------------------
(***************************************************************************)
(* Theorems of SessionLedger for every set of workers and handlers.  The   *)
(* inductive invariant relates the registers of each call in flight to the *)
(* row it will be written over: what the call read is either still in the  *)
(* row, or the upsert will refuse what came of it.                         *)
(***************************************************************************)
EXTENDS SessionLedger, LifecycleProofs

Position == {"idle", "check", "allocate", "reduce", "write"}

\* What can be left of a handler, and the one call of a frame.
Programs ==
    AllHandlers \cup {<<>>, <<"report">>, <<"settle">>, <<"adopt">>,
                      <<"intent_receipt", "settle">>}

LedgerTypes ==
    /\ row \in Row
    /\ pc \in [Worker -> Position]
    /\ todo \in [Worker -> Programs]
    /\ seen \in [Worker -> Row]
    /\ event \in [Worker -> Event]
    /\ result \in [Worker -> Observation]

\* A row that exists is past the watermark a missing one reduces from.
RowInv == row # NoRow => IsLegal(row) /\ Newer(row, Initial)

\* Where a call is agrees with what it has to do; a repair has a row in hand.
ProgramInv(w) ==
    /\ pc[w] = "idle" <=> todo[w] = <<>>
    /\ pc[w] = "check" => Head(todo[w]) = "created"
    /\ pc[w] = "allocate" => todo[w] # <<"report">>
    /\ todo[w] \in {RepairAdopt, RepairRebind, <<"adopt">>} =>
         seen[w] # NoRow /\ Newer(seen[w], Initial)

KindOf(feed) ==
    CASE feed = "settle" -> "heartbeat"
      [] feed = "adopt" -> "adopt_new_generation"
      [] feed = "rebind" -> "supersede"
      [] OTHER -> feed

\* The event of a call.  A feed allocated it at the version after a row that
\* the ledger has not gone back behind; as long as its version is past the
\* row, that row is the one it was made of.
EventInv(w) ==
    pc[w] \in {"reduce", "write"} =>
      /\ Newer(event[w], Initial)
      /\ Head(todo[w]) # "report" => event[w].kind = KindOf(Head(todo[w]))
      /\ Head(todo[w]) = "report" => event[w].kind \in ReportKind
      /\ Head(todo[w]) = "adopt" => event[w] = AdoptEvent(seen[w])
      /\ Head(todo[w]) = "rebind" => event[w] = RebindEvent(seen[w])
      /\ IsFeed(w) => /\ ~Newer(event[w], NextVersion(row))
                      /\ Newer(event[w], Stored(row)) => event[w] = EventOf(w)

\* The observation a call will write: legal, at the version of its event, and
\* for a feed what the reducer makes of the row it will replace.
ResultInv(w) ==
    pc[w] = "write" =>
      /\ IsLegal(result[w])
      /\ VersionOf(result[w]) = VersionOf(event[w])
      /\ IsFeed(w) /\ Newer(result[w], Stored(row))
           => Reduce(row, event[w]) = Applied(result[w])

CallInv(w) == ProgramInv(w) /\ EventInv(w) /\ ResultInv(w)

LedgerInv == LedgerTypes /\ RowInv /\ \A w \in Worker : CallInv(w)

-----------------------------------------------------------------------------
(***************************************************************************)
(* Programs: what is left of a handler is one of a few short sequences.    *)
(***************************************************************************)

\* The programs with more than one feed, and the others.
LEMMA ProgramCases ==
    ASSUME NEW feeds \in Programs
    PROVE  \/ feeds = <<>>
           \/ feeds = FeedDispatched \/ feeds = OnReady \/ feeds = FeedDelivered
           \/ feeds = ReconcileDead \/ feeds = RepairAdopt
           \/ feeds = <<"intent_receipt", "settle">>
           \/ \E kind \in (FeedKind \ {"created", "complete"})
                            \cup {"report", "settle", "adopt", "rebind"} :
                feeds = <<kind>>
BY DEF Programs, AllHandlers, RepairRebind

\* The feed a program comes to, and what is left of it afterwards.
LEMMA ProgramSteps ==
    ASSUME NEW feeds \in Programs, feeds # <<>>, NEW applied \in BOOLEAN
    PROVE  /\ Head(feeds) \in FeedKind \cup {"settle", "adopt", "rebind", "report"}
           /\ Head(feeds) = "report" => feeds = <<"report">>
           /\ Head(feeds) = "adopt" => feeds = <<"adopt">>
           /\ Head(feeds) = "rebind" => feeds = RepairRebind
           /\ Remaining(feeds, applied) \in Programs
           /\ Remaining(feeds, applied) \notin {<<"report">>, RepairAdopt, RepairRebind}
           /\ Remaining(feeds, applied) = <<"adopt">> => feeds = RepairAdopt
<1>1. CASE feeds = FeedDispatched
  BY <1>1 DEF FeedDispatched, Remaining, RepairAdopt, RepairRebind, Programs, AllHandlers, FeedKind
<1>2. CASE feeds = OnReady
  BY <1>2 DEF OnReady, Remaining, RepairAdopt, RepairRebind, Programs, AllHandlers, FeedKind
<1>3. CASE feeds = FeedDelivered
  BY <1>3 DEF FeedDelivered, Remaining, RepairAdopt, RepairRebind, Programs, AllHandlers, FeedKind
<1>4. CASE feeds = ReconcileDead
  BY <1>4 DEF ReconcileDead, Remaining, RepairAdopt, RepairRebind, Programs, AllHandlers, FeedKind
<1>5. CASE feeds = RepairAdopt
  BY <1>5 DEF Remaining, RepairAdopt, RepairRebind, Programs, AllHandlers, FeedKind
<1>6. CASE feeds = <<"intent_receipt", "settle">>
  BY <1>6 DEF Remaining, RepairAdopt, RepairRebind, Programs, AllHandlers, FeedKind
<1>7. CASE \E kind \in (FeedKind \ {"created", "complete"})
                            \cup {"report", "settle", "adopt", "rebind"} :
                feeds = <<kind>>
  <2>1. PICK kind \in (FeedKind \ {"created", "complete"})
                            \cup {"report", "settle", "adopt", "rebind"} :
                feeds = <<kind>>
    BY <1>7
  <2>2. Head(feeds) = kind /\ Tail(feeds) = <<>>
    BY <2>1
  <2>3. Remaining(feeds, applied) = <<>>
    BY <2>1, <2>2 DEF Remaining, RepairAdopt
  <2> QED BY <2>1, <2>2, <2>3 DEF RepairAdopt, RepairRebind, Programs
<1> QED BY <1>1, <1>2, <1>3, <1>4, <1>5, <1>6, <1>7, ProgramCases

LEMMA HandlerFacts ==
    /\ AllHandlers \subseteq Programs
    /\ <<>> \notin AllHandlers /\ <<"report">> \notin AllHandlers
    /\ <<"adopt">> \notin AllHandlers
    /\ Tail(RepairAdopt) = <<"adopt">>
<1>1. AllHandlers \subseteq Programs
  BY DEF Programs
<1>2. ASSUME NEW handler \in AllHandlers
      PROVE  handler # <<>> /\ handler # <<"report">> /\ handler # <<"adopt">>
  BY DEF AllHandlers, FeedDispatched, OnReady, FeedDelivered, ReconcileDead,
         RepairAdopt, RepairRebind, FeedKind
<1>3. Tail(RepairAdopt) = <<"adopt">>
  BY DEF RepairAdopt
<1> QED BY <1>1, <1>2, <1>3

-----------------------------------------------------------------------------
(***************************************************************************)
(* What a call makes of the row it reads.                                  *)
(***************************************************************************)

\* The row an event is reduced on, and the version a feed allocates after it.
LEMMA ReadRow ==
    ASSUME LedgerTypes, RowInv
    PROVE  /\ row \in Row /\ (row # NoRow => IsLegal(row))
           /\ Stored(row) \in Observation
           /\ Stored(row).gen \in Nat /\ Stored(row).seq \in Nat
           /\ NextVersion(row) \in Version
           /\ NextVersion(row).gen = Stored(row).gen
           /\ NextVersion(row).seq = Stored(row).seq + 1
           /\ Newer(NextVersion(row), Initial)
           /\ Newer(NextVersion(row), Stored(row))
<1>1. row \in Row /\ (row # NoRow => IsLegal(row))
  BY DEF LedgerTypes, RowInv
<1>2. Stored(row) \in Observation
  BY <1>1, StoredLegal
<1>3. Stored(row).gen \in Nat /\ Stored(row).seq \in Nat
  BY <1>2 DEF Observation
<1>4. /\ NextVersion(row) \in Version
      /\ NextVersion(row).gen = Stored(row).gen
      /\ NextVersion(row).seq = Stored(row).seq + 1
  BY <1>1, NextVersionType
<1>5. row = NoRow \/ Newer(Stored(row), Initial)
  BY DEF RowInv, Stored
<1>6. Newer(NextVersion(row), Initial)
  BY <1>3, <1>4, <1>5, InitialLegal DEF Newer, Stored
<1>7. Newer(NextVersion(row), Stored(row))
  BY <1>3, <1>4 DEF Newer
<1> QED BY <1>1, <1>2, <1>3, <1>4, <1>6, <1>7

\* A missing row reduces every event the ledger sees like any other row: only
\* a version past the watermark is applied.
LEMMA AppliedIsNewer ==
    ASSUME LedgerTypes, RowInv, NEW e \in Event, Newer(e, Initial),
           ~IsAdoption(e), Reduce(row, e).tag = "applied"
    PROVE  Newer(e, Stored(row))
<1>1. e.gen \in Nat /\ e.seq \in Nat
  BY DEF Event
<1>2. CASE row = NoRow
  BY <1>2 DEF Stored
<1>3. CASE row # NoRow
  <2>1. Apply(Stored(row), e).tag = "applied"
    BY <1>3 DEF Reduce
  <2>2. e.gen = Stored(row).gen /\ e.seq > Stored(row).seq
    BY <1>1, <2>1, ReadRow, ApplyAdvances
  <2> QED BY <2>2 DEF Newer
<1> QED BY <1>2, <1>3

\* The kinds of a plain event.
LEMMA PlainKinds ==
    /\ FeedKind \subseteq PlainKind /\ ReportKind \subseteq PlainKind
    /\ "adopt_new_generation" \in PlainKind
    /\ "adopt_new_generation" \notin FeedKind \cup ReportKind
    /\ "supersede" \notin FeedKind \cup ReportKind
    /\ "settle" \notin FeedKind /\ "heartbeat" \notin FeedKind
    /\ "report" \notin FeedKind /\ "adopt" \notin FeedKind /\ "rebind" \notin FeedKind
BY DEF FeedKind, ReportKind, PlainKind

\* An event of a plain kind is nothing but its version.
LEMMA PlainShape ==
    ASSUME NEW e \in Event, e.kind \in PlainKind
    PROVE  VersionOf(e) \in Version /\ e = PlainEvent(e.kind, VersionOf(e))
BY DEF Event, PlainKind, PlainEvent, VersionOf, Version

\* What each feed makes of the row.
LEMMA EventCases ==
    ASSUME NEW w
    PROVE  LET feed == Head(todo[w]) IN
           /\ feed = "settle" => EventOf(w) = SettleEvent(row, "done")
           /\ feed = "adopt" => EventOf(w) = AdoptEvent(seen[w])
           /\ feed = "rebind" => EventOf(w) = RebindEvent(seen[w])
           /\ feed \notin {"settle", "adopt", "rebind"} =>
                EventOf(w) = PlainEvent(feed, NextVersion(row))
BY DEF EventOf

\* A call of a worker that is about to reduce or to write.
Called(w) == w \in Worker /\ pc[w] \in {"reduce", "write"}

\* An event of a feed that is applied was made of the row it is applied to.
LEMMA FeedIsFresh ==
    ASSUME LedgerInv, NEW w, Called(w), IsFeed(w),
           Reduce(row, event[w]).tag = "applied"
    PROVE  Newer(event[w], Stored(row)) /\ event[w] = EventOf(w)
<1>1. event[w] \in Event /\ EventInv(w)
  BY DEF LedgerInv, LedgerTypes, CallInv, Called
<1>2. Head(todo[w]) # "report" /\ Newer(event[w], Initial)
  BY <1>1, PlainKinds DEF EventInv, Called, IsFeed
<1>3. event[w].kind = KindOf(Head(todo[w]))
  BY <1>1, <1>2 DEF EventInv, Called
<1>4. ~IsAdoption(event[w])
  BY <1>3, PlainKinds DEF IsAdoption, KindOf, IsFeed
<1>5. Newer(event[w], Stored(row))
  BY <1>1, <1>2, <1>4, AppliedIsNewer DEF LedgerInv
<1> QED BY <1>1, <1>5 DEF EventInv, Called

\* Whatever a call reduces, an applied verdict is a legal observation at the
\* version of the event.
LEMMA CallReduced ==
    ASSUME LedgerInv, NEW w, Called(w), Reduce(row, event[w]).tag = "applied"
    PROVE  LET d == Reduce(row, event[w]) IN
           /\ d = Applied(d.obs)
           /\ d.obs \in Observation /\ IsLegal(d.obs)
           /\ VersionOf(d.obs) = VersionOf(event[w])
<1> DEFINE e == event[w]
           d == Reduce(row, e)
           feed == Head(todo[w])
<1>1. e \in Event /\ EventInv(w) /\ ProgramInv(w) /\ todo[w] \in Programs
  BY DEF LedgerInv, LedgerTypes, CallInv, Called
<1>2. row \in Row /\ (row # NoRow => IsLegal(row)) /\ NextVersion(row) \in Version
  BY ReadRow DEF LedgerInv
<1>3. todo[w] # <<>>
  BY <1>1 DEF ProgramInv, Called
<1>4. feed \in FeedKind \cup {"settle", "adopt", "rebind", "report"}
  BY <1>1, <1>3, ProgramSteps
<1>5. ASSUME Sound(Stored(row), VersionOf(e), d)
      PROVE  /\ d = Applied(d.obs)
             /\ d.obs \in Observation /\ IsLegal(d.obs)
             /\ VersionOf(d.obs) = VersionOf(e)
  BY <1>5 DEF Sound, VersionOf
<1>6. ASSUME NEW kind \in PlainKind, NEW v \in Version, e = PlainEvent(kind, v)
      PROVE  Sound(Stored(row), VersionOf(e), d)
  <2>1. VersionOf(e) = v
    BY <1>6 DEF PlainEvent, VersionOf, Version
  <2> QED BY <1>2, <1>6, <2>1, ReducePlain
<1>7. CASE feed = "settle"
  <2>1. e = SettleEvent(row, "done")
    BY <1>7, FeedIsFresh, EventCases DEF IsFeed
  <2>2. VersionOf(e) = NextVersion(row)
    BY <2>1, <1>2 DEF SettleEvent, VersionOf, Version
  <2>3. "done" \in Outcome
    BY DEF Outcome
  <2> QED BY <1>2, <1>5, <2>1, <2>2, <2>3, ReduceSettle
<1>8. CASE feed \in FeedKind
  <2>1. e = PlainEvent(feed, NextVersion(row))
    BY <1>8, FeedIsFresh, EventCases, PlainKinds DEF IsFeed
  <2> QED BY <1>2, <1>5, <1>6, <1>8, <2>1, PlainKinds
<1>9. CASE feed = "report"
  <2>1. e.kind \in PlainKind
    BY <1>1, <1>9, PlainKinds DEF EventInv, Called
  <2> QED BY <1>1, <1>5, <1>6, <2>1, PlainShape
<1>10. CASE feed = "adopt"
  <2>1. e = AdoptEvent(seen[w])
    BY <1>1, <1>10 DEF EventInv, Called
  <2>2. e.kind \in PlainKind
    BY <2>1, PlainKinds DEF AdoptEvent, PlainEvent
  <2> QED BY <1>1, <1>5, <1>6, <2>2, PlainShape
<1>11. CASE feed = "rebind"
  <2>1. e = RebindEvent(seen[w]) /\ todo[w] = RepairRebind
    BY <1>1, <1>3, <1>11, ProgramSteps DEF EventInv, Called
  <2>2. seen[w] \in Observation
    BY <1>1, <2>1 DEF ProgramInv, LedgerInv, LedgerTypes, Row, Called
  <2> QED BY <1>2, <1>5, <2>1, <2>2, ReduceRebind
<1> QED BY <1>4, <1>7, <1>8, <1>9, <1>10, <1>11

-----------------------------------------------------------------------------
(***************************************************************************)
(* The events a call builds.                                               *)
(***************************************************************************)

LEMMA PlainMade ==
    ASSUME NEW kind \in PlainKind, NEW v \in Version
    PROVE  LET e == PlainEvent(kind, v) IN
           e \in Event /\ e.kind = kind /\ VersionOf(e) = v /\ e.gen = v.gen /\ e.seq = v.seq
BY DEF PlainEvent, Event, VersionOf, Version

LEMMA SettleMade ==
    ASSUME LedgerTypes, RowInv
    PROVE  LET e == SettleEvent(row, "done") IN
           e \in Event /\ e.kind = "heartbeat" /\ VersionOf(e) = NextVersion(row)
<1> DEFINE body == SettleBody(Stored(row), "done")
<1>1. body \in Observation
  BY ReadRow, SettleBodyFields DEF Outcome
<1>2. NextVersion(row).gen \in Nat /\ NextVersion(row).seq \in Nat
      /\ NextVersion(row) \in Version
  BY ReadRow DEF Version
<1>3. SettleEvent(row, "done") =
        [kind |-> "heartbeat", gen |-> NextVersion(row).gen,
         seq |-> NextVersion(row).seq, body |-> body]
  BY Zenon DEF SettleEvent
<1> HIDE DEF body
<1> QED BY <1>1, <1>2, <1>3 DEF Event, VersionOf, Version

LEMMA RepairMade ==
    ASSUME NEW s \in Observation, Newer(s, Initial)
    PROVE  /\ AdoptEvent(s) \in Event /\ AdoptEvent(s).kind = "adopt_new_generation"
           /\ AdoptEvent(s).gen = s.gen + 1 /\ Newer(AdoptEvent(s), Initial)
           /\ RebindEvent(s) \in Event /\ RebindEvent(s).kind = "supersede"
           /\ RebindEvent(s).gen = s.gen + 1 /\ Newer(RebindEvent(s), Initial)
<1>1. s.gen \in Nat /\ s.seq \in Nat /\ s.gen >= 1
  BY InitialLegal DEF Observation, Newer
<1> DEFINE v == [gen |-> s.gen + 1, seq |-> 0]
           x == [gen |-> s.gen + 1, seq |-> s.seq + 1]
           body == Booting(x, "attached", 0)
<1>2. v \in Version /\ x \in Version /\ "attached" \in ResourceState /\ 0 \in Nat
      /\ v.gen = s.gen + 1
  BY <1>1 DEF Version, ResourceState
<1>3. body \in Observation
  BY <1>2, BootingLegal
<1>4. AdoptEvent(s) = PlainEvent("adopt_new_generation", v)
  BY DEF AdoptEvent
<1>5. RebindEvent(s) = [kind |-> "supersede", gen |-> s.gen + 1, seq |-> s.seq + 1,
                        oldDead |-> TRUE, body |-> body]
  BY DEF RebindEvent
<1> HIDE DEF v, body
<1>6. /\ AdoptEvent(s) \in Event /\ AdoptEvent(s).kind = "adopt_new_generation"
      /\ AdoptEvent(s).gen = s.gen + 1
  BY <1>2, <1>4, PlainMade, PlainKinds
<1>7. /\ RebindEvent(s) \in Event /\ RebindEvent(s).kind = "supersede"
      /\ RebindEvent(s).gen = s.gen + 1
  BY <1>1, <1>3, <1>5 DEF Event
<1>8. Newer(AdoptEvent(s), Initial) /\ Newer(RebindEvent(s), Initial)
  BY <1>1, <1>6, <1>7, InitialLegal DEF Newer
<1> QED BY <1>6, <1>7, <1>8

\* The event of a call that allocates its version.
LEMMA AllocatedEvent ==
    ASSUME LedgerInv, NEW w \in Worker, pc[w] = "allocate"
    PROVE  /\ EventOf(w) \in Event
           /\ Newer(EventOf(w), Initial)
           /\ Head(todo[w]) # "report"
           /\ EventOf(w).kind = KindOf(Head(todo[w]))
           /\ IsFeed(w) => VersionOf(EventOf(w)) = NextVersion(row)
<1> DEFINE feed == Head(todo[w])
<1>1. /\ todo[w] \in Programs /\ todo[w] # <<>> /\ todo[w] # <<"report">>
      /\ ProgramInv(w) /\ LedgerTypes /\ RowInv
  BY DEF LedgerInv, LedgerTypes, CallInv, ProgramInv
<1>2. feed \in FeedKind \cup {"settle", "adopt", "rebind"} /\ feed # "report"
  BY <1>1, ProgramSteps
<1>3. NextVersion(row) \in Version /\ Newer(NextVersion(row), Initial)
  BY <1>1, ReadRow
<1>4. CASE feed = "settle"
  <2>1. EventOf(w) = SettleEvent(row, "done")
    BY <1>4, EventCases
  <2>2. EventOf(w).gen = NextVersion(row).gen /\ EventOf(w).seq = NextVersion(row).seq
    BY <2>1 DEF SettleEvent
  <2>3. Newer(EventOf(w), Initial)
    BY <1>3, <2>2 DEF Newer
  <2> QED BY <1>1, <1>2, <1>4, <2>1, <2>3, SettleMade DEF KindOf
<1>5. CASE feed \in FeedKind
  <2>1. EventOf(w) = PlainEvent(feed, NextVersion(row)) /\ feed \in PlainKind
    BY <1>5, EventCases, PlainKinds
  <2>2. /\ EventOf(w) \in Event /\ EventOf(w).kind = feed
        /\ VersionOf(EventOf(w)) = NextVersion(row)
        /\ EventOf(w).gen = NextVersion(row).gen
        /\ EventOf(w).seq = NextVersion(row).seq
    BY <1>3, <2>1, PlainMade
  <2>3. Newer(EventOf(w), Initial)
    BY <1>3, <2>2 DEF Newer
  <2>4. KindOf(feed) = feed
    BY <1>5, PlainKinds DEF KindOf
  <2> QED BY <1>2, <2>2, <2>3, <2>4
<1>6. CASE feed = "adopt" \/ feed = "rebind"
  <2>1. todo[w] = <<"adopt">> \/ todo[w] = RepairRebind
    BY <1>1, <1>6, ProgramSteps
  <2>2. seen[w] \in Observation /\ Newer(seen[w], Initial)
    BY <1>1, <2>1 DEF ProgramInv, LedgerTypes, Row
  <2>3. ~IsFeed(w)
    BY <1>6, PlainKinds DEF IsFeed
  <2> QED BY <1>2, <1>6, <2>2, <2>3, RepairMade, EventCases DEF KindOf
<1> QED BY <1>2, <1>4, <1>5, <1>6

-----------------------------------------------------------------------------
(***************************************************************************)
(* The calls a step leaves alone.                                          *)
(***************************************************************************)

SameCall(u) ==
    /\ pc'[u] = pc[u] /\ todo'[u] = todo[u] /\ seen'[u] = seen[u]
    /\ event'[u] = event[u] /\ result'[u] = result[u]

\* As long as the row is the same, so is what a call owes it.
LEMMA CallKept ==
    ASSUME NEW u, CallInv(u), SameCall(u), row' = row
    PROVE  CallInv(u)'
<1>1. EventOf(u)' = EventOf(u) /\ IsFeed(u)' = IsFeed(u)
  BY DEF EventOf, IsFeed, SameCall
<1>2. ProgramInv(u)'
  BY DEF CallInv, ProgramInv, SameCall
<1>3. EventInv(u)'
  BY <1>1 DEF CallInv, EventInv, SameCall
<1>4. ResultInv(u)'
  BY <1>1 DEF CallInv, ResultInv, SameCall
<1> QED BY <1>2, <1>3, <1>4 DEF CallInv

\* A call that has read the row loses its claim to it once another one wrote.
LEMMA CallOvertaken ==
    ASSUME LedgerTypes, RowInv, NEW u \in Worker, CallInv(u), SameCall(u),
           row' \in Observation, Newer(row', Stored(row))
    PROVE  CallInv(u)'
<1>1. row' # NoRow /\ Stored(row)' = row'
  BY NoRowAssumption DEF Stored
<1>2. /\ event[u] \in Event /\ result[u] \in Observation
      /\ row'.gen \in Nat /\ row'.seq \in Nat
  BY DEF LedgerTypes, Observation
<1>3. /\ event[u].gen \in Nat /\ event[u].seq \in Nat
      /\ result[u].gen \in Nat /\ result[u].seq \in Nat
  BY <1>2 DEF Event, Observation
<1>4. NextVersion(row)'.gen = row'.gen /\ NextVersion(row)'.seq = row'.seq + 1
  BY <1>1 DEF NextVersion
<1>5. IsFeed(u)' = IsFeed(u)
  BY DEF IsFeed, SameCall
<1>6. ProgramInv(u)'
  BY DEF CallInv, ProgramInv, SameCall
<1>7. pc[u] \in {"reduce", "write"} /\ IsFeed(u)
        => /\ ~Newer(event[u], NextVersion(row)')
           /\ ~Newer(event[u], row')
  <2>1. SUFFICES ASSUME pc[u] \in {"reduce", "write"} /\ IsFeed(u)
                 PROVE  /\ ~Newer(event[u], NextVersion(row)')
                        /\ ~Newer(event[u], row')
    OBVIOUS
  <2>2. ~Newer(event[u], NextVersion(row))
    BY <2>1 DEF CallInv, EventInv
  <2> QED BY <1>2, <1>3, <1>4, <2>2, ReadRow DEF Newer
<1>8. EventInv(u)'
  BY <1>1, <1>5, <1>7 DEF CallInv, EventInv, SameCall
<1>9. ResultInv(u)'
  <2>1. SUFFICES ASSUME pc[u] = "write"
                 PROVE  ResultInv(u)'
    BY DEF ResultInv, SameCall
  <2>2. VersionOf(result[u]) = VersionOf(event[u]) /\ IsLegal(result[u])
    BY <2>1 DEF CallInv, ResultInv
  <2>3. result[u].gen = event[u].gen /\ result[u].seq = event[u].seq
    BY <2>2 DEF VersionOf
  <2>4. IsFeed(u) => ~Newer(result[u], row')
    BY <1>7, <2>1, <2>3 DEF Newer
  <2> QED BY <1>1, <1>5, <2>2, <2>4 DEF ResultInv, SameCall
<1> QED BY <1>6, <1>8, <1>9 DEF CallInv

-----------------------------------------------------------------------------
(***************************************************************************)
(* The steps of one worker.                                                *)
(***************************************************************************)

\* A step of w leaves the calls of the others alone.
OthersSame(w) == \A u \in Worker \ {w} : SameCall(u)

\* The invariant follows from what the step does to its own call, when it does
\* not touch the row.
LEMMA OwnStep ==
    ASSUME LedgerInv, NEW w \in Worker, OthersSame(w), row' = row,
           LedgerTypes', CallInv(w)'
    PROVE  LedgerInv'
<1>1. RowInv'
  BY DEF LedgerInv, RowInv
<1>2. ASSUME NEW u \in Worker PROVE CallInv(u)'
  BY CallKept DEF LedgerInv, OthersSame
<1> QED BY <1>1, <1>2 DEF LedgerInv

\* Where a call of a program begins.
LEMMA EntryPosition ==
    ASSUME NEW feeds
    PROVE  /\ Entry(feeds) \in {"idle", "check", "allocate"}
           /\ Entry(feeds) = "idle" <=> feeds = <<>>
           /\ Entry(feeds) = "check" => Head(feeds) = "created"
BY DEF Entry

\* A call that returns leaves its worker with the rest of the handler.
LEMMA ReturnedCall ==
    ASSUME LedgerInv, NEW w \in Worker, todo[w] # <<>>, NEW applied \in BOOLEAN,
           Return(w, applied), row' \in Row
    PROVE  LedgerTypes' /\ CallInv(w)' /\ OthersSame(w)
<1> DEFINE rest == Remaining(todo[w], applied)
<1>1. LedgerTypes /\ ProgramInv(w) /\ todo[w] \in Programs
  BY DEF LedgerInv, LedgerTypes, CallInv
<1>2. /\ rest \in Programs /\ rest \notin {<<"report">>, RepairAdopt, RepairRebind}
      /\ rest = <<"adopt">> => todo[w] = RepairAdopt
  BY <1>1, ProgramSteps
<1>3. /\ todo' = [todo EXCEPT ![w] = rest]
      /\ pc' = [pc EXCEPT ![w] = Entry(rest)]
      /\ seen' = [seen EXCEPT ![w] = IF rest = <<>> THEN NoRow ELSE seen[w]]
      /\ event' = [event EXCEPT ![w] = NoEvent]
      /\ result' = [result EXCEPT ![w] = Initial]
  BY Zenon DEF Return
<1>4. NoEvent \in Event
  BY PlainMade, PlainKinds DEF NoEvent, PlainEvent, Event, PlainKind
<1> HIDE DEF rest
<1>5. LedgerTypes'
  BY <1>1, <1>2, <1>3, <1>4, EntryPosition, InitialLegal DEF LedgerTypes, Position, Row
<1>6. OthersSame(w)
  BY <1>1, <1>3 DEF OthersSame, SameCall, LedgerTypes
<1>7. /\ pc'[w] = Entry(rest) /\ todo'[w] = rest
      /\ seen'[w] = IF rest = <<>> THEN NoRow ELSE seen[w]
  BY <1>1, <1>3 DEF LedgerTypes
<1>8. rest = <<"adopt">> => seen'[w] # NoRow /\ Newer(seen'[w], Initial)
  BY <1>1, <1>2, <1>7 DEF ProgramInv
<1>9. ProgramInv(w)'
  BY <1>2, <1>7, <1>8, EntryPosition DEF ProgramInv
<1>10. EventInv(w)' /\ ResultInv(w)'
  BY <1>7, EntryPosition DEF EventInv, ResultInv
<1> QED BY <1>5, <1>6, <1>9, <1>10 DEF CallInv

LEMMA StartStep ==
    ASSUME LedgerInv, NEW w \in Worker, NEW handler \in Handlers, Start(w, handler)
    PROVE  LedgerInv'
<1> DEFINE feeds == IF handler = RepairAdopt /\ ~row.live
                    THEN Tail(handler) ELSE handler
           read == IF handler \in {RepairAdopt, RepairRebind} THEN row ELSE NoRow
<1>1. LedgerTypes /\ RowInv
  BY DEF LedgerInv
<1>2. /\ todo' = [todo EXCEPT ![w] = feeds]
      /\ pc' = [pc EXCEPT ![w] = Entry(feeds)]
      /\ seen' = [seen EXCEPT ![w] = read]
      /\ UNCHANGED <<row, event, result>> /\ MayStart(handler)
  BY Zenon DEF Start
<1>3. handler \in Programs /\ handler # <<>> /\ handler # <<"report">>
  BY LedgerAssumption, HandlerFacts
<1>4. /\ feeds \in Programs /\ feeds # <<>> /\ feeds # <<"report">>
      /\ feeds \in {RepairAdopt, RepairRebind, <<"adopt">>}
           => handler \in {RepairAdopt, RepairRebind}
  BY <1>3, LedgerAssumption, HandlerFacts DEF Programs
<1>5. /\ read \in Row
      /\ handler \in {RepairAdopt, RepairRebind} => read # NoRow /\ Newer(read, Initial)
  BY <1>1, <1>2 DEF MayStart, RowInv, LedgerTypes, Row
<1> HIDE DEF feeds, read
<1>6. LedgerTypes'
  BY <1>1, <1>2, <1>4, <1>5, EntryPosition DEF LedgerTypes, Position
<1>7. OthersSame(w)
  BY <1>1, <1>2 DEF OthersSame, SameCall, LedgerTypes
<1>8. pc'[w] = Entry(feeds) /\ todo'[w] = feeds /\ seen'[w] = read
  BY <1>1, <1>2 DEF LedgerTypes
<1>9. ProgramInv(w)'
  BY <1>4, <1>5, <1>8, EntryPosition DEF ProgramInv
<1>10. EventInv(w)' /\ ResultInv(w)'
  BY <1>8, EntryPosition DEF EventInv, ResultInv
<1> QED BY <1>2, <1>6, <1>7, <1>9, <1>10, OwnStep DEF CallInv

LEMMA ReportStep ==
    ASSUME LedgerInv, NEW w \in Worker, NEW kind \in Reports,
           NEW g \in 1..MaxGen, NEW s \in 1..MaxSeq,
           ReceiveReport(w, kind, [gen |-> g, seq |-> s])
    PROVE  LedgerInv'
<1> DEFINE v == [gen |-> g, seq |-> s]
           e == PlainEvent(kind, v)
<1>1. LedgerTypes
  BY DEF LedgerInv
<1>2. /\ todo' = [todo EXCEPT ![w] = <<"report">>]
      /\ event' = [event EXCEPT ![w] = e]
      /\ pc' = [pc EXCEPT ![w] = "reduce"]
      /\ UNCHANGED <<row, seen, result>>
  BY DEF ReceiveReport
<1>3. v \in Version /\ v.gen = g /\ v.seq = s
  BY LedgerAssumption DEF Version
<1>4. kind \in ReportKind /\ kind \in PlainKind
  BY LedgerAssumption, PlainKinds
<1> HIDE DEF v
<1>5. e \in Event /\ e.kind = kind /\ e.gen = g /\ e.seq = s
  BY <1>3, <1>4, PlainMade
<1> HIDE DEF e
<1>6. Newer(e, Initial)
  BY <1>5, LedgerAssumption, InitialLegal DEF Newer
<1>7. LedgerTypes'
  BY <1>1, <1>2, <1>5 DEF LedgerTypes, Position, Programs
<1>8. OthersSame(w)
  BY <1>1, <1>2 DEF OthersSame, SameCall, LedgerTypes
<1>9. pc'[w] = "reduce" /\ todo'[w] = <<"report">> /\ event'[w] = e
  BY <1>1, <1>2 DEF LedgerTypes
<1>10. Head(todo'[w]) = "report" /\ todo'[w] # <<>> /\ ~IsFeed(w)'
       /\ todo'[w] \notin {RepairAdopt, RepairRebind, <<"adopt">>}
  BY <1>9, PlainKinds DEF IsFeed, RepairAdopt, RepairRebind
<1>11. ProgramInv(w)'
  BY <1>9, <1>10 DEF ProgramInv
<1>12. EventInv(w)'
  BY <1>4, <1>5, <1>6, <1>9, <1>10 DEF EventInv
<1>13. ResultInv(w)'
  BY <1>9 DEF ResultInv
<1> QED BY <1>2, <1>7, <1>8, <1>11, <1>12, <1>13, OwnStep DEF CallInv

LEMMA CheckStep ==
    ASSUME LedgerInv, NEW w \in Worker, CheckCreated(w)
    PROVE  LedgerInv'
<1>1. LedgerTypes /\ ProgramInv(w) /\ pc[w] = "check" /\ row' = row
  BY DEF LedgerInv, CallInv, CheckCreated
<1>2. todo[w] # <<>> /\ Head(todo[w]) = "created"
  BY <1>1 DEF ProgramInv
<1>3. CASE row = NoRow
  <2>1. pc' = [pc EXCEPT ![w] = "allocate"] /\ UNCHANGED <<todo, seen, event, result>>
    BY <1>3 DEF CheckCreated
  <2>2. LedgerTypes' /\ OthersSame(w) /\ pc'[w] = "allocate"
    BY <1>1, <2>1 DEF LedgerTypes, Position, OthersSame, SameCall
  <2>3. todo[w] # <<"report">>
    BY <1>2
  <2>4. CallInv(w)'
    BY <1>1, <1>2, <2>1, <2>2, <2>3 DEF CallInv, ProgramInv, EventInv, ResultInv
  <2> QED BY <1>1, <2>2, <2>4, OwnStep
<1>4. CASE row # NoRow
  <2>1. Return(w, FALSE)
    BY <1>4 DEF CheckCreated
  <2>2. row' \in Row
    BY <1>1 DEF LedgerTypes
  <2> QED BY <1>1, <1>2, <2>1, <2>2, ReturnedCall, OwnStep
<1> QED BY <1>3, <1>4

LEMMA AllocateStep ==
    ASSUME LedgerInv, NEW w \in Worker, Allocate(w)
    PROVE  LedgerInv'
<1>1. /\ LedgerTypes /\ RowInv /\ ProgramInv(w)
      /\ pc[w] = "allocate" /\ row' = row /\ row' \in Row
  BY DEF LedgerInv, LedgerTypes, CallInv, Allocate
<1>2. todo[w] # <<>>
  BY <1>1 DEF ProgramInv
<1>3. CASE Untracked(w)
  <2>1. Return(w, FALSE)
    BY <1>3 DEF Allocate
  <2> QED BY <1>1, <1>2, <2>1, ReturnedCall, OwnStep
<1>4. CASE ~Untracked(w)
  <2>1. /\ event' = [event EXCEPT ![w] = EventOf(w)]
        /\ pc' = [pc EXCEPT ![w] = "reduce"]
        /\ UNCHANGED <<todo, seen, result>>
    BY <1>4 DEF Allocate
  <2>2. /\ EventOf(w) \in Event /\ Newer(EventOf(w), Initial)
        /\ Head(todo[w]) # "report"
        /\ EventOf(w).kind = KindOf(Head(todo[w]))
        /\ IsFeed(w) => VersionOf(EventOf(w)) = NextVersion(row)
    BY <1>1, AllocatedEvent
  <2>3. LedgerTypes'
    BY <1>1, <2>1, <2>2 DEF LedgerTypes, Position
  <2>4. OthersSame(w)
    BY <1>1, <2>1 DEF OthersSame, SameCall, LedgerTypes
  <2>5. pc'[w] = "reduce" /\ event'[w] = EventOf(w) /\ todo'[w] = todo[w]
        /\ seen'[w] = seen[w]
    BY <1>1, <2>1 DEF LedgerTypes
  <2>6. IsFeed(w)' = IsFeed(w) /\ EventOf(w)' = EventOf(w)
    BY <1>1, <2>5 DEF IsFeed, EventOf
  <2>7. IsFeed(w) => ~Newer(EventOf(w), NextVersion(row))
    <3>1. SUFFICES ASSUME IsFeed(w) PROVE ~Newer(EventOf(w), NextVersion(row))
      OBVIOUS
    <3>2. EventOf(w).gen = NextVersion(row).gen /\ EventOf(w).seq = NextVersion(row).seq
      BY <2>2, <3>1 DEF VersionOf
    <3> QED BY <1>1, <3>2, ReadRow DEF Newer
  <2>8. ProgramInv(w)'
    BY <1>1, <1>2, <2>5 DEF ProgramInv
  <2>9. EventInv(w)'
    <3>1. Head(todo[w]) = "adopt" => EventOf(w) = AdoptEvent(seen[w])
      BY EventCases
    <3>2. Head(todo[w]) = "rebind" => EventOf(w) = RebindEvent(seen[w])
      BY EventCases
    <3> QED BY <1>1, <2>2, <2>5, <2>6, <2>7, <3>1, <3>2 DEF EventInv
  <2>10. ResultInv(w)'
    BY <2>5 DEF ResultInv
  <2> QED BY <1>1, <2>3, <2>4, <2>8, <2>9, <2>10, OwnStep DEF CallInv
<1> QED BY <1>3, <1>4

LEMMA ReduceStep ==
    ASSUME LedgerInv, NEW w \in Worker, ReduceEvent(w)
    PROVE  LedgerInv'
<1> DEFINE d == Reduce(row, event[w])
<1>1. /\ LedgerTypes /\ CallInv(w)
      /\ pc[w] = "reduce" /\ row' = row /\ row' \in Row
  BY DEF LedgerInv, LedgerTypes, ReduceEvent
<1>2. todo[w] # <<>>
  BY <1>1 DEF CallInv, ProgramInv
<1>3. CASE d.tag = "applied"
  <2>1. /\ result' = [result EXCEPT ![w] = d.obs]
        /\ pc' = [pc EXCEPT ![w] = "write"]
        /\ UNCHANGED <<todo, seen, event>>
    BY <1>3 DEF ReduceEvent
  <2>2. /\ d = Applied(d.obs) /\ d.obs \in Observation /\ IsLegal(d.obs)
        /\ VersionOf(d.obs) = VersionOf(event[w])
    BY <1>1, <1>3, CallReduced DEF Called
  <2>3. LedgerTypes'
    BY <1>1, <2>1, <2>2 DEF LedgerTypes, Position
  <2>4. OthersSame(w)
    BY <1>1, <2>1 DEF OthersSame, SameCall, LedgerTypes
  <2>5. /\ pc'[w] = "write" /\ result'[w] = d.obs /\ todo'[w] = todo[w]
        /\ seen'[w] = seen[w] /\ event'[w] = event[w]
    BY <1>1, <2>1 DEF LedgerTypes
  <2>6. IsFeed(w)' = IsFeed(w) /\ EventOf(w)' = EventOf(w)
    BY <1>1, <2>5 DEF IsFeed, EventOf
  <2>7. ProgramInv(w)'
    BY <1>1, <1>2, <2>5 DEF CallInv, ProgramInv
  <2>8. EventInv(w)'
    BY <1>1, <2>5, <2>6 DEF CallInv, EventInv
  <2>9. ResultInv(w)'
    <3> HIDE DEF d
    <3>1. Reduce(row, event[w])' = d
      BY <1>1, <2>5 DEF d
    <3> QED BY <2>2, <2>5, <3>1 DEF ResultInv
  <2> QED BY <1>1, <2>3, <2>4, <2>7, <2>8, <2>9, OwnStep DEF CallInv
<1>4. CASE d.tag # "applied"
  <2>1. Return(w, FALSE)
    BY <1>4 DEF ReduceEvent
  <2> QED BY <1>1, <1>2, <2>1, ReturnedCall, OwnStep
<1> QED BY <1>3, <1>4

\* What a write does to the row: nothing, or a legal observation past it.
LEMMA WriteAdvances ==
    ASSUME LedgerInv, NEW w \in Worker, Write(w)
    PROVE  \/ row' = row
           \/ /\ row' = result[w] /\ row' \in Observation /\ IsLegal(row')
              /\ Newer(row', Stored(row)) /\ Newer(row', Initial)
<1>1. /\ LedgerTypes /\ RowInv /\ EventInv(w) /\ ResultInv(w)
      /\ pc[w] = "write" /\ row' = Upsert(row, result[w])
      /\ result[w] \in Observation
  BY DEF LedgerInv, LedgerTypes, CallInv, Write
<1>2. IsLegal(result[w]) /\ Newer(event[w], Initial)
      /\ result[w].gen = event[w].gen /\ result[w].seq = event[w].seq
  BY <1>1 DEF EventInv, ResultInv, VersionOf
<1>3. Newer(result[w], Initial)
  BY <1>2 DEF Newer
<1> QED BY <1>1, <1>2, <1>3 DEF Upsert, Stored

LEMMA WriteStep ==
    ASSUME LedgerInv, NEW w \in Worker, Write(w)
    PROVE  LedgerInv'
<1>1. LedgerTypes /\ RowInv /\ pc[w] = "write" /\ Return(w, TRUE) /\ CallInv(w)
  BY DEF LedgerInv, Write
<1>2. todo[w] # <<>>
  BY <1>1 DEF CallInv, ProgramInv
<1>3. row' \in Row /\ RowInv'
  BY <1>1, WriteAdvances DEF LedgerTypes, RowInv, Row
<1>4. LedgerTypes' /\ CallInv(w)' /\ OthersSame(w)
  BY <1>1, <1>2, <1>3, ReturnedCall
<1>5. ASSUME NEW u \in Worker \ {w} PROVE CallInv(u)'
  BY <1>1, <1>4, WriteAdvances, CallKept, CallOvertaken DEF LedgerInv, OthersSame
<1> QED BY <1>3, <1>4, <1>5 DEF LedgerInv

\* Registers of workers that have nothing to do.
LEMMA IdleCalls ==
    /\ NoEvent \in Event /\ Initial \in Observation /\ <<>> \in Programs
    /\ NoRow \in Row /\ "idle" \in Position
    /\ <<>> \notin {RepairAdopt, RepairRebind, <<"adopt">>}
<1>1. NoEvent \in Event
  BY DEF NoEvent, PlainEvent, Event, PlainKind
<1>2. <<>> \notin {RepairAdopt, RepairRebind, <<"adopt">>}
  BY DEF RepairAdopt, RepairRebind
<1> QED BY <1>1, <1>2, InitialLegal DEF Programs, Row, Position

LEMMA CrashStep ==
    ASSUME LedgerInv, Crash
    PROVE  LedgerInv'
<1>1. /\ pc' = [w \in Worker |-> "idle"] /\ todo' = [w \in Worker |-> <<>>]
      /\ seen' = [w \in Worker |-> NoRow] /\ event' = [w \in Worker |-> NoEvent]
      /\ result' = [w \in Worker |-> Initial] /\ row' = row
  BY DEF Crash
<1>2. LedgerTypes'
  BY <1>1, IdleCalls DEF LedgerInv, LedgerTypes
<1>3. ASSUME NEW w \in Worker PROVE CallInv(w)'
  <2>1. pc'[w] = "idle" /\ todo'[w] = <<>>
    BY <1>1
  <2> QED BY <2>1, IdleCalls DEF CallInv, ProgramInv, EventInv, ResultInv
<1>4. RowInv'
  BY <1>1 DEF LedgerInv, RowInv
<1> QED BY <1>2, <1>3, <1>4 DEF LedgerInv

-----------------------------------------------------------------------------
(***************************************************************************)
(* The theorems.                                                           *)
(***************************************************************************)

LEMMA InitLedger == Init => LedgerInv
<1> SUFFICES ASSUME Init PROVE LedgerInv
  OBVIOUS
<1>1. LedgerTypes
  BY IdleCalls DEF Init, LedgerTypes
<1>2. ASSUME NEW w \in Worker PROVE CallInv(w)
  BY IdleCalls DEF Init, CallInv, ProgramInv, EventInv, ResultInv
<1>3. RowInv
  BY DEF Init, RowInv
<1> QED BY <1>1, <1>2, <1>3 DEF LedgerInv

\* The calls of the workers never lose track of what they read, whatever the
\* interleaving, the repairs, the frames of agents and the crashes.
THEOREM CallsTrackTheRow == Spec => []LedgerInv
<1>1. LedgerInv /\ [Next]_vars => LedgerInv'
  <2> SUFFICES ASSUME LedgerInv, [Next]_vars PROVE LedgerInv'
    OBVIOUS
  <2>1. ASSUME NEW w \in Worker, NEW handler \in Handlers, Start(w, handler)
        PROVE  LedgerInv'
    BY <2>1, StartStep
  <2>2. ASSUME NEW w \in Worker, NEW kind \in Reports,
               NEW g \in 1..MaxGen, NEW s \in 1..MaxSeq,
               ReceiveReport(w, kind, [gen |-> g, seq |-> s])
        PROVE  LedgerInv'
    BY <2>2, ReportStep
  <2>3. ASSUME NEW w \in Worker,
               CheckCreated(w) \/ Allocate(w) \/ ReduceEvent(w) \/ Write(w)
        PROVE  LedgerInv'
    BY <2>3, CheckStep, AllocateStep, ReduceStep, WriteStep
  <2>4. CASE Crash
    BY <2>4, CrashStep
  <2>5. CASE UNCHANGED vars
    <3>1. \A u : SameCall(u)
      BY <2>5 DEF vars, SameCall
    <3>2. LedgerTypes' /\ RowInv'
      BY <2>5 DEF vars, LedgerInv, LedgerTypes, RowInv
    <3>3. ASSUME NEW u \in Worker PROVE CallInv(u)'
      BY <2>5, <3>1, CallKept DEF vars, LedgerInv
    <3> QED BY <3>2, <3>3 DEF LedgerInv
  <2> QED BY <2>1, <2>2, <2>3, <2>4, <2>5 DEF Next
<1> QED BY <1>1, InitLedger, PTL DEF Spec

\* Two feeds that read the same row never both write: what passes the gate of
\* the upsert is what the reducer makes of the row it replaces.
THEOREM NoLostUpdate == Spec => []FeedsSerialise
<1>1. LedgerInv => FeedsSerialise
  BY DEF LedgerInv, CallInv, ResultInv, FeedsSerialise
<1> QED BY <1>1, CallsTrackTheRow, PTL

\* Every tuple the concurrent calls leave in the ledger is legal.
THEOREM ConcurrentRowIsLegal == Spec => []LegalRow
<1>1. LedgerInv => LegalRow
  BY DEF LedgerInv, RowInv, LegalRow
<1> QED BY <1>1, CallsTrackTheRow, PTL

\* Only a write touches the row.
LEMMA OnlyWritesMove ==
    ASSUME Next, row' # row
    PROVE  \E w \in Worker : Write(w)
BY DEF Next, Start, ReceiveReport, CheckCreated, Allocate, ReduceEvent, Crash

\* The stored watermark only advances, whoever writes.
THEOREM WatermarkOnlyAdvances == Spec => WatermarkAdvances
<1>1. LedgerInv /\ [Next]_vars
        => [row # NoRow /\ row' # row => row' # NoRow /\ Newer(row', row)]_vars
  <2> SUFFICES ASSUME LedgerInv, Next, row # NoRow, row' # row
               PROVE  row' # NoRow /\ Newer(row', row)
    OBVIOUS
  <2>1. PICK w \in Worker : Write(w)
    BY OnlyWritesMove
  <2> QED BY <2>1, WriteAdvances, NoRowAssumption DEF Stored
<1> QED BY <1>1, CallsTrackTheRow, PTL DEF Spec, WatermarkAdvances

-----------------------------------------------------------------------------
(***************************************************************************)
(* Refinement.  Session instantiated over the same row has operators of    *)
(* its own: they are those of SessionRow.                                  *)
(***************************************************************************)

LEMMA SameObservations ==
    /\ \A o : Atomic!WithPublic(o) = WithPublic(o)
    /\ \A o : Atomic!IsLegal(o) = IsLegal(o)
    /\ \A o, p : Atomic!SameTuple(o, p) = SameTuple(o, p)
    /\ \A o, v : Atomic!At(o, v) = At(o, v)
    /\ \A v, resource, mismatch :
         Atomic!Booting(v, resource, mismatch) = Booting(v, resource, mismatch)
    /\ Atomic!Initial = Initial
    /\ \A e : Atomic!VersionOf(e) = VersionOf(e)
    /\ \A x, y : Atomic!Newer(x, y) = Newer(x, y)
<1>1. \A a, d, r, o : Atomic!Project(a, d, r, o) = Project(a, d, r, o)
  BY DEF Atomic!Project, Project
<1>2. \A o : Atomic!WithPublic(o) = WithPublic(o)
  BY <1>1 DEF Atomic!WithPublic, WithPublic
<1>3. \A o : Atomic!IsLegal(o) = IsLegal(o)
  BY <1>1 DEF Atomic!IsLegal, IsLegal
<1>4. \A v, resource, mismatch :
         Atomic!Booting(v, resource, mismatch) = Booting(v, resource, mismatch)
  BY <1>2 DEF Atomic!Booting, Booting
<1>5. Atomic!Initial = Initial
  BY <1>4 DEF Atomic!Initial, Initial
<1>6. /\ \A o, p : Atomic!SameTuple(o, p) = SameTuple(o, p)
      /\ \A o, v : Atomic!At(o, v) = At(o, v)
      /\ \A e : Atomic!VersionOf(e) = VersionOf(e)
      /\ \A x, y : Atomic!Newer(x, y) = Newer(x, y)
  BY Zenon DEF Atomic!SameTuple, SameTuple, Atomic!At, At, Atomic!VersionOf, VersionOf,
         Atomic!Newer, Newer
<1> QED BY <1>2, <1>3, <1>4, <1>5, <1>6

LEMMA SameFinish ==
    /\ \A o : Atomic!Applied(o) = Applied(o)
    /\ \A o : Atomic!Ignored(o) = Ignored(o)
    /\ \A o : Atomic!Rejected(o) = Rejected(o)
    /\ \A o, n : Atomic!Finish(o, n) = Finish(o, n)
<1>1. /\ \A o : Atomic!Applied(o) = Applied(o)
      /\ \A o : Atomic!Ignored(o) = Ignored(o)
      /\ \A o : Atomic!Rejected(o) = Rejected(o)
  BY DEF Atomic!Applied, Applied, Atomic!Ignored, Ignored, Atomic!Rejected, Rejected
<1>2. \A o, n : Atomic!Finish(o, n) = Finish(o, n)
  BY <1>1, SameObservations DEF Atomic!Finish, Finish
<1> QED BY <1>1, <1>2

\* Every rule of the reducer.
LEMMA SameRules ==
    ASSUME NEW o, NEW v, NEW body, NEW agent
    PROVE  /\ Atomic!Step(o, v, agent) = Step(o, v, agent)
           /\ Atomic!Heartbeat(o, v, body) = Heartbeat(o, v, body)
           /\ Atomic!Complete(o, v) = Complete(o, v)
           /\ Atomic!IntentPending(o, v) = IntentPending(o, v)
           /\ Atomic!IntentRetry(o, v) = IntentRetry(o, v)
           /\ Atomic!IntentReceipt(o, v) = IntentReceipt(o, v)
           /\ Atomic!IntentExhausted(o, v) = IntentExhausted(o, v)
           /\ Atomic!ResourceAttach(o, v) = ResourceAttach(o, v)
           /\ Atomic!ResourceCloseRequested(o, v) = ResourceCloseRequested(o, v)
           /\ Atomic!ResourceClosed(o, v) = ResourceClosed(o, v)
           /\ Atomic!AgentGone(o, v) = AgentGone(o, v)
           /\ Atomic!Cancel(o, v) = Cancel(o, v)
           /\ Atomic!Fail(o, v) = Fail(o, v)
           /\ Atomic!ReconcileMismatch(o, v) = ReconcileMismatch(o, v)
           /\ Atomic!ReconcileOk(o, v) = ReconcileOk(o, v)
           /\ Atomic!AdoptNewGeneration(o, v) = AdoptNewGeneration(o, v)
           /\ Atomic!Supersede(o, v, body) = Supersede(o, v, body)
<1>0. /\ Atomic!At(o, v) = At(o, v) /\ Atomic!Ignored(o) = Ignored(o)
      /\ Atomic!Rejected(o) = Rejected(o)
      /\ \A n : Atomic!Applied(n) = Applied(n)
      /\ \A n : Atomic!Finish(o, n) = Finish(o, n)
  BY SameObservations, SameFinish
<1>1. Atomic!Step(o, v, agent) = Step(o, v, agent)
  <2>1. Atomic!Transition(o, agent) = Transition(o, agent)
    BY DEF Atomic!Transition, Transition, Atomic!TurnEndRecovery, TurnEndRecovery
  <2>2. Atomic!TransitionDefined(o, agent) = TransitionDefined(o, agent)
    BY DEF Atomic!TransitionDefined, TransitionDefined
  <2>3. \A p : Atomic!At(p, v) = At(p, v)
    BY SameObservations
  <2> QED BY <1>0, <2>1, <2>2, <2>3 DEF Atomic!Step, Step
<1>2. Atomic!Heartbeat(o, v, body) = Heartbeat(o, v, body)
  BY <1>0, SameObservations, SameFinish DEF Atomic!Heartbeat, Heartbeat
<1>3. Atomic!Complete(o, v) = Complete(o, v)
  BY <1>0 DEF Atomic!Complete, Complete
<1>4. Atomic!IntentPending(o, v) = IntentPending(o, v)
  BY <1>0 DEF Atomic!IntentPending, IntentPending
<1>5. Atomic!IntentRetry(o, v) = IntentRetry(o, v)
  BY <1>0 DEF Atomic!IntentRetry, IntentRetry
<1>6. Atomic!IntentReceipt(o, v) = IntentReceipt(o, v)
  BY <1>0 DEF Atomic!IntentReceipt, IntentReceipt
<1>7. Atomic!IntentExhausted(o, v) = IntentExhausted(o, v)
  BY <1>0 DEF Atomic!IntentExhausted, IntentExhausted
<1>8. Atomic!ResourceAttach(o, v) = ResourceAttach(o, v)
  BY <1>0, SameObservations, SameFinish DEF Atomic!ResourceAttach, ResourceAttach
<1>9. Atomic!ResourceCloseRequested(o, v) = ResourceCloseRequested(o, v)
  BY <1>0 DEF Atomic!ResourceCloseRequested, ResourceCloseRequested
<1>10. Atomic!ResourceClosed(o, v) = ResourceClosed(o, v)
  BY <1>0 DEF Atomic!ResourceClosed, ResourceClosed
<1>11. \A r : Atomic!Dying(r) = Dying(r)
  BY <1>0 DEF Atomic!Dying, Dying
<1>12. Atomic!AgentGone(o, v) = AgentGone(o, v)
  BY <1>0, <1>11 DEF Atomic!AgentGone, AgentGone
<1>13. Atomic!Cancel(o, v) = Cancel(o, v)
  BY <1>0 DEF Atomic!Cancel, Cancel
<1>14. Atomic!Fail(o, v) = Fail(o, v)
  BY <1>0, SameObservations DEF Atomic!Fail, Fail
<1>15. Atomic!ReconcileMismatch(o, v) = ReconcileMismatch(o, v)
  <2> DEFINE Counted(p) == [p EXCEPT !.mismatch = o.mismatch + 1]
             Delivery(p) == IF Counted(p).delivery = "accepted" THEN "retrying"
                            ELSE Counted(p).delivery
             Recovery(p) == IF o.agent = "idle" THEN "idle_fault"
                            ELSE Counted(p).recovery
             Ended(p, resource) ==
               [Counted(p) EXCEPT !.live = FALSE, !.agent = "gone",
                                  !.recovery = "none", !.outcome = "failed",
                                  !.resource = resource, !.delivery = Delivery(p)]
             Isolated(p) == [Counted(p) EXCEPT !.recovery = Recovery(p)]
  <2>1. ReconcileMismatch(o, v) =
          IF Counted(At(o, v)).mismatch > TerminateAfter THEN Ignored(o)
          ELSE IF Counted(At(o, v)).mismatch = TerminateAfter
          THEN Finish(o, Ended(At(o, v), Dying(o.resource)))
          ELSE IF Counted(At(o, v)).mismatch >= IsolateAfter
          THEN Finish(o, Isolated(At(o, v)))
          ELSE Applied(Counted(At(o, v)))
    BY Zenon DEF ReconcileMismatch
  <2>2. Atomic!ReconcileMismatch(o, v) =
          IF Counted(Atomic!At(o, v)).mismatch > TerminateAfter THEN Atomic!Ignored(o)
          ELSE IF Counted(Atomic!At(o, v)).mismatch = TerminateAfter
          THEN Atomic!Finish(o, Ended(Atomic!At(o, v), Atomic!Dying(o.resource)))
          ELSE IF Counted(Atomic!At(o, v)).mismatch >= IsolateAfter
          THEN Atomic!Finish(o, Isolated(Atomic!At(o, v)))
          ELSE Atomic!Applied(Counted(Atomic!At(o, v)))
    BY Zenon DEF Atomic!ReconcileMismatch
  <2> HIDE DEF Counted, Ended, Isolated
  <2> QED BY <1>0, <1>11, <2>1, <2>2
<1>16. Atomic!ReconcileOk(o, v) = ReconcileOk(o, v)
  BY <1>0, SameObservations DEF Atomic!ReconcileOk, ReconcileOk
<1>17. Atomic!AdoptNewGeneration(o, v) = AdoptNewGeneration(o, v)
  BY <1>0 DEF Atomic!AdoptNewGeneration, AdoptNewGeneration
<1>18. Atomic!Supersede(o, v, body) = Supersede(o, v, body)
  BY <1>0, SameObservations, SameFinish DEF Atomic!Supersede, Supersede
<1> QED BY <1>1, <1>2, <1>3, <1>4, <1>5, <1>6, <1>7, <1>8, <1>9, <1>10,
           <1>12, <1>13, <1>14, <1>15, <1>16, <1>17, <1>18

LEMMA SameReducer ==
    /\ \A r, e : Atomic!Reduce(r, e) = Reduce(r, e)
    /\ \A r, o : Atomic!Upsert(r, o) = Upsert(r, o)
    /\ \A kind, v : Atomic!PlainEvent(kind, v) = PlainEvent(kind, v)
    /\ \A r : Atomic!NextVersion(r) = NextVersion(r)
    /\ \A r, outcome : Atomic!SettleEvent(r, outcome) = SettleEvent(r, outcome)
    /\ Atomic!TrackedKind = TrackedKind
    /\ Atomic!Outcome = Outcome
<1> USE SameObservations, SameFinish
<1>1. \A o, e : Atomic!SemanticRule(o, e) = SemanticRule(o, e)
  <2>1. Atomic!AgentOf = AgentOf
    BY DEF Atomic!AgentOf, AgentOf
  <2> SUFFICES ASSUME NEW o, NEW e
               PROVE  Atomic!SemanticRule(o, e) = SemanticRule(o, e)
    OBVIOUS
  <2>2. Atomic!VersionOf(e) = VersionOf(e)
    OBVIOUS
  <2> QED BY <2>1, <2>2, SameRules, Zenon DEF Atomic!SemanticRule, SemanticRule
<1>2. \A o, e : Atomic!Apply(o, e) = Apply(o, e)
  BY <1>1 DEF Atomic!Apply, Apply, Atomic!IsAdoption, IsAdoption
<1>3. \A r : Atomic!Stored(r) = Stored(r)
  BY DEF Atomic!Stored, Stored
<1>4. \A r, e : Atomic!Reduce(r, e) = Reduce(r, e)
  BY <1>2, <1>3 DEF Atomic!Reduce, Reduce
<1>5. \A r, o : Atomic!Upsert(r, o) = Upsert(r, o)
  BY DEF Atomic!Upsert, Upsert
<1>6. \A kind, v : Atomic!PlainEvent(kind, v) = PlainEvent(kind, v)
  BY DEF Atomic!PlainEvent, PlainEvent
<1>7. \A r : Atomic!NextVersion(r) = NextVersion(r)
  BY <1>3 DEF Atomic!NextVersion, NextVersion
<1>8. \A o, outcome : Atomic!SettleBody(o, outcome) = SettleBody(o, outcome)
  BY DEF Atomic!SettleBody, SettleBody
<1>9. \A r, outcome : Atomic!SettleEvent(r, outcome) = SettleEvent(r, outcome)
  BY <1>3, <1>7, <1>8 DEF Atomic!SettleEvent, SettleEvent
<1>10. Atomic!TrackedKind = TrackedKind /\ Atomic!Outcome = Outcome
  BY DEF Atomic!TrackedKind, TrackedKind, Atomic!IntentKind, IntentKind,
         Atomic!Outcome, Outcome
<1> QED BY <1>4, <1>5, <1>6, <1>7, <1>9, <1>10

-----------------------------------------------------------------------------
(***************************************************************************)
(* Refinement: the feeds.  A frame of an agent and an event of a repair    *)
(* carry versions of their own, so a write of theirs may put back what     *)
(* another call replaced: the feeds alone implement the atomic row.        *)
(***************************************************************************)

FeedsAlone ==
    Reports = {} /\ RepairAdopt \notin Handlers /\ RepairRebind \notin Handlers

\* The reconcile pass feeds only rows it found, an intent only a tracked one.
TrackedInv(w) ==
    /\ todo[w] \notin {<<"report">>, <<"adopt">>, RepairAdopt, RepairRebind}
    /\ todo[w] \in {<<"agent_gone">>, ReconcileDead,
                    <<"reconcile_mismatch">>, <<"reconcile_ok">>} => row # NoRow
    /\ pc[w] \in {"reduce", "write"} =>
         /\ event[w].seq <= MaxSeq
         /\ Head(todo[w]) \in IntentKind => row # NoRow

FeedInv == \A w \in Worker : TrackedInv(w)

\* The programs of the kinds that are fed to a tracked row.
LEMMA TrackedPrograms ==
    ASSUME NEW feeds \in Programs, feeds # <<>>, NEW applied \in BOOLEAN,
           feeds # RepairAdopt
    PROVE  /\ Head(feeds) \in {"agent_gone", "reconcile_mismatch", "reconcile_ok"}
                => feeds \in {<<"agent_gone">>, <<"reconcile_mismatch">>,
                              <<"reconcile_ok">>}
           /\ Remaining(feeds, applied)
                \in {<<"agent_gone">>, ReconcileDead,
                     <<"reconcile_mismatch">>, <<"reconcile_ok">>}
                => feeds = ReconcileDead
<1>1. CASE feeds = FeedDispatched
  BY <1>1 DEF FeedDispatched, Remaining, RepairAdopt, ReconcileDead
<1>2. CASE feeds = OnReady
  BY <1>2 DEF OnReady, Remaining, RepairAdopt, ReconcileDead
<1>3. CASE feeds = FeedDelivered
  BY <1>3 DEF FeedDelivered, Remaining, RepairAdopt, ReconcileDead
<1>4. CASE feeds = ReconcileDead
  BY <1>4 DEF ReconcileDead, Remaining, RepairAdopt
<1>5. CASE feeds = <<"intent_receipt", "settle">>
  BY <1>5 DEF Remaining, RepairAdopt, ReconcileDead
<1>6. CASE \E kind \in (FeedKind \ {"created", "complete"})
                            \cup {"report", "settle", "adopt", "rebind"} :
                feeds = <<kind>>
  <2>1. PICK kind \in (FeedKind \ {"created", "complete"})
                            \cup {"report", "settle", "adopt", "rebind"} :
                feeds = <<kind>>
    BY <1>6
  <2>2. Head(feeds) = kind /\ Tail(feeds) = <<>>
    BY <2>1
  <2>3. Remaining(feeds, applied) = <<>>
    BY <2>1, <2>2 DEF Remaining, RepairAdopt
  <2> QED BY <2>1, <2>2, <2>3 DEF ReconcileDead
<1> QED BY <1>1, <1>2, <1>3, <1>4, <1>5, <1>6, ProgramCases

\* A row is never deleted.
LEMMA RowStays ==
    ASSUME LedgerInv, Next, row # NoRow
    PROVE  row' # NoRow
<1>1. CASE row' = row
  BY <1>1
<1>2. CASE row' # row
  BY <1>2, OnlyWritesMove, WriteAdvances, NoRowAssumption
<1> QED BY <1>1, <1>2

LEMMA TrackedKept ==
    ASSUME NEW u, TrackedInv(u), SameCall(u), row # NoRow => row' # NoRow
    PROVE  TrackedInv(u)'
BY DEF TrackedInv, SameCall

LEMMA TrackedReturn ==
    ASSUME LedgerInv, NEW w \in Worker, TrackedInv(w), todo[w] # <<>>,
           NEW applied \in BOOLEAN, Return(w, applied), row # NoRow => row' # NoRow
    PROVE  TrackedInv(w)'
<1> DEFINE rest == Remaining(todo[w], applied)
<1>1. /\ todo[w] \in Programs /\ todo[w] # RepairAdopt /\ LedgerTypes
  BY DEF LedgerInv, LedgerTypes, TrackedInv
<1>2. /\ rest \notin {<<"report">>, <<"adopt">>, RepairAdopt, RepairRebind}
      /\ rest \in {<<"agent_gone">>, ReconcileDead,
                   <<"reconcile_mismatch">>, <<"reconcile_ok">>}
           => row' # NoRow
  BY <1>1, ProgramSteps, TrackedPrograms DEF TrackedInv
<1>3. todo' = [todo EXCEPT ![w] = rest] /\ pc' = [pc EXCEPT ![w] = Entry(rest)]
  BY DEF Return
<1> HIDE DEF rest
<1>4. todo'[w] = rest /\ pc'[w] = Entry(rest)
  BY <1>1, <1>3 DEF LedgerTypes
<1> QED BY <1>2, <1>4, EntryPosition DEF TrackedInv

LEMMA NextTracked ==
    ASSUME FeedsAlone, LedgerInv, FeedInv, Next
    PROVE  FeedInv'
<1>1. LedgerTypes /\ (row # NoRow => row' # NoRow)
  BY RowStays DEF LedgerInv
<1>2. ASSUME NEW w \in Worker, OthersSame(w), TrackedInv(w)'
      PROVE  FeedInv'
  BY <1>1, <1>2, TrackedKept DEF FeedInv, OthersSame
<1>3. ASSUME NEW w \in Worker, todo[w] # <<>>, NEW applied \in BOOLEAN,
             Return(w, applied), row' \in Row
      PROVE  FeedInv'
  BY <1>1, <1>2, <1>3, ReturnedCall, TrackedReturn DEF FeedInv
<1>4. ASSUME NEW w \in Worker, NEW handler \in Handlers, Start(w, handler)
      PROVE  FeedInv'
  <2>1. handler \in AllHandlers /\ handler \notin {RepairAdopt, RepairRebind}
    BY LedgerAssumption DEF FeedsAlone
  <2>2. /\ todo' = [todo EXCEPT ![w] = handler]
        /\ pc' = [pc EXCEPT ![w] = Entry(handler)]
        /\ MayStart(handler) /\ UNCHANGED <<row, event, result>>
    BY <1>4, <2>1 DEF Start
  <2>3. seen' = [seen EXCEPT ![w] = NoRow]
    BY <1>4, <2>1 DEF Start
  <2>4. OthersSame(w)
    BY <1>1, <2>2, <2>3 DEF OthersSame, SameCall, LedgerTypes
  <2>5. todo'[w] = handler /\ pc'[w] = Entry(handler)
    BY <1>1, <2>2 DEF LedgerTypes
  <2>6. handler \in {<<"agent_gone">>, ReconcileDead,
                     <<"reconcile_mismatch">>, <<"reconcile_ok">>} => row # NoRow
    BY <2>2 DEF MayStart, Open
  <2>7. TrackedInv(w)'
    BY <1>1, <2>1, <2>5, <2>6, HandlerFacts, EntryPosition DEF TrackedInv
  <2> QED BY <1>2, <2>4, <2>7
<1>5. ASSUME NEW w \in Worker, CheckCreated(w)
      PROVE  FeedInv'
  <2>1. pc[w] = "check" /\ todo[w] # <<>> /\ row' \in Row /\ row' = row
    BY <1>1, <1>5 DEF LedgerInv, LedgerTypes, CallInv, ProgramInv, CheckCreated
  <2>2. CASE row = NoRow
    <3>1. pc' = [pc EXCEPT ![w] = "allocate"] /\ UNCHANGED <<todo, seen, event, result>>
      BY <1>5, <2>2 DEF CheckCreated
    <3>2. OthersSame(w) /\ pc'[w] = "allocate"
      BY <1>1, <3>1 DEF LedgerTypes, OthersSame, SameCall
    <3>3. TrackedInv(w)'
      BY <2>1, <3>1, <3>2 DEF FeedInv, TrackedInv
    <3> QED BY <1>2, <3>2, <3>3
  <2>3. CASE row # NoRow
    <3>1. Return(w, FALSE)
      BY <1>5, <2>3 DEF CheckCreated
    <3> QED BY <1>3, <2>1, <3>1
  <2> QED BY <2>2, <2>3
<1>6. ASSUME NEW w \in Worker, Allocate(w)
      PROVE  FeedInv'
  <2>1. pc[w] = "allocate" /\ todo[w] # <<>> /\ row' \in Row /\ row' = row
    BY <1>1, <1>6 DEF LedgerInv, LedgerTypes, CallInv, ProgramInv, Allocate
  <2>2. CASE Untracked(w)
    <3>1. Return(w, FALSE)
      BY <1>6, <2>2 DEF Allocate
    <3> QED BY <1>3, <2>1, <3>1
  <2>3. CASE ~Untracked(w)
    <3>1. /\ EventOf(w).seq <= MaxSeq
          /\ event' = [event EXCEPT ![w] = EventOf(w)]
          /\ pc' = [pc EXCEPT ![w] = "reduce"]
          /\ UNCHANGED <<todo, seen, result>>
      BY <1>6, <2>3 DEF Allocate
    <3>2. OthersSame(w) /\ pc'[w] = "reduce" /\ event'[w] = EventOf(w)
      BY <1>1, <3>1 DEF LedgerTypes, OthersSame, SameCall
    <3>3. TrackedInv(w)'
      BY <2>1, <2>3, <3>1, <3>2 DEF FeedInv, TrackedInv, Untracked
    <3> QED BY <1>2, <3>2, <3>3
  <2> QED BY <2>2, <2>3
<1>7. ASSUME NEW w \in Worker, ReduceEvent(w)
      PROVE  FeedInv'
  <2>1. pc[w] = "reduce" /\ todo[w] # <<>> /\ row' \in Row /\ row' = row
    BY <1>1, <1>7 DEF LedgerInv, LedgerTypes, CallInv, ProgramInv, ReduceEvent
  <2>2. CASE Reduce(row, event[w]).tag = "applied"
    <3>1. /\ result' = [result EXCEPT ![w] = Reduce(row, event[w]).obs]
          /\ pc' = [pc EXCEPT ![w] = "write"]
          /\ UNCHANGED <<todo, seen, event>>
      BY <1>7, <2>2 DEF ReduceEvent
    <3>2. OthersSame(w) /\ pc'[w] = "write"
      BY <1>1, <3>1 DEF LedgerTypes, OthersSame, SameCall
    <3>3. TrackedInv(w)'
      BY <2>1, <3>1, <3>2 DEF FeedInv, TrackedInv
    <3> QED BY <1>2, <3>2, <3>3
  <2>3. CASE Reduce(row, event[w]).tag # "applied"
    <3>1. Return(w, FALSE)
      BY <1>7, <2>3 DEF ReduceEvent
    <3> QED BY <1>3, <2>1, <3>1
  <2> QED BY <2>2, <2>3
<1>8. ASSUME NEW w \in Worker, Write(w)
      PROVE  FeedInv'
  <2>1. pc[w] = "write" /\ todo[w] # <<>> /\ Return(w, TRUE)
    BY <1>1, <1>8 DEF LedgerInv, CallInv, ProgramInv, Write
  <2>2. row' \in Row
    BY <1>1, <1>8, WriteAdvances DEF LedgerTypes, Row
  <2> QED BY <1>3, <2>1, <2>2
<1>9. CASE Crash
  <2>1. pc' = [w \in Worker |-> "idle"] /\ todo' = [w \in Worker |-> <<>>]
    BY <1>9 DEF Crash
  <2>2. <<>> \notin {<<"agent_gone">>, ReconcileDead, <<"reconcile_mismatch">>,
                     <<"reconcile_ok">>, <<"report">>, <<"adopt">>}
    BY DEF ReconcileDead
  <2> QED BY <2>1, <2>2, IdleCalls DEF FeedInv, TrackedInv
<1>10. ~ \E w \in Worker, kind \in Reports, g \in 1..MaxGen, s \in 1..MaxSeq :
           ReceiveReport(w, kind, [gen |-> g, seq |-> s])
  BY DEF FeedsAlone
<1> QED BY <1>4, <1>5, <1>6, <1>7, <1>8, <1>9, <1>10 DEF Next

\* A write of a feed is one action of the atomic row, or changes nothing.
LEMMA WriteIsAtomic ==
    ASSUME LedgerInv, FeedInv, NEW w \in Worker, Write(w), row' # row
    PROVE  Atomic!Next
<1> DEFINE feed == Head(todo[w])
           e == event[w]
<1>1. /\ LedgerTypes /\ RowInv /\ ProgramInv(w) /\ EventInv(w) /\ ResultInv(w)
      /\ TrackedInv(w) /\ pc[w] = "write" /\ todo[w] \in Programs
      /\ row' = Upsert(row, result[w])
  BY DEF LedgerInv, LedgerTypes, FeedInv, CallInv, Write
<1>2. todo[w] # <<>> /\ todo[w] \notin {<<"report">>, <<"adopt">>, RepairAdopt, RepairRebind}
  BY <1>1 DEF ProgramInv, TrackedInv
<1>3. feed \in FeedKind \cup {"settle"}
  BY <1>1, <1>2, ProgramSteps
<1>4. IsFeed(w)
  BY <1>3 DEF IsFeed
<1>5. row' = result[w] /\ Newer(result[w], Stored(row))
  BY WriteAdvances
<1>6. Reduce(row, e) = Applied(result[w]) /\ VersionOf(result[w]) = VersionOf(e)
  BY <1>1, <1>4, <1>5 DEF ResultInv
<1>7. e = EventOf(w)
  <2>1. e.gen = result[w].gen /\ e.seq = result[w].seq
    BY <1>6 DEF VersionOf
  <2>2. Newer(e, Stored(row))
    BY <1>5, <2>1 DEF Newer
  <2> QED BY <1>1, <1>4, <2>2 DEF EventInv
<1>8. e.seq <= MaxSeq
  BY <1>1 DEF TrackedInv
<1>9. Atomic!ApplyPersist(e)
  <2>1. Reduce(row, e).tag = "applied" /\ Reduce(row, e).obs = result[w]
    BY <1>6 DEF Applied
  <2>2. row' = IF Reduce(row, e).tag = "applied"
               THEN Upsert(row, Reduce(row, e).obs) ELSE row
    BY <1>1, <2>1
  <2> QED BY <2>2, SameReducer DEF Atomic!ApplyPersist
<1> HIDE DEF feed, e
<1>10. CASE feed = "settle"
  <2>1. e = SettleEvent(row, "done")
    BY <1>7, <1>10, EventCases DEF feed
  <2>2. NextVersion(row).seq <= MaxSeq
    BY <1>8, <2>1 DEF SettleEvent
  <2>3. Atomic!Settle("done")
    BY <1>9, <2>1, <2>2, SameReducer DEF Atomic!Settle
  <2>4. "done" \in Outcome \ {"pending"}
    BY DEF Outcome
  <2> QED BY <2>3, <2>4, SameReducer DEF Atomic!Next
<1>11. CASE feed \in FeedKind
  <2>1. e = PlainEvent(feed, NextVersion(row))
    BY <1>7, <1>11, EventCases, PlainKinds DEF feed
  <2>2. NextVersion(row).seq <= MaxSeq
    BY <1>1, <1>8, <2>1, ReadRow DEF PlainEvent
  <2>3. feed \in TrackedKind => row # NoRow
    BY <1>1, <1>2, TrackedPrograms DEF feed, TrackedKind, TrackedInv
  <2>4. Atomic!Feed(feed)
    BY <1>9, <2>1, <2>2, <2>3, SameReducer DEF Atomic!Feed
  <2> QED BY <1>11, <2>4 DEF Atomic!Next
<1> QED BY <1>3, <1>10, <1>11 DEF feed

\* The concurrent feeds, split into their reads and their write and cut off by
\* crashes, implement the row that reduces one event at a time.
THEOREM FeedsImplementSession ==
    ASSUME FeedsAlone
    PROVE  Spec => ImplementsSession
<1>1. Init => FeedInv
  <2>1. <<>> \notin {<<"agent_gone">>, ReconcileDead, <<"reconcile_mismatch">>,
                     <<"reconcile_ok">>, <<"report">>, <<"adopt">>}
    BY DEF ReconcileDead
  <2> QED BY <2>1, IdleCalls DEF Init, FeedInv, TrackedInv
<1>2. LedgerInv /\ FeedInv /\ [Next]_vars => FeedInv'
  <2> SUFFICES ASSUME LedgerInv, FeedInv, [Next]_vars PROVE FeedInv'
    OBVIOUS
  <2>1. CASE Next
    BY <2>1, NextTracked
  <2>2. CASE UNCHANGED vars
    BY <2>2 DEF vars, FeedInv, TrackedInv
  <2> QED BY <2>1, <2>2
<1>3. Init => Atomic!Init
  BY DEF Init, Atomic!Init
<1>4. LedgerInv /\ FeedInv /\ [Next]_vars => [Atomic!Next]_row
  <2> SUFFICES ASSUME LedgerInv, FeedInv, Next, row' # row
               PROVE  Atomic!Next
    BY DEF vars
  <2>1. PICK w \in Worker : Write(w)
    BY OnlyWritesMove
  <2> QED BY <2>1, WriteIsAtomic
<1> QED
  BY <1>1, <1>2, <1>3, <1>4, CallsTrackTheRow, PTL
     DEF Spec, ImplementsSession, Atomic!Spec

=============================================================================
