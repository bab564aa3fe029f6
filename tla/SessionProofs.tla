---------------------------- MODULE SessionProofs ----------------------------
(***************************************************************************)
(* Theorems of Session for every value of its constants.  The inductive    *)
(* invariant is the type and the legality of the row; the coherence of its *)
(* two life flags and the ladder are invariants on top of it, each under   *)
(* the hypothesis it needs.                                                *)
(***************************************************************************)
EXTENDS Session, LifecycleProofs

\* A row that exists is an observation of a generation that was opened.
RowInv == TypeOK /\ LegalRow

-----------------------------------------------------------------------------
(***************************************************************************)
(* The steps of Next, once and for all.                                    *)
(***************************************************************************)

\* The write of apply_persist for one verdict.
Takes(d) == row' = IF d.tag = "applied" THEN Upsert(row, d.obs) ELSE row

\* Every step but a corruption takes a sound verdict within the bounds, and
\* it either keeps the generation's life and result or opens the next
\* generation; only a `created` fed over an existing row does neither.
Reduced ==
    \E v, d :
      /\ v.gen \in 1..MaxGen /\ v.seq \in 0..MaxSeq
      /\ Takes(d)
      /\ Sound(Stored(row), v, d)
      /\ \/ Final(Stored(row), d) /\ Retains(Stored(row), d)
         \/ Opens(d) /\ (row # NoRow => v.gen = row.gen + 1)
         \/ "created" \in Feeds

LEMMA NextReduced ==
    ASSUME RowInv, Next
    PROVE  Reduced \/ Corrupt
<1> USE SessionAssumption
<1>1. row \in Row /\ (row # NoRow => IsLegal(row))
  BY DEF RowInv, TypeOK, LegalRow
<1>2. Stored(row).gen \in 1..MaxGen /\ Stored(row).seq \in Nat
  BY <1>1, InitialLegal DEF RowInv, TypeOK, Stored
<1>3. NextVersion(row).gen \in 1..MaxGen /\ NextVersion(row).seq \in Nat
  BY <1>1, <1>2, NextVersionType
<1>4. ASSUME NEW kind \in PlainKind, NEW v \in Version,
             v.gen \in 1..MaxGen, v.seq \in 0..MaxSeq,
             ApplyPersist(PlainEvent(kind, v)),
             \/ kind \notin {"created", "adopt_new_generation"}
             \/ row = NoRow /\ kind = "created"
             \/ kind = "adopt_new_generation" /\ v.gen = row.gen + 1
             \/ "created" \in Feeds
      PROVE  Reduced
  <2> DEFINE d == Reduce(row, PlainEvent(kind, v))
  <2>1. Takes(d)
    BY <1>4 DEF ApplyPersist, Takes
  <2>2. /\ Sound(Stored(row), v, d)
        /\ kind \notin {"created", "adopt_new_generation"}
             => Final(Stored(row), d) /\ Retains(Stored(row), d)
        /\ kind = "adopt_new_generation" \/ (row = NoRow /\ kind = "created")
             => Opens(d)
    BY <1>1, ReducePlain
  <2> HIDE DEF d
  <2> QED BY <1>4, <2>1, <2>2 DEF Reduced
<1>5. CASE FeedCreated
  <2>1. "created" \in PlainKind
    BY DEF PlainKind
  <2>2. NextVersion(row).seq \in 0..MaxSeq
    BY <1>1, <1>5, InitialLegal, NextVersionType DEF FeedCreated, Stored
  <2> QED BY <1>1, <1>3, <1>4, <1>5, <2>1, <2>2, NextVersionType DEF FeedCreated
<1>6. CASE \E kind \in Feeds : Feed(kind)
  <2>1. PICK kind \in Feeds : Feed(kind)
    BY <1>6
  <2>2. kind \in PlainKind /\ kind # "adopt_new_generation"
    BY DEF FeedKind, PlainKind
  <2>3. NextVersion(row).seq \in 0..MaxSeq
    BY <1>3, <2>1 DEF Feed
  <2> QED BY <1>1, <1>3, <1>4, <2>1, <2>2, <2>3, NextVersionType DEF Feed
<1>7. CASE \E outcome \in Outcome \ {"pending"} : Settle(outcome)
  <2>1. PICK outcome \in Outcome : Settle(outcome)
    BY <1>7
  <2>2. NextVersion(row).seq \in 0..MaxSeq
    BY <1>3, <2>1 DEF Settle
  <2> DEFINE d == Reduce(row, SettleEvent(row, outcome))
  <2>3. Takes(d)
    BY <2>1 DEF Settle, ApplyPersist, Takes
  <2>4. Overrides(Stored(row), outcome)
    BY <2>1, InitialLegal DEF Settle, Overrides, Stored
  <2>5. /\ Sound(Stored(row), NextVersion(row), d)
        /\ Final(Stored(row), d) /\ Retains(Stored(row), d)
    BY <1>1, <2>4, ReduceSettle
  <2> HIDE DEF d
  <2> QED BY <1>3, <2>2, <2>3, <2>5 DEF Reduced
<1>8. CASE \E kind \in Reports, g \in 1..MaxGen, s \in 1..MaxSeq :
             Report(kind, [gen |-> g, seq |-> s])
  <2>1. PICK kind \in Reports, g \in 1..MaxGen, s \in 1..MaxSeq :
               Report(kind, [gen |-> g, seq |-> s])
    BY <1>8
  <2>2. kind \in PlainKind /\ kind \notin {"created", "adopt_new_generation"}
    BY DEF ReportKind, PlainKind
  <2> DEFINE v == [gen |-> g, seq |-> s]
  <2>3. v \in Version /\ v.gen \in 1..MaxGen /\ v.seq \in 0..MaxSeq
    BY DEF Version
  <2>4. ApplyPersist(PlainEvent(kind, v))
    BY <2>1 DEF Report
  <2> HIDE DEF v
  <2> QED BY <1>4, <2>2, <2>3, <2>4
<1>9. CASE Adopt
  <2>1. row \in Observation
    BY <1>1, <1>9 DEF Adopt, Row
  <2> DEFINE v == [gen |-> row.gen + 1, seq |-> 0]
  <2>2. /\ v \in Version /\ v.gen = row.gen + 1
        /\ v.gen \in 1..MaxGen /\ v.seq \in 0..MaxSeq
    BY <1>2, <1>9, <2>1 DEF Adopt, Version, Observation
  <2>3. ApplyPersist(PlainEvent("adopt_new_generation", v))
    BY <1>9 DEF Adopt, AdoptEvent
  <2>4. "adopt_new_generation" \in PlainKind
    BY DEF PlainKind
  <2> HIDE DEF v
  <2> QED BY <1>4, <2>2, <2>3, <2>4
<1>10. CASE Rebind
  <2>1. row # NoRow /\ row \in Observation /\ Stored(row) = row /\ IsLegal(row)
    BY <1>1, <1>10 DEF Rebind, Row, Stored
  <2> DEFINE v == VersionOf(RebindEvent(row))
             d == Reduce(row, RebindEvent(row))
  <2>2. v.gen = row.gen + 1 /\ v.seq = row.seq + 1
    BY DEF RebindEvent, VersionOf
  <2>3. v.gen \in 1..MaxGen /\ v.seq \in 0..MaxSeq
    BY <1>2, <1>10, <2>1, <2>2 DEF Rebind, Observation
  <2>4. Sound(Stored(row), v, d) /\ Opens(d)
    BY <1>1, <2>1, ReduceRebind DEF Row
  <2>5. Takes(d)
    BY <1>10 DEF Rebind, ApplyPersist, Takes
  <2> HIDE DEF v, d
  <2> QED BY <2>2, <2>3, <2>4, <2>5 DEF Reduced
<1> QED BY <1>5, <1>6, <1>7, <1>8, <1>9, <1>10 DEF Next

\* What a taken verdict leaves in the row.
LEMMA TakesRow ==
    ASSUME NEW d, Takes(d)
    PROVE  row' = row \/ (d.tag = "applied" /\ row' = d.obs)
BY DEF Takes, Upsert

\* A rebuilt row is a fresh generation at the watermark of the lost tuple.
LEMMA CorruptRow ==
    ASSUME RowInv, Corrupt
    PROVE  /\ MayCorrupt /\ row # NoRow
           /\ row' \in Observation /\ IsLegal(row') /\ Coherent(row')
           /\ row'.gen = row.gen /\ row'.seq = row.seq
<1>1. row # NoRow /\ row \in Observation /\ row' = Rebuild(row) /\ MayCorrupt
  BY DEF Corrupt, Row, RowInv, TypeOK
<1> DEFINE v == [gen |-> row.gen, seq |-> row.seq]
<1>2. v \in Version /\ "detached" \in ResourceState /\ row.mismatch \in Nat
  BY <1>1 DEF Version, Observation, ResourceState
<1>3. row' = Booting(v, "detached", row.mismatch)
  BY <1>1 DEF Rebuild
<1>4. v.gen = row.gen /\ v.seq = row.seq
  OBVIOUS
<1> HIDE DEF v
<1> QED BY <1>1, <1>2, <1>3, <1>4, BootingLegal

-----------------------------------------------------------------------------
(***************************************************************************)
(* Type correctness and legality.                                          *)
(***************************************************************************)

LEMMA NextLegal ==
    ASSUME RowInv, Next
    PROVE  RowInv'
<1>1. CASE Reduced
  <2>1. PICK v, d : /\ v.gen \in 1..MaxGen /\ v.seq \in 0..MaxSeq
                    /\ Takes(d) /\ Sound(Stored(row), v, d)
    BY <1>1 DEF Reduced
  <2>2. CASE row' = row
    BY <2>2 DEF RowInv, TypeOK, LegalRow
  <2>3. CASE d.tag = "applied" /\ row' = d.obs
    <3>1. /\ row' \in Observation /\ IsLegal(row')
          /\ row'.gen \in 1..MaxGen /\ row'.seq \in 0..MaxSeq
      BY <2>1, <2>3 DEF Sound
    <3> QED BY <3>1 DEF RowInv, TypeOK, LegalRow, Row
  <2> QED BY <2>1, <2>2, <2>3, TakesRow
<1>2. CASE Corrupt
  <2>1. row.gen \in 1..MaxGen /\ row.seq \in 0..MaxSeq
    BY <1>2, CorruptRow DEF RowInv, TypeOK
  <2>2. /\ row' \in Observation /\ IsLegal(row')
        /\ row'.gen \in 1..MaxGen /\ row'.seq \in 0..MaxSeq
    BY <1>2, <2>1, CorruptRow
  <2> QED BY <2>2 DEF RowInv, TypeOK, LegalRow, Row
<1> QED BY <1>1, <1>2, NextReduced

\* Every row the ledger ever holds is well typed and legal, corrupted or not:
\* no event reaches past finish except the count of a mismatch, which keeps
\* the dimensions it found.
THEOREM SpecRowInv == Spec => []RowInv
<1>1. Init => RowInv
  BY DEF Init, RowInv, TypeOK, LegalRow, Row
<1>2. RowInv /\ [Next]_row => RowInv'
  <2> SUFFICES ASSUME RowInv, [Next]_row PROVE RowInv'
    OBVIOUS
  <2>1. CASE Next
    BY <2>1, NextLegal
  <2>2. CASE UNCHANGED row
    BY <2>2 DEF RowInv, TypeOK, LegalRow
  <2> QED BY <2>1, <2>2
<1> QED BY <1>1, <1>2, PTL DEF Spec

\* The type of the row.
THEOREM TypeCorrect == Spec => []TypeOK
<1>1. RowInv => TypeOK
  BY DEF RowInv
<1> QED BY <1>1, SpecRowInv, PTL

\* The tuple in the ledger is always legal.
THEOREM RowIsLegal == Spec => []LegalRow
<1>1. RowInv => LegalRow
  BY DEF RowInv
<1> QED BY <1>1, SpecRowInv, PTL

-----------------------------------------------------------------------------
(***************************************************************************)
(* The life of a generation.                                               *)
(***************************************************************************)

LEMMA NextCoherent ==
    ASSUME "created" \notin Feeds, RowInv, DeadIffGone, Next
    PROVE  DeadIffGone'
<1>1. Coherent(Stored(row))
  BY InitialLegal DEF DeadIffGone, Coherent, Stored
<1>2. CASE Reduced
  <2>1. PICK v, d : /\ Takes(d)
                    /\ \/ Final(Stored(row), d)
                       \/ Opens(d)
    BY <1>2 DEF Reduced
  <2>2. CASE row' = row
    BY <2>2 DEF DeadIffGone
  <2>3. CASE d.tag = "applied" /\ row' = d.obs
    <3>1. Coherent(row')
      BY <1>1, <2>1, <2>3 DEF Final, Opens
    <3> QED BY <3>1 DEF DeadIffGone, Coherent
  <2> QED BY <2>1, <2>2, <2>3, TakesRow
<1>3. CASE Corrupt
  <2>1. Coherent(row')
    BY <1>3, CorruptRow
  <2> QED BY <2>1 DEF DeadIffGone, Coherent
<1> QED BY <1>2, <1>3, NextReduced

\* When feed_created leaves an existing row alone, a generation is dead
\* exactly when its agent is gone.
THEOREM DeadAndGoneAgree ==
    ASSUME "created" \notin Feeds
    PROVE  Spec => []DeadIffGone
<1>1. Init => DeadIffGone
  BY DEF Init, DeadIffGone
<1>2. RowInv /\ DeadIffGone /\ [Next]_row => DeadIffGone'
  <2> SUFFICES ASSUME RowInv, DeadIffGone, [Next]_row PROVE DeadIffGone'
    OBVIOUS
  <2>1. CASE Next
    BY <2>1, NextCoherent
  <2>2. CASE UNCHANGED row
    BY <2>2 DEF DeadIffGone
  <2> QED BY <2>1, <2>2
<1> QED BY <1>1, <1>2, SpecRowInv, PTL DEF Spec

LEMMA NextDead ==
    ASSUME "created" \notin Feeds, ~Corrupt,
           RowInv, DeadIffGone, Next,
           row # NoRow, ~row.live, row'.gen = row.gen
    PROVE  ~row'.live /\ row'.agent = "gone"
<1>1. Coherent(row) /\ Stored(row) = row /\ row \in Observation
  BY DEF DeadIffGone, Coherent, Stored, RowInv, TypeOK, Row
<1>2. Reduced
  BY NextReduced
<1>3. PICK v, d : /\ Takes(d) /\ Sound(row, v, d)
                  /\ \/ Final(row, d)
                     \/ v.gen = row.gen + 1
  BY <1>1, <1>2 DEF Reduced
<1>4. CASE row' = row
  BY <1>1, <1>4 DEF Coherent
<1>5. CASE d.tag = "applied" /\ row' = d.obs
  <2>1. d.obs.gen = v.gen /\ d.obs \in Observation
    BY <1>3, <1>5 DEF Sound
  <2>2. row.gen \in Nat
    BY <1>1 DEF Observation
  <2>3. Final(row, d)
    BY <1>3, <1>5, <2>1, <2>2
  <2> QED BY <1>1, <1>5, <2>3 DEF Final, Coherent
<1> QED BY <1>3, <1>4, <1>5, TakesRow

\* An ended generation stays ended, unless its tuple is lost or `created` is
\* fed over it.
THEOREM DeathIsFinal ==
    ASSUME "created" \notin Feeds
    PROVE  Spec => DeadStaysDead
<1>1. RowInv /\ DeadIffGone /\ [Next]_row
        => [(~Corrupt /\ row # NoRow /\ ~row.live /\ row'.gen = row.gen)
              => ~row'.live /\ row'.agent = "gone"]_row
  BY NextDead
<1> QED BY <1>1, SpecRowInv, DeadAndGoneAgree, PTL DEF Spec, DeadStaysDead

LEMMA NextSettled ==
    ASSUME "created" \notin Feeds, ~Corrupt, RowInv, Next,
           row # NoRow, row.outcome # "pending", row'.gen = row.gen
    PROVE  /\ row'.outcome \in {row.outcome, "done", "failed"}
           /\ row.public = "exited" /\ row'.public # "exited"
                => row.outcome = "done" /\ row'.outcome = "failed"
<1>1. Stored(row) = row /\ row \in Observation /\ IsLegal(row)
  BY DEF Stored, RowInv, TypeOK, LegalRow, Row
<1>2. Reduced
  BY NextReduced
<1>3. PICK v, d : /\ Takes(d) /\ Sound(row, v, d)
                  /\ \/ Retains(row, d)
                     \/ v.gen = row.gen + 1
  BY <1>1, <1>2 DEF Reduced
<1>4. CASE row' = row
  BY <1>4
<1>5. CASE d.tag = "applied" /\ row' = d.obs
  <2>1. d.obs.gen = v.gen /\ row.gen \in Nat
    BY <1>1, <1>3, <1>5 DEF Sound, Observation
  <2>2. Retains(row, d)
    BY <1>3, <1>5, <2>1
  <2> QED BY <1>1, <1>5, <2>2 DEF Retains, Overrides
<1> QED BY <1>3, <1>4, <1>5, TakesRow

\* Within a generation a settled result is final up to the overrides of a
\* delivered handoff and of a failure, and an exited session is looked at again
\* only when a fault relabels a delivered result.
THEOREM ResultIsFinal ==
    ASSUME "created" \notin Feeds
    PROVE  Spec => SettledStaysSettled
<1>1. RowInv /\ [Next]_row
        => [(~Corrupt /\ row # NoRow /\ row.outcome # "pending" /\ row'.gen = row.gen)
              => /\ row'.outcome \in {row.outcome, "done", "failed"}
                 /\ row.public = "exited" /\ row'.public # "exited"
                      => row.outcome = "done" /\ row'.outcome = "failed"]_row
  BY NextSettled
<1> QED BY <1>1, SpecRowInv, PTL DEF Spec, SettledStaysSettled

-----------------------------------------------------------------------------
(***************************************************************************)
(* The mismatch ladder and the watermark.                                  *)
(***************************************************************************)

LEMMA NextLadder ==
    ASSUME RowInv, ~Corrupt, Ladder(row), Next
    PROVE  Ladder(row')
<1>1. OnLadder(Stored(row))
  BY InitialLegal, PolicyAssumption DEF Ladder, OnLadder, Stored
<1>2. Reduced
  BY NextReduced
<1>3. PICK v, d : Takes(d) /\ Sound(Stored(row), v, d)
  BY <1>2 DEF Reduced
<1>4. CASE row' = row
  BY <1>4
<1>5. CASE d.tag = "applied" /\ row' = d.obs
  <2>1. OnLadder(row')
    BY <1>1, <1>3, <1>5 DEF Sound
  <2> QED BY <2>1 DEF Ladder, OnLadder
<1> QED BY <1>3, <1>4, <1>5, TakesRow

\* No event counts past terminate_after or leaves a session running there.
THEOREM LadderIsBounded == Spec => LadderTerminates
<1>1. RowInv /\ [Next]_row => [~Corrupt /\ Ladder(row) => Ladder(row')]_row
  BY NextLadder
<1> QED BY <1>1, SpecRowInv, PTL DEF Spec, LadderTerminates

\* In particular, as long as no tuple is lost, every row is on the ladder.
THEOREM LadderHolds ==
    ASSUME MayCorrupt = FALSE
    PROVE  Spec => []Ladder(row)
<1>1. Init => Ladder(row)
  BY DEF Init, Ladder
<1>2. RowInv /\ Ladder(row) /\ [Next]_row => Ladder(row)'
  <2> SUFFICES ASSUME RowInv, Ladder(row), [Next]_row PROVE Ladder(row')
    OBVIOUS
  <2>1. CASE Next
    BY <2>1, NextLadder DEF Corrupt
  <2>2. CASE UNCHANGED row
    BY <2>2
  <2> QED BY <2>1, <2>2
<1> QED BY <1>1, <1>2, SpecRowInv, PTL DEF Spec

LEMMA NextWatermark ==
    ASSUME RowInv, Next, row # NoRow
    PROVE  row' # NoRow /\ ~Newer(row, row')
<1>1. row \in Observation /\ row.gen \in Nat /\ row.seq \in Nat
  BY DEF RowInv, TypeOK, Row, Observation
<1>2. CASE row' = row
  BY <1>1, <1>2 DEF Newer
<1>3. CASE Reduced /\ row' # row
  <2>1. PICK v, d : Takes(d) /\ Sound(Stored(row), v, d)
    BY <1>3 DEF Reduced
  <2>2. d.tag = "applied" /\ row' = d.obs /\ Newer(d.obs, row)
    BY <1>3, <2>1 DEF Takes, Upsert
  <2>3. row' \in Observation
    BY <2>1, <2>2 DEF Sound
  <2>4. row'.gen \in Nat /\ row'.seq \in Nat /\ row' # NoRow
    BY <2>3, NoRowAssumption DEF Observation
  <2> QED BY <1>1, <2>2, <2>4 DEF Newer
<1>4. CASE Corrupt
  <2>1. row' \in Observation /\ row'.gen = row.gen /\ row'.seq = row.seq
    BY <1>4, CorruptRow
  <2> QED BY <1>1, <2>1, NoRowAssumption DEF Newer
<1> QED BY <1>2, <1>3, <1>4, NextReduced

\* Not even a corrupt tuple rewinds the watermark of its row.
THEOREM WatermarkIsMonotone == Spec => WatermarkNeverRewinds
<1>1. RowInv /\ [Next]_row
        => [row # NoRow => row' # NoRow /\ ~Newer(row, row')]_row
  BY NextWatermark
<1> QED BY <1>1, SpecRowInv, PTL DEF Spec, WatermarkNeverRewinds

-----------------------------------------------------------------------------
(***************************************************************************)
(* What can always be recorded.                                            *)
(***************************************************************************)

LEMMA DeathApplies ==
    ASSUME RowInv, DeadIffGone
    PROVE  DeathRecordable
<1> SUFFICES ASSUME row # NoRow, row.live
             PROVE  Apply(row, PlainEvent("agent_gone", NextVersion(row))).tag = "applied"
  BY DEF DeathRecordable
<1>1. row \in Observation /\ IsLegal(row) /\ row.agent # "gone" /\ Stored(row) = row
  BY DEF RowInv, TypeOK, LegalRow, Row, DeadIffGone, Stored
<1> DEFINE v == NextVersion(row)
           e == PlainEvent("agent_gone", v)
<1>2. v \in Version /\ v.gen = row.gen /\ v.seq = row.seq + 1
  BY <1>1, NextVersionType DEF Row
<1>3. e.kind = "agent_gone" /\ e.gen = v.gen /\ e.seq = v.seq /\ VersionOf(e) = v
  BY <1>2 DEF PlainEvent, VersionOf, Version
<1> HIDE DEF v, e
<1>4. Apply(row, e) = SemanticRule(row, e)
  BY <1>1, <1>2, <1>3, NextVersionPasses DEF IsAdoption
<1>5. SemanticRule(row, e) = AgentGone(row, v)
  BY <1>3 DEF SemanticRule
<1> QED BY <1>1, <1>2, <1>4, <1>5, AgentGoneApplies DEF e, v

\* The proof of a death is never refused: reconcile and repair always get a
\* lost session out of the open set.
THEOREM DeathAlwaysRecordable ==
    ASSUME "created" \notin Feeds
    PROVE  Spec => []DeathRecordable
BY DeathApplies, SpecRowInv, DeadAndGoneAgree, PTL

\* The body settle builds for `done` is legal on every legal observation whose
\* life flags agree, and so is the one for `failed` on an open result.
LEMMA SettleBodyLegal ==
    ASSUME NEW o \in Observation, IsLegal(o), Coherent(o),
           NEW outcome \in {"done", "failed"},
           outcome = "done" \/ o.outcome = "pending"
    PROVE  LET body == SettleBody(o, outcome) IN
           /\ body \in Observation /\ IsLegal(body) /\ body.live = o.live
<1> DEFINE agent == IF o.agent = "booting" THEN "idle" ELSE o.agent
           delivery == IF outcome = "done" THEN "accepted" ELSE o.delivery
           recovery == IF outcome = "done" /\ agent = "idle" /\ o.live
                       THEN "draining" ELSE "none"
           p == [o EXCEPT !.agent = agent, !.delivery = delivery,
                          !.recovery = recovery, !.outcome = outcome]
<1>1. SettleBody(o, outcome) = WithPublic(p)
  BY Zenon DEF SettleBody
<1>2. /\ agent \in AgentState /\ delivery \in DeliveryState
      /\ recovery \in RecoveryState /\ outcome \in Outcome
  BY DEF AgentState, DeliveryState, RecoveryState, Outcome, Observation
<1>3. /\ o.live => agent # "gone"
      /\ ~o.live => agent = "gone"
      /\ agent # "booting"
      /\ agent = "ready" => o.agent = "ready"
      /\ agent = "gone" => o.agent = "gone"
  BY DEF Coherent
<1>4. /\ outcome = "done" => delivery = "accepted"
      /\ outcome = "failed" => delivery = o.delivery
      /\ recovery = "none" \/ (recovery = "draining" /\ agent = "idle" /\ o.live)
      /\ outcome = "done" /\ agent = "idle" /\ o.live => recovery = "draining"
  OBVIOUS
<1> HIDE DEF agent, delivery, recovery
<1>5. /\ p \in Observation /\ p.agent = agent /\ p.delivery = delivery
      /\ p.recovery = recovery /\ p.outcome = outcome /\ p.live = o.live
  BY <1>2 DEF Observation
<1> HIDE DEF p
<1>6. IsLegal(WithPublic(p))
  BY <1>3, <1>4, <1>5, WithPublicFields DEF IsLegal
<1> QED BY <1>1, <1>5, <1>6, WithPublicFields

\* A legal body of the same life is never rejected.
LEMMA HeartbeatAccepted ==
    ASSUME NEW o \in Observation, NEW v \in Version, NEW body \in Observation,
           IsLegal(body), body.live = o.live
    PROVE  Heartbeat(o, v, body).tag # "rejected"
<1> DEFINE n == [At(body, v) EXCEPT !.live = o.live]
<1>1. /\ n \in Observation /\ n.live = body.live /\ n.agent = body.agent
      /\ n.delivery = body.delivery /\ n.recovery = body.recovery
      /\ n.outcome = body.outcome
  BY DEF At, Observation, Version
<1>2. \/ Heartbeat(o, v, body) = Ignored(o)
      \/ Heartbeat(o, v, body) = Finish(o, n)
  BY DEF Heartbeat
<1> HIDE DEF n
<1>3. IsLegal(WithPublic(n))
  BY <1>1, WithPublicFields DEF IsLegal
<1> QED BY <1>2, <1>3 DEF Finish, Ignored, Applied

LEMMA MirrorApplies ==
    ASSUME RowInv, DeadIffGone
    PROVE  MirrorAccepted
<1> SUFFICES ASSUME row # NoRow, NEW outcome \in {"done", "failed"},
                    outcome = "done" \/ row.outcome = "pending"
             PROVE  Apply(row, SettleEvent(row, outcome)).tag # "rejected"
  BY DEF MirrorAccepted
<1>1. row \in Observation /\ IsLegal(row) /\ Coherent(row) /\ Stored(row) = row
  BY DEF RowInv, TypeOK, LegalRow, Row, DeadIffGone, Coherent, Stored
<1> DEFINE v == NextVersion(row)
           body == SettleBody(row, outcome)
           e == SettleEvent(row, outcome)
<1>2. v \in Version /\ v.gen = row.gen /\ v.seq = row.seq + 1
  BY <1>1, NextVersionType DEF Row
<1>3. /\ e.kind = "heartbeat" /\ e.gen = v.gen /\ e.seq = v.seq
      /\ VersionOf(e) = v /\ e.body = body
  BY <1>1 DEF SettleEvent, VersionOf, NextVersion
<1>4. body \in Observation /\ IsLegal(body) /\ body.live = row.live
  BY <1>1, SettleBodyLegal
<1> SUFFICES Apply(row, e).tag # "rejected"
  OBVIOUS
<1> HIDE DEF v, e, body
<1>5. Apply(row, e) = SemanticRule(row, e)
  BY <1>1, <1>2, <1>3, NextVersionPasses DEF IsAdoption
<1>6. SemanticRule(row, e) = Heartbeat(row, v, body)
  BY <1>3 DEF SemanticRule
<1> QED BY <1>1, <1>2, <1>4, <1>5, <1>6, HeartbeatAccepted

\* The result of a finished task can always be mirrored into its session.
THEOREM MirrorAlwaysAccepted ==
    ASSUME "created" \notin Feeds
    PROVE  Spec => []MirrorAccepted
BY MirrorApplies, SpecRowInv, DeadAndGoneAgree, PTL

=============================================================================
