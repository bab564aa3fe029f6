------------------------------ MODULE Lifecycle ------------------------------
(***************************************************************************)
(* The session-lifecycle reducer of src/src/lifecycle.rs: the observation  *)
(* of one session, the legality of an observation, and the total function  *)
(* Apply(obs, e) from an observation and an event to a verdict.  Pure      *)
(* operators only; the modules Session and SessionLedger run the reducer.  *)
(*                                                                         *)
(* Abstractions.  Enum variants are strings.  The two policy fields of an  *)
(* observation (isolate_after, terminate_after) are constants: no caller   *)
(* ever writes a tuple with other values.  A verdict keeps its tag and the *)
(* observation that holds after it; the reason inside Ignored and Rejected *)
(* is only logged by the callers and is left out.                          *)
(***************************************************************************)
EXTENDS Naturals

CONSTANTS
    IsolateAfter,     \* DEFAULT_ISOLATE_AFTER: the mismatch that isolates
    TerminateAfter    \* DEFAULT_TERMINATE_AFTER: the mismatch that terminates

ASSUME PolicyAssumption ==
    /\ IsolateAfter \in Nat \ {0}
    /\ TerminateAfter \in Nat \ {0}

AgentState == {"booting", "ready", "running", "idle", "gone"}
DeliveryState == {"none", "pending", "retrying", "accepted", "exhausted"}
ResourceState == {"detached", "attached", "closing", "closed"}
RecoveryState == {"none", "idle_waiting", "idle_fault", "draining"}
Outcome == {"pending", "done", "failed", "cancelled"}
PublicLifecycle == {"created", "working", "idle", "exited"}

\* Event kinds that carry nothing but their version.
PlainKind ==
    {"created", "ready", "turn_started", "turn_ended", "complete",
     "intent_pending", "intent_retry", "intent_receipt", "intent_exhausted",
     "resource_attach", "resource_close_requested", "resource_closed",
     "agent_gone", "cancel", "fail", "reconcile_mismatch", "reconcile_ok",
     "adopt_new_generation"}

Version == [gen : Nat, seq : Nat]

Observation ==
    [gen : Nat, seq : Nat, live : BOOLEAN, mismatch : Nat,
     agent : AgentState, delivery : DeliveryState, resource : ResourceState,
     recovery : RecoveryState, outcome : Outcome, public : PublicLifecycle]

Event ==
    [kind : PlainKind, gen : Nat, seq : Nat]
      \cup [kind : {"heartbeat"}, gen : Nat, seq : Nat, body : Observation]
      \cup [kind : {"supersede"}, gen : Nat, seq : Nat, body : Observation,
            oldDead : BOOLEAN]

VersionOf(x) == [gen |-> x.gen, seq |-> x.seq]

\* The derived order of Version: generation first, then sequence.
Newer(x, y) == x.gen > y.gen \/ (x.gen = y.gen /\ x.seq > y.seq)

-----------------------------------------------------------------------------
(***************************************************************************)
(* Observations: the public projection, legality, construction.            *)
(***************************************************************************)

Project(agent, delivery, recovery, outcome) ==
    IF agent = "gone" \/ (outcome = "done" /\ delivery = "accepted")
    THEN "exited"
    ELSE IF \/ outcome # "pending"
            \/ delivery \in {"pending", "retrying", "exhausted"}
            \/ recovery = "draining"
            \/ agent = "running"
            \/ agent # "booting" /\ recovery \in {"idle_waiting", "idle_fault"}
    THEN "working"
    ELSE IF agent = "booting" THEN "created" ELSE "idle"

WithPublic(o) ==
    [o EXCEPT !.public = Project(o.agent, o.delivery, o.recovery, o.outcome)]

IsLegal(o) ==
    /\ o.public = Project(o.agent, o.delivery, o.recovery, o.outcome)
    /\ ~o.live => o.recovery = "none"
    /\ o.agent = "gone" =>
         /\ o.outcome # "cancelled"
         /\ o.recovery = "none"
         /\ o.delivery = "accepted" => o.outcome = "done"
    /\ o.outcome = "cancelled" => o.delivery # "exhausted"
    /\ o.recovery \in {"idle_waiting", "idle_fault"} => o.agent = "idle"
    /\ o.recovery = "draining" => o.agent \in {"idle", "running"}
    /\ o.outcome = "done" =>
         /\ o.delivery = "accepted"
         /\ o.agent = "idle" => o.recovery = "draining"
    /\ o.delivery = "accepted" => o.agent # "booting"
    /\ o.delivery = "exhausted" => o.agent # "ready"

\* A live generation in the booting shape, at version v.
Booting(v, resource, mismatch) ==
    WithPublic([gen |-> v.gen, seq |-> v.seq, live |-> TRUE,
                mismatch |-> mismatch, agent |-> "booting",
                delivery |-> "none", resource |-> resource,
                recovery |-> "none", outcome |-> "pending",
                public |-> "created"])

MutInitial == Booting([gen |-> 0, seq |-> 0], "detached", 0)

Initial == Booting([gen |-> 1, seq |-> 0], "detached", 0)

At(o, v) == [o EXCEPT !.gen = v.gen, !.seq = v.seq]

SameTuple(o, p) ==
    /\ o.agent = p.agent
    /\ o.delivery = p.delivery
    /\ o.resource = p.resource
    /\ o.recovery = p.recovery
    /\ o.outcome = p.outcome
    /\ o.live = p.live

-----------------------------------------------------------------------------
(***************************************************************************)
(* Verdicts.  Ignored and Rejected keep the current observation.           *)
(***************************************************************************)

Applied(o) == [tag |-> "applied", obs |-> o]
Ignored(o) == [tag |-> "ignored", obs |-> o]
Rejected(o) == [tag |-> "rejected", obs |-> o]

MutFinishUnchecked(o, next) == Applied(WithPublic(next))

\* Recompute the projection, refuse an illegal tuple, drop a no-op.
Finish(o, next) ==
    LET n == WithPublic(next) IN
    IF ~IsLegal(n) THEN Rejected(o)
    ELSE IF SameTuple(o, n) /\ o.mismatch = n.mismatch THEN Ignored(o)
    ELSE Applied(n)

-----------------------------------------------------------------------------
(***************************************************************************)
(* The semantic rules, one operator per family of events.  `v` is the      *)
(* version of the event, already past the version gate.                    *)
(***************************************************************************)

TransitionDefined(o, agent) ==
    IF agent = "booting" THEN o.agent # "booting" ELSE o.agent # "gone"

\* The recovery a turn end leaves behind.
TurnEndRecovery(o) ==
    IF o.recovery \in {"draining", "idle_fault"} THEN o.recovery
    ELSE IF o.delivery \in {"pending", "retrying"} THEN "idle_waiting"
    ELSE "none"

Transition(o, agent) ==
    CASE agent = "booting" ->
           [o EXCEPT !.agent = agent, !.delivery = "none", !.recovery = "none"]
      [] agent = "ready" ->
           [o EXCEPT !.agent = agent,
                     !.recovery = IF @ = "draining" THEN "none" ELSE @]
      [] agent = "running" ->
           [o EXCEPT !.agent = agent, !.recovery = "none"]
      [] agent = "idle" ->
           [o EXCEPT !.agent = agent, !.recovery = TurnEndRecovery(o)]

MutStepUnguarded(o, v, agent) == Finish(o, At(Transition(o, agent), v))

Step(o, v, agent) ==
    IF TransitionDefined(o, agent) THEN Finish(o, At(Transition(o, agent), v))
    ELSE IF o.agent = "gone" THEN Ignored(o)
    ELSE Rejected(o)

AgentOf ==
    [created |-> "booting", ready |-> "ready",
     turn_started |-> "running", turn_ended |-> "idle"]

\* An authoritative snapshot; the liveness of the generation is kept.
Heartbeat(o, v, body) ==
    IF ~IsLegal(body) THEN Rejected(o)
    ELSE IF SameTuple(o, body) /\ o.mismatch = body.mismatch THEN Ignored(o)
    ELSE Finish(o, [At(body, v) EXCEPT !.live = o.live])

Complete(o, v) ==
    Finish(o, [At(o, v) EXCEPT
                 !.delivery = "pending",
                 !.recovery = IF o.agent = "idle" THEN "draining" ELSE @])

IntentPending(o, v) ==
    IF o.delivery \in {"none", "retrying", "exhausted"}
    THEN Finish(o, [At(o, v) EXCEPT !.delivery = "pending"])
    ELSE Ignored(o)

IntentRetry(o, v) ==
    IF o.delivery = "pending"
    THEN Finish(o, [At(o, v) EXCEPT
                      !.delivery = "retrying",
                      !.recovery = IF @ = "idle_waiting" THEN "none" ELSE @])
    ELSE Ignored(o)

IntentReceipt(o, v) ==
    IF o.delivery \in {"pending", "retrying"}
    THEN Finish(o, [At(o, v) EXCEPT !.delivery = "accepted",
                                    !.recovery = "none"])
    ELSE Ignored(o)

IntentExhausted(o, v) ==
    IF o.delivery \in {"pending", "retrying"}
    THEN Finish(o, [At(o, v) EXCEPT
                      !.delivery = "exhausted",
                      !.recovery = IF @ = "idle_waiting" THEN "idle_fault"
                                   ELSE @])
    ELSE Ignored(o)

ResourceAttach(o, v) ==
    CASE o.resource = "detached" ->
           Finish(o, [At(o, v) EXCEPT !.resource = "attached"])
      [] o.resource = "attached" -> Ignored(o)
      [] OTHER -> Rejected(o)

ResourceCloseRequested(o, v) ==
    IF o.resource \in {"detached", "closed"} THEN Ignored(o)
    ELSE Finish(o, [At(o, v) EXCEPT !.resource = "closing"])

\* A death of the generation keeps the resource only as something to close.
Dying(resource) == IF resource = "attached" THEN "closing" ELSE resource

MutResourceClosedKeepsAgent(o, v) ==
    IF o.resource \in {"detached", "closed"} THEN Ignored(o)
    ELSE Finish(o, [At(o, v) EXCEPT !.resource = "closed",
                                    !.live = FALSE,
                                    !.recovery = "none"])

\* A closed resource kills the agent fact it hosted.
ResourceClosed(o, v) ==
    LET closed == [At(o, v) EXCEPT !.resource = "closed"] IN
    IF o.resource \in {"detached", "closed"} THEN Ignored(o)
    ELSE IF ~o.live THEN Finish(o, closed)
    ELSE Finish(o, [closed EXCEPT
                      !.agent = "gone",
                      !.live = FALSE,
                      !.recovery = "none",
                      !.outcome = IF @ = "pending" THEN "failed" ELSE @])

MutAgentGoneKeepsCancelled(o, v) ==
    IF o.agent = "gone" THEN Ignored(o)
    ELSE Finish(o, [At(o, v) EXCEPT
           !.agent = "gone", !.live = FALSE, !.recovery = "none",
           !.resource = Dying(o.resource),
           !.outcome = IF @ = "pending" THEN "failed" ELSE @,
           !.delivery = IF o.delivery = "accepted" /\ o.outcome # "done"
                        THEN "retrying" ELSE @])

AgentGone(o, v) ==
    IF o.agent = "gone" THEN Ignored(o)
    ELSE Finish(o, [At(o, v) EXCEPT
           !.agent = "gone",
           !.live = FALSE,
           !.recovery = "none",
           !.resource = Dying(o.resource),
           !.outcome = IF @ \in {"pending", "cancelled"} THEN "failed" ELSE @,
           !.delivery = IF @ = "accepted" /\ o.outcome # "done"
                        THEN "retrying" ELSE @])

MutCancelSettled(o, v) == Finish(o, [At(o, v) EXCEPT !.outcome = "cancelled"])

Cancel(o, v) ==
    IF o.outcome = "pending"
    THEN Finish(o, [At(o, v) EXCEPT !.outcome = "cancelled"])
    ELSE Ignored(o)

Fail(o, v) ==
    LET next == [At(o, v) EXCEPT
                   !.outcome = "failed",
                   !.recovery = IF o.agent = "idle" THEN "idle_fault" ELSE @]
    IN IF SameTuple(o, next) THEN Ignored(o) ELSE Finish(o, next)

MutMismatchPastLimit(o, v) ==
    LET counted == [At(o, v) EXCEPT !.mismatch = o.mismatch + 1] IN
    IF counted.mismatch > TerminateAfter
    THEN Finish(o, [counted EXCEPT
           !.live = FALSE, !.agent = "gone", !.recovery = "none",
           !.outcome = "failed", !.resource = Dying(o.resource),
           !.delivery = IF @ = "accepted" THEN "retrying" ELSE @])
    ELSE IF counted.mismatch >= IsolateAfter
    THEN Finish(o, [counted EXCEPT
           !.recovery = IF o.agent = "idle" THEN "idle_fault" ELSE @])
    ELSE Applied(counted)

\* The ladder: count, isolate, terminate.  Below IsolateAfter the result is
\* returned without the checks of Finish.
ReconcileMismatch(o, v) ==
    LET counted == [At(o, v) EXCEPT !.mismatch = o.mismatch + 1] IN
    IF counted.mismatch > TerminateAfter THEN Ignored(o)
    ELSE IF counted.mismatch = TerminateAfter
    THEN Finish(o, [counted EXCEPT
           !.live = FALSE,
           !.agent = "gone",
           !.recovery = "none",
           !.outcome = "failed",
           !.resource = Dying(o.resource),
           !.delivery = IF @ = "accepted" THEN "retrying" ELSE @])
    ELSE IF counted.mismatch >= IsolateAfter
    THEN Finish(o, [counted EXCEPT
           !.recovery = IF o.agent = "idle" THEN "idle_fault" ELSE @])
    ELSE Applied(counted)

\* The no-op test compares the dimensions only, not the mismatch counter.
ReconcileOk(o, v) ==
    LET next == [At(o, v) EXCEPT
                   !.mismatch = 0,
                   !.recovery = IF @ = "idle_fault" THEN "none" ELSE @]
    IN IF SameTuple(o, next) THEN Ignored(o) ELSE Finish(o, next)

AdoptNewGeneration(o, v) ==
    Finish(o, [At(o, v) EXCEPT
                 !.live = TRUE,
                 !.mismatch = 0,
                 !.agent = "booting",
                 !.delivery = "none",
                 !.recovery = "none",
                 !.outcome = "pending"])

Supersede(o, v, body) ==
    IF ~IsLegal(body) THEN Rejected(o)
    ELSE Finish(o, [At(body, v) EXCEPT !.live = TRUE])

-----------------------------------------------------------------------------
(***************************************************************************)
(* The reducer: the version gate, the generation gate, the semantic rule.  *)
(***************************************************************************)

IsAdoption(e) == e.kind \in {"adopt_new_generation", "supersede"}

SemanticRule(o, e) ==
    LET v == VersionOf(e) IN
    CASE e.kind \in {"created", "ready", "turn_started", "turn_ended"} ->
           Step(o, v, AgentOf[e.kind])
      [] e.kind = "heartbeat" -> Heartbeat(o, v, e.body)
      [] e.kind = "complete" -> Complete(o, v)
      [] e.kind = "intent_pending" -> IntentPending(o, v)
      [] e.kind = "intent_retry" -> IntentRetry(o, v)
      [] e.kind = "intent_receipt" -> IntentReceipt(o, v)
      [] e.kind = "intent_exhausted" -> IntentExhausted(o, v)
      [] e.kind = "resource_attach" -> ResourceAttach(o, v)
      [] e.kind = "resource_close_requested" -> ResourceCloseRequested(o, v)
      [] e.kind = "resource_closed" -> ResourceClosed(o, v)
      [] e.kind = "agent_gone" -> AgentGone(o, v)
      [] e.kind = "cancel" -> Cancel(o, v)
      [] e.kind = "fail" -> Fail(o, v)
      [] e.kind = "reconcile_mismatch" -> ReconcileMismatch(o, v)
      [] e.kind = "reconcile_ok" -> ReconcileOk(o, v)
      [] e.kind = "adopt_new_generation" -> AdoptNewGeneration(o, v)
      [] OTHER -> Supersede(o, v, e.body)

MutApplyAdoptsLive(o, e) ==
    IF e.gen < o.gen THEN Ignored(o)
    ELSE IF e.gen = o.gen /\ e.seq <= o.seq /\ ~IsAdoption(e) THEN Ignored(o)
    ELSE IF e.gen > o.gen /\ ~IsAdoption(e) THEN Rejected(o)
    ELSE IF e.kind = "supersede" /\ ~e.oldDead THEN Rejected(o)
    ELSE SemanticRule(o, e)

Apply(o, e) ==
    IF e.gen < o.gen THEN Ignored(o)
    ELSE IF e.gen = o.gen /\ e.seq <= o.seq /\ ~IsAdoption(e) THEN Ignored(o)
    ELSE IF e.gen > o.gen /\ ~IsAdoption(e) THEN Rejected(o)
    ELSE IF e.kind = "adopt_new_generation" /\ o.live THEN Rejected(o)
    ELSE IF e.kind = "supersede" /\ ~e.oldDead THEN Rejected(o)
    ELSE SemanticRule(o, e)

=============================================================================
