--------------------------- MODULE LifecycleProofs ---------------------------
(***************************************************************************)
(* What one application of the reducer preserves, rule by rule.  Sound     *)
(* says what an applied verdict leaves behind; every rule is shown to be   *)
(* sound, then the reducer as a whole, then the events the daemon builds   *)
(* from a stored row.                                                      *)
(***************************************************************************)
EXTENDS SessionRow, TLAPS

\* The generation flag and the agent dimension agree.
Coherent(o) == o.live <=> o.agent # "gone"

\* The mismatch counter stays on the ladder, and its last rung is dead.
OnLadder(o) ==
    /\ o.mismatch <= TerminateAfter
    /\ o.mismatch = TerminateAfter => ~o.live

\* An applied verdict on `o` at version `v`.
Sound(o, v, d) ==
    d.tag = "applied" =>
      /\ d = Applied(d.obs)
      /\ d.obs \in Observation
      /\ d.obs.gen = v.gen /\ d.obs.seq = v.seq
      /\ IsLegal(d.obs)
      /\ OnLadder(o) => OnLadder(d.obs)

\* A rule that opens no generation keeps the two flags in step and a dead
\* generation dead.
Final(o, d) ==
    Coherent(o) /\ d.tag = "applied" =>
      Coherent(d.obs) /\ (~o.live => ~d.obs.live)

\* What a settled result may be replaced by within its generation: a delivered
\* handoff and a failure override it, and nothing makes it pending or relabels
\* it cancelled.
Overrides(o, outcome) ==
    o.outcome # "pending" => outcome \in {o.outcome, "done", "failed"}

\* A rule that keeps a settled result up to those overrides.  An observation
\* that projects `exited` projects something else again in one way only: a
\* fault relabels a delivered result.
Retains(o, d) ==
    IsLegal(o) /\ o.outcome # "pending" /\ d.tag = "applied" =>
      /\ Overrides(o, d.obs.outcome)
      /\ o.public = "exited" /\ d.obs.public # "exited"
           => o.outcome = "done" /\ d.obs.outcome = "failed"

\* A rule that opens a generation leaves a live agent in it.
Opens(d) == d.tag = "applied" => Coherent(d.obs)

-----------------------------------------------------------------------------

\* project is total on the enumerations.
LEMMA ProjectType ==
    ASSUME NEW agent, NEW delivery, NEW recovery, NEW outcome
    PROVE  Project(agent, delivery, recovery, outcome) \in PublicLifecycle
BY DEF Project, PublicLifecycle

\* WithPublic recomputes the projection and nothing else.
LEMMA WithPublicFields ==
    ASSUME NEW o \in Observation
    PROVE  LET n == WithPublic(o) IN
           /\ n \in Observation
           /\ n.gen = o.gen /\ n.seq = o.seq
           /\ n.live = o.live /\ n.mismatch = o.mismatch
           /\ n.agent = o.agent /\ n.delivery = o.delivery
           /\ n.resource = o.resource /\ n.recovery = o.recovery
           /\ n.outcome = o.outcome
           /\ n.public = Project(n.agent, n.delivery, n.recovery, n.outcome)
BY ProjectType DEF WithPublic, Observation

\* A result of finish is the candidate with its projection, and legal.
LEMMA FinishSound ==
    ASSUME NEW o, NEW n \in Observation
    PROVE  Finish(o, n).tag = "applied" =>
             /\ Finish(o, n) = Applied(WithPublic(n))
             /\ Finish(o, n).obs = WithPublic(n)
             /\ IsLegal(WithPublic(n))
BY DEF Finish, Applied, Ignored, Rejected

\* The candidate decides whether finish is sound.
LEMMA FinishIsSound ==
    ASSUME NEW o, NEW v, NEW n \in Observation,
           n.gen = v.gen, n.seq = v.seq,
           OnLadder(o) => OnLadder(n)
    PROVE  Sound(o, v, Finish(o, n))
BY FinishSound, WithPublicFields DEF Sound, OnLadder

LEMMA FinishIsFinal ==
    ASSUME NEW o, NEW n \in Observation,
           Coherent(o) => Coherent(n) /\ (~o.live => ~n.live)
    PROVE  Final(o, Finish(o, n))
BY FinishSound, WithPublicFields DEF Final, Coherent

\* A candidate that revives no agent and keeps or overrides the result: where
\* it is legal, a result that is done is accepted and hence `exited`.
LEMMA FinishRetains ==
    ASSUME NEW o \in Observation, NEW n \in Observation,
           Overrides(o, n.outcome), o.agent = "gone" => n.agent = "gone"
    PROVE  Retains(o, Finish(o, n))
<1> DEFINE m == WithPublic(n)
<1> SUFFICES ASSUME IsLegal(o), o.outcome # "pending",
                    Finish(o, n).tag = "applied"
             PROVE  /\ Overrides(o, m.outcome)
                    /\ o.public = "exited" /\ m.public # "exited"
                         => o.outcome = "done" /\ m.outcome = "failed"
  BY FinishSound DEF Retains
<1>1. /\ IsLegal(m) /\ m.agent = n.agent /\ m.outcome = n.outcome
  BY FinishSound, WithPublicFields
<1> HIDE DEF m
<1>2. m.outcome = "done" => m.public = "exited"
  BY <1>1 DEF IsLegal, Project
<1>3. m.agent = "gone" => m.public = "exited"
  BY <1>1 DEF IsLegal, Project
<1>4. o.public = "exited" => o.agent = "gone" \/ o.outcome = "done"
  BY DEF IsLegal, Project
<1> QED BY <1>1, <1>2, <1>3, <1>4 DEF Overrides

LEMMA FinishOpens ==
    ASSUME NEW o, NEW n \in Observation, Coherent(n)
    PROVE  Opens(Finish(o, n))
BY FinishSound, WithPublicFields DEF Opens, Coherent

\* A verdict that keeps the observation is sound.
LEMMA KeepIsSound ==
    ASSUME NEW o, NEW v
    PROVE  /\ Sound(o, v, Ignored(o)) /\ Sound(o, v, Rejected(o))
           /\ Final(o, Ignored(o)) /\ Final(o, Rejected(o))
           /\ Opens(Ignored(o)) /\ Opens(Rejected(o))
           /\ Retains(o, Ignored(o)) /\ Retains(o, Rejected(o))
BY DEF Sound, Final, Opens, Retains, Ignored, Rejected

-----------------------------------------------------------------------------
(***************************************************************************)
(* The rules.                                                              *)
(***************************************************************************)

StepKind == {"created", "ready", "turn_started", "turn_ended"}

LEMMA StepSound ==
    ASSUME NEW o \in Observation, NEW v \in Version, NEW kind \in StepKind
    PROVE  /\ Sound(o, v, Step(o, v, AgentOf[kind]))
           /\ kind # "created" => /\ Final(o, Step(o, v, AgentOf[kind]))
                                  /\ Retains(o, Step(o, v, AgentOf[kind]))
<1> DEFINE agent == AgentOf[kind]
           n == At(Transition(o, agent), v)
<1>1. agent \in {"booting", "ready", "running", "idle"}
  BY DEF StepKind, AgentOf
<1>2. /\ n \in Observation
      /\ n.gen = v.gen /\ n.seq = v.seq /\ n.agent = agent
      /\ n.live = o.live /\ n.mismatch = o.mismatch /\ n.outcome = o.outcome
  BY <1>1 DEF At, Transition, TurnEndRecovery, Observation, Version, AgentState,
              DeliveryState, RecoveryState
<1>3. CASE TransitionDefined(o, agent)
  <2>1. Step(o, v, agent) = Finish(o, n)
    BY <1>3 DEF Step
  <2>2. o.agent = "gone" => kind = "created"
    BY <1>3, <1>1 DEF TransitionDefined, AgentOf, StepKind
  <2> HIDE DEF n
  <2>3. Sound(o, v, Finish(o, n))
    BY <1>2, FinishIsSound DEF OnLadder
  <2>4. kind # "created" => Final(o, Finish(o, n))
    BY <1>1, <1>2, <2>2, FinishIsFinal DEF Coherent
  <2>5. kind # "created" => Retains(o, Finish(o, n))
    BY <1>2, <2>2, FinishRetains DEF Overrides
  <2> QED BY <2>1, <2>3, <2>4, <2>5
<1>4. CASE ~TransitionDefined(o, agent)
  BY <1>4, KeepIsSound DEF Step
<1> QED BY <1>3, <1>4

\* A candidate that keeps the generation's life is sound and final.
LEMMA SameLifeIsSound ==
    ASSUME NEW o \in Observation, NEW v, NEW n \in Observation,
           n.gen = v.gen, n.seq = v.seq, n.live = o.live,
           n.mismatch = o.mismatch, n.agent = o.agent,
           Overrides(o, n.outcome)
    PROVE  /\ Sound(o, v, Finish(o, n)) /\ Final(o, Finish(o, n))
           /\ Retains(o, Finish(o, n))
BY FinishIsSound, FinishIsFinal, FinishRetains DEF Coherent, OnLadder

\* So is one that ends it.
LEMMA EndIsSound ==
    ASSUME NEW o \in Observation, NEW v, NEW n \in Observation,
           n.gen = v.gen, n.seq = v.seq,
           ~n.live, n.agent = "gone",
           n.mismatch <= TerminateAfter \/ n.mismatch = o.mismatch,
           Overrides(o, n.outcome)
    PROVE  /\ Sound(o, v, Finish(o, n)) /\ Final(o, Finish(o, n))
           /\ Retains(o, Finish(o, n))
BY FinishIsSound, FinishIsFinal, FinishRetains DEF Coherent, OnLadder

LEMMA CompleteSound ==
    ASSUME NEW o \in Observation, NEW v \in Version
    PROVE  /\ Sound(o, v, Complete(o, v)) /\ Final(o, Complete(o, v))
           /\ Retains(o, Complete(o, v))
<1> DEFINE n == [At(o, v) EXCEPT
                  !.delivery = "pending",
                  !.recovery = IF o.agent = "idle" THEN "draining" ELSE @]
<1>1. /\ n \in Observation
      /\ n.gen = v.gen /\ n.seq = v.seq /\ n.live = o.live
      /\ n.mismatch = o.mismatch /\ n.agent = o.agent
      /\ Overrides(o, n.outcome)
  BY DEF At, Overrides, Observation, Version, AgentState, DeliveryState,
         ResourceState, RecoveryState, Outcome
<1>2. Complete(o, v) \in {Finish(o, n), Ignored(o), Rejected(o)}
  BY DEF Complete
<1> QED BY <1>1, <1>2, SameLifeIsSound, KeepIsSound

LEMMA IntentPendingSound ==
    ASSUME NEW o \in Observation, NEW v \in Version
    PROVE  /\ Sound(o, v, IntentPending(o, v)) /\ Final(o, IntentPending(o, v))
           /\ Retains(o, IntentPending(o, v))
<1> DEFINE n == [At(o, v) EXCEPT !.delivery = "pending"]
<1>1. /\ n \in Observation
      /\ n.gen = v.gen /\ n.seq = v.seq /\ n.live = o.live
      /\ n.mismatch = o.mismatch /\ n.agent = o.agent
      /\ Overrides(o, n.outcome)
  BY DEF At, Overrides, Observation, Version, AgentState, DeliveryState,
         ResourceState, RecoveryState, Outcome
<1>2. IntentPending(o, v) \in {Finish(o, n), Ignored(o), Rejected(o)}
  BY DEF IntentPending
<1> QED BY <1>1, <1>2, SameLifeIsSound, KeepIsSound

LEMMA IntentRetrySound ==
    ASSUME NEW o \in Observation, NEW v \in Version
    PROVE  /\ Sound(o, v, IntentRetry(o, v)) /\ Final(o, IntentRetry(o, v))
           /\ Retains(o, IntentRetry(o, v))
<1> DEFINE n == [At(o, v) EXCEPT
                  !.delivery = "retrying",
                  !.recovery = IF @ = "idle_waiting" THEN "none" ELSE @]
<1>1. /\ n \in Observation
      /\ n.gen = v.gen /\ n.seq = v.seq /\ n.live = o.live
      /\ n.mismatch = o.mismatch /\ n.agent = o.agent
      /\ Overrides(o, n.outcome)
  BY DEF At, Overrides, Observation, Version, AgentState, DeliveryState,
         ResourceState, RecoveryState, Outcome
<1>2. IntentRetry(o, v) \in {Finish(o, n), Ignored(o), Rejected(o)}
  BY DEF IntentRetry
<1> QED BY <1>1, <1>2, SameLifeIsSound, KeepIsSound

LEMMA IntentReceiptSound ==
    ASSUME NEW o \in Observation, NEW v \in Version
    PROVE  /\ Sound(o, v, IntentReceipt(o, v)) /\ Final(o, IntentReceipt(o, v))
           /\ Retains(o, IntentReceipt(o, v))
<1> DEFINE n == [At(o, v) EXCEPT !.delivery = "accepted", !.recovery = "none"]
<1>1. /\ n \in Observation
      /\ n.gen = v.gen /\ n.seq = v.seq /\ n.live = o.live
      /\ n.mismatch = o.mismatch /\ n.agent = o.agent
      /\ Overrides(o, n.outcome)
  BY DEF At, Overrides, Observation, Version, AgentState, DeliveryState,
         ResourceState, RecoveryState, Outcome
<1>2. IntentReceipt(o, v) \in {Finish(o, n), Ignored(o), Rejected(o)}
  BY DEF IntentReceipt
<1> QED BY <1>1, <1>2, SameLifeIsSound, KeepIsSound

LEMMA IntentExhaustedSound ==
    ASSUME NEW o \in Observation, NEW v \in Version
    PROVE  /\ Sound(o, v, IntentExhausted(o, v)) /\ Final(o, IntentExhausted(o, v))
           /\ Retains(o, IntentExhausted(o, v))
<1> DEFINE n == [At(o, v) EXCEPT
                  !.delivery = "exhausted",
                  !.recovery = IF @ = "idle_waiting" THEN "idle_fault" ELSE @]
<1>1. /\ n \in Observation
      /\ n.gen = v.gen /\ n.seq = v.seq /\ n.live = o.live
      /\ n.mismatch = o.mismatch /\ n.agent = o.agent
      /\ Overrides(o, n.outcome)
  BY DEF At, Overrides, Observation, Version, AgentState, DeliveryState,
         ResourceState, RecoveryState, Outcome
<1>2. IntentExhausted(o, v) \in {Finish(o, n), Ignored(o), Rejected(o)}
  BY DEF IntentExhausted
<1> QED BY <1>1, <1>2, SameLifeIsSound, KeepIsSound

LEMMA ResourceAttachSound ==
    ASSUME NEW o \in Observation, NEW v \in Version
    PROVE  /\ Sound(o, v, ResourceAttach(o, v)) /\ Final(o, ResourceAttach(o, v))
           /\ Retains(o, ResourceAttach(o, v))
<1> DEFINE n == [At(o, v) EXCEPT !.resource = "attached"]
<1>1. /\ n \in Observation
      /\ n.gen = v.gen /\ n.seq = v.seq /\ n.live = o.live
      /\ n.mismatch = o.mismatch /\ n.agent = o.agent
      /\ Overrides(o, n.outcome)
  BY DEF At, Overrides, Observation, Version, AgentState, DeliveryState,
         ResourceState, RecoveryState, Outcome
<1>2. ResourceAttach(o, v) \in {Finish(o, n), Ignored(o), Rejected(o)}
  BY DEF ResourceAttach
<1> QED BY <1>1, <1>2, SameLifeIsSound, KeepIsSound

LEMMA ResourceCloseRequestedSound ==
    ASSUME NEW o \in Observation, NEW v \in Version
    PROVE  /\ Sound(o, v, ResourceCloseRequested(o, v))
           /\ Final(o, ResourceCloseRequested(o, v))
           /\ Retains(o, ResourceCloseRequested(o, v))
<1> DEFINE n == [At(o, v) EXCEPT !.resource = "closing"]
<1>1. /\ n \in Observation
      /\ n.gen = v.gen /\ n.seq = v.seq /\ n.live = o.live
      /\ n.mismatch = o.mismatch /\ n.agent = o.agent
      /\ Overrides(o, n.outcome)
  BY DEF At, Overrides, Observation, Version, AgentState, DeliveryState,
         ResourceState, RecoveryState, Outcome
<1>2. ResourceCloseRequested(o, v) \in {Finish(o, n), Ignored(o), Rejected(o)}
  BY DEF ResourceCloseRequested
<1> QED BY <1>1, <1>2, SameLifeIsSound, KeepIsSound

LEMMA CancelSound ==
    ASSUME NEW o \in Observation, NEW v \in Version
    PROVE  /\ Sound(o, v, Cancel(o, v)) /\ Final(o, Cancel(o, v))
           /\ Retains(o, Cancel(o, v))
<1> DEFINE n == [At(o, v) EXCEPT !.outcome = "cancelled"]
<1>1. /\ n \in Observation
      /\ n.gen = v.gen /\ n.seq = v.seq /\ n.live = o.live
      /\ n.mismatch = o.mismatch /\ n.agent = o.agent
  BY DEF At, Observation, Version, AgentState, DeliveryState,
         ResourceState, RecoveryState, Outcome
<1>2. Cancel(o, v) = IF o.outcome = "pending" THEN Finish(o, n) ELSE Ignored(o)
  BY DEF Cancel
<1>3. o.outcome = "pending" => Overrides(o, n.outcome)
  BY DEF Overrides
<1> HIDE DEF n
<1> QED BY <1>1, <1>2, <1>3, SameLifeIsSound, KeepIsSound

\* The version of an observation is no dimension of it.
LEMMA AtFields ==
    ASSUME NEW o \in Observation, NEW v \in Version
    PROVE  LET n == At(o, v) IN
           /\ n \in Observation /\ n.gen = v.gen /\ n.seq = v.seq
           /\ n.live = o.live /\ n.mismatch = o.mismatch /\ n.agent = o.agent
           /\ n.delivery = o.delivery /\ n.resource = o.resource
           /\ n.recovery = o.recovery /\ n.outcome = o.outcome
           /\ n.public = o.public
BY DEF At, Observation, Version

LEMMA FailSound ==
    ASSUME NEW o \in Observation, NEW v \in Version
    PROVE  /\ Sound(o, v, Fail(o, v)) /\ Final(o, Fail(o, v))
           /\ Retains(o, Fail(o, v))
<1> DEFINE p == At(o, v)
           r == IF o.agent = "idle" THEN "idle_fault" ELSE p.recovery
           n == [p EXCEPT !.outcome = "failed", !.recovery = r]
<1>1. Fail(o, v) \in {Finish(o, n), Ignored(o), Rejected(o)}
  BY Zenon DEF Fail
<1>2. /\ p \in Observation /\ p.gen = v.gen /\ p.seq = v.seq /\ p.live = o.live
      /\ p.mismatch = o.mismatch /\ p.agent = o.agent /\ p.recovery = o.recovery
  BY AtFields
<1> HIDE DEF p
<1>3. r \in RecoveryState
  BY <1>2 DEF Observation, RecoveryState
<1> HIDE DEF r
<1>4. /\ n \in Observation
      /\ n.gen = v.gen /\ n.seq = v.seq /\ n.live = o.live
      /\ n.mismatch = o.mismatch /\ n.agent = o.agent
      /\ Overrides(o, n.outcome)
  BY <1>2, <1>3 DEF Observation, Outcome, Overrides
<1> HIDE DEF n
<1> QED BY <1>1, <1>4, SameLifeIsSound, KeepIsSound

LEMMA ResourceClosedSound ==
    ASSUME NEW o \in Observation, NEW v \in Version
    PROVE  /\ Sound(o, v, ResourceClosed(o, v)) /\ Final(o, ResourceClosed(o, v))
           /\ Retains(o, ResourceClosed(o, v))
<1> DEFINE p == At(o, v)
           closed == [p EXCEPT !.resource = "closed"]
           outcome == IF closed.outcome = "pending" THEN "failed" ELSE closed.outcome
           n == [closed EXCEPT
                   !.agent = "gone",
                   !.live = FALSE,
                   !.recovery = "none",
                   !.outcome = outcome]
<1>1. ResourceClosed(o, v) \in {Finish(o, closed), Finish(o, n), Ignored(o)}
  BY Zenon DEF ResourceClosed
<1>2. /\ p \in Observation /\ p.gen = v.gen /\ p.seq = v.seq /\ p.live = o.live
      /\ p.mismatch = o.mismatch /\ p.agent = o.agent /\ p.outcome = o.outcome
  BY AtFields
<1> HIDE DEF p
<1>3. /\ closed \in Observation
      /\ closed.gen = v.gen /\ closed.seq = v.seq /\ closed.live = o.live
      /\ closed.mismatch = o.mismatch /\ closed.agent = o.agent
      /\ closed.outcome = o.outcome
  BY <1>2 DEF Observation, ResourceState
<1> HIDE DEF closed
<1>4. outcome \in Outcome /\ Overrides(o, outcome) /\ Overrides(o, closed.outcome)
  BY <1>3 DEF Observation, Outcome, Overrides
<1> HIDE DEF outcome
<1>5. /\ n \in Observation /\ n.gen = v.gen /\ n.seq = v.seq
      /\ ~n.live /\ n.agent = "gone" /\ n.mismatch = o.mismatch
      /\ n.outcome = outcome
  BY <1>3, <1>4 DEF Observation, AgentState, RecoveryState
<1> HIDE DEF n
<1> QED BY <1>1, <1>3, <1>4, <1>5, SameLifeIsSound, EndIsSound, KeepIsSound

\* The tuple a death proposes: the delivery of a result that is not done is
\* taken back, and a result that was open or cancelled is failed.
LEMMA AgentGoneCandidate ==
    ASSUME NEW o \in Observation, NEW v \in Version
    PROVE  \E n \in Observation :
             /\ AgentGone(o, v) = IF o.agent = "gone" THEN Ignored(o) ELSE Finish(o, n)
             /\ n.gen = v.gen /\ n.seq = v.seq /\ n.mismatch = o.mismatch
             /\ ~n.live /\ n.agent = "gone" /\ n.recovery = "none"
             /\ n.outcome = IF o.outcome \in {"pending", "cancelled"} THEN "failed"
                            ELSE o.outcome
             /\ n.delivery = IF o.delivery = "accepted" /\ o.outcome # "done"
                             THEN "retrying" ELSE o.delivery
<1> DEFINE p == At(o, v)
           resource == Dying(o.resource)
           outcome == IF p.outcome \in {"pending", "cancelled"} THEN "failed"
                      ELSE p.outcome
           delivery == IF p.delivery = "accepted" /\ o.outcome # "done"
                       THEN "retrying" ELSE p.delivery
           n == [p EXCEPT !.agent = "gone", !.live = FALSE,
                          !.recovery = "none", !.resource = resource,
                          !.outcome = outcome, !.delivery = delivery]
<1>1. AgentGone(o, v) = IF o.agent = "gone" THEN Ignored(o) ELSE Finish(o, n)
  BY Zenon DEF AgentGone
<1>2. /\ p \in Observation /\ p.gen = v.gen /\ p.seq = v.seq
      /\ p.mismatch = o.mismatch /\ p.outcome = o.outcome /\ p.delivery = o.delivery
  BY AtFields
<1>3. resource \in ResourceState
  BY DEF Dying, Observation, ResourceState
<1> HIDE DEF p
<1>4. /\ outcome \in Outcome /\ delivery \in DeliveryState
      /\ outcome = IF o.outcome \in {"pending", "cancelled"} THEN "failed" ELSE o.outcome
      /\ delivery = IF o.delivery = "accepted" /\ o.outcome # "done"
                    THEN "retrying" ELSE o.delivery
  BY <1>2 DEF Observation, Outcome, DeliveryState
<1> HIDE DEF resource, outcome, delivery
<1> DEFINE q == [p EXCEPT !.agent = "gone", !.live = FALSE, !.recovery = "none"]
<1>q. /\ q \in Observation /\ q.gen = v.gen /\ q.seq = v.seq
      /\ ~q.live /\ q.agent = "gone" /\ q.mismatch = o.mismatch
      /\ q.recovery = "none"
  BY <1>2 DEF Observation, AgentState, RecoveryState
<1>n. n = [q EXCEPT !.resource = resource, !.outcome = outcome, !.delivery = delivery]
  BY SMT
<1> HIDE DEF n, q
<1>5. n \in Observation
  BY <1>q, <1>n, <1>3, <1>4 DEF Observation
<1>6. /\ n.gen = v.gen /\ n.seq = v.seq
      /\ ~n.live /\ n.agent = "gone" /\ n.mismatch = o.mismatch
      /\ n.recovery = "none" /\ n.outcome = outcome /\ n.delivery = delivery
  BY <1>q, <1>n DEF Observation
<1> QED BY <1>1, <1>4, <1>5, <1>6

LEMMA AgentGoneSound ==
    ASSUME NEW o \in Observation, NEW v \in Version
    PROVE  /\ Sound(o, v, AgentGone(o, v)) /\ Final(o, AgentGone(o, v))
           /\ Retains(o, AgentGone(o, v))
<1>1. PICK n \in Observation :
        /\ AgentGone(o, v) = IF o.agent = "gone" THEN Ignored(o) ELSE Finish(o, n)
        /\ n.gen = v.gen /\ n.seq = v.seq /\ n.mismatch = o.mismatch
        /\ ~n.live /\ n.agent = "gone" /\ Overrides(o, n.outcome)
  BY AgentGoneCandidate DEF Overrides
<1> QED BY <1>1, EndIsSound, KeepIsSound

\* A death is applied to every legal observation that is not dead already.
LEMMA AgentGoneApplies ==
    ASSUME NEW o \in Observation, NEW v \in Version, IsLegal(o), o.agent # "gone"
    PROVE  AgentGone(o, v).tag = "applied"
<1>1. PICK n \in Observation :
        /\ AgentGone(o, v) = Finish(o, n)
        /\ ~n.live /\ n.agent = "gone" /\ n.recovery = "none"
        /\ n.outcome = IF o.outcome \in {"pending", "cancelled"} THEN "failed"
                       ELSE o.outcome
        /\ n.delivery = IF o.delivery = "accepted" /\ o.outcome # "done"
                        THEN "retrying" ELSE o.delivery
  BY AgentGoneCandidate
<1>2. IsLegal(WithPublic(n))
  BY <1>1, WithPublicFields DEF IsLegal
<1>3. ~SameTuple(o, WithPublic(n))
  BY <1>1, WithPublicFields DEF SameTuple
<1> QED BY <1>1, <1>2, <1>3 DEF Finish, Applied

\* The branch below isolate_after skips finish: the tuple it returns is legal
\* because the one it counts on is, the counter being no dimension of it.
LEMMA ReconcileMismatchSound ==
    ASSUME NEW o \in Observation, NEW v \in Version, IsLegal(o)
    PROVE  /\ Sound(o, v, ReconcileMismatch(o, v))
           /\ Final(o, ReconcileMismatch(o, v))
           /\ Retains(o, ReconcileMismatch(o, v))
<1> DEFINE p == At(o, v)
           counted == [p EXCEPT !.mismatch = o.mismatch + 1]
           resource == Dying(o.resource)
           delivery == IF counted.delivery = "accepted" THEN "retrying"
                       ELSE counted.delivery
           recovery == IF o.agent = "idle" THEN "idle_fault" ELSE counted.recovery
           dead == [counted EXCEPT !.live = FALSE, !.agent = "gone",
                                   !.recovery = "none", !.outcome = "failed",
                                   !.resource = resource, !.delivery = delivery]
           isolated == [counted EXCEPT !.recovery = recovery]
<1>1. o.mismatch + 1 \in Nat /\ o.mismatch \in Nat /\ TerminateAfter \in Nat
        /\ IsolateAfter \in Nat
  BY PolicyAssumption DEF Observation
<1>2. /\ p \in Observation /\ p.gen = v.gen /\ p.seq = v.seq /\ p.live = o.live
      /\ p.agent = o.agent /\ p.delivery = o.delivery /\ p.recovery = o.recovery
      /\ p.outcome = o.outcome /\ p.public = o.public
  BY AtFields
<1> HIDE DEF p
<1>3. /\ counted \in Observation /\ counted.gen = v.gen /\ counted.seq = v.seq
      /\ counted.live = o.live /\ counted.mismatch = o.mismatch + 1
      /\ counted.agent = o.agent /\ counted.delivery = o.delivery
      /\ counted.recovery = o.recovery /\ counted.outcome = o.outcome
      /\ counted.public = o.public
  BY <1>1, <1>2 DEF Observation
<1>4. ReconcileMismatch(o, v) =
        IF counted.mismatch > TerminateAfter THEN Ignored(o)
        ELSE IF counted.mismatch = TerminateAfter THEN Finish(o, dead)
        ELSE IF counted.mismatch >= IsolateAfter THEN Finish(o, isolated)
        ELSE Applied(counted)
  BY Zenon DEF ReconcileMismatch, p
<1> HIDE DEF counted
<1>5. /\ resource \in ResourceState /\ delivery \in DeliveryState
      /\ recovery \in RecoveryState
  BY <1>3 DEF Dying, Observation, ResourceState, DeliveryState, RecoveryState
<1> HIDE DEF resource, delivery, recovery
<1>6. /\ dead \in Observation /\ dead.gen = v.gen /\ dead.seq = v.seq
      /\ ~dead.live /\ dead.agent = "gone" /\ dead.mismatch = o.mismatch + 1
      /\ Overrides(o, dead.outcome)
  BY <1>3, <1>5 DEF Observation, AgentState, RecoveryState, Outcome, Overrides
<1>7. /\ isolated \in Observation /\ isolated.gen = v.gen /\ isolated.seq = v.seq
      /\ isolated.live = o.live /\ isolated.mismatch = o.mismatch + 1
      /\ isolated.agent = o.agent /\ isolated.outcome = o.outcome
  BY <1>3, <1>5 DEF Observation
<1> HIDE DEF dead, isolated
<1>8. CASE o.mismatch + 1 > TerminateAfter
  BY <1>8, <1>3, <1>4, KeepIsSound
<1>9. CASE o.mismatch + 1 = TerminateAfter
  <2>1. ReconcileMismatch(o, v) = Finish(o, dead)
    BY <1>9, <1>1, <1>3, <1>4
  <2>2. dead.mismatch <= TerminateAfter
    BY <1>1, <1>6, <1>9
  <2> QED BY <2>1, <2>2, <1>6, EndIsSound
<1>10. CASE o.mismatch + 1 < TerminateAfter /\ o.mismatch + 1 >= IsolateAfter
  <2>1. ReconcileMismatch(o, v) = Finish(o, isolated)
    BY <1>10, <1>1, <1>3, <1>4
  <2>2. OnLadder(isolated) /\ (Coherent(o) => Coherent(isolated))
    BY <1>7, <1>1, <1>10 DEF OnLadder, Coherent
  <2>3. Retains(o, Finish(o, isolated))
    BY <1>7, FinishRetains DEF Overrides
  <2> QED BY <2>1, <2>2, <2>3, <1>7, FinishIsSound, FinishIsFinal
<1>11. CASE o.mismatch + 1 < TerminateAfter /\ ~(o.mismatch + 1 >= IsolateAfter)
  <2>1. ReconcileMismatch(o, v) = Applied(counted)
    BY <1>11, <1>1, <1>3, <1>4
  <2>2. IsLegal(counted)
    BY <1>3 DEF IsLegal
  <2>3. OnLadder(counted) /\ (Coherent(o) => Coherent(counted))
    BY <1>3, <1>1, <1>11 DEF OnLadder, Coherent
  <2>4. Retains(o, Applied(counted))
    BY <1>3 DEF Retains, Overrides, Applied
  <2> QED BY <2>1, <2>2, <2>3, <2>4, <1>3 DEF Sound, Final, Applied
<1> QED BY <1>1, <1>8, <1>9, <1>10, <1>11

LEMMA ReconcileOkSound ==
    ASSUME NEW o \in Observation, NEW v \in Version
    PROVE  /\ Sound(o, v, ReconcileOk(o, v)) /\ Final(o, ReconcileOk(o, v))
           /\ Retains(o, ReconcileOk(o, v))
<1> DEFINE n == [At(o, v) EXCEPT
                   !.mismatch = 0,
                   !.recovery = IF @ = "idle_fault" THEN "none" ELSE @]
<1>1. /\ n \in Observation
      /\ n.gen = v.gen /\ n.seq = v.seq /\ n.live = o.live
      /\ n.mismatch = 0 /\ n.agent = o.agent /\ n.outcome = o.outcome
  BY DEF At, Dying, Observation, Version, AgentState, DeliveryState,
         ResourceState, RecoveryState, Outcome
<1>2. ReconcileOk(o, v) \in {Finish(o, n), Ignored(o)}
  BY DEF ReconcileOk
<1> HIDE DEF n
<1>3. OnLadder(n) /\ (Coherent(o) => Coherent(n))
  BY <1>1, PolicyAssumption DEF OnLadder, Coherent
<1>4. Retains(o, Finish(o, n))
  BY <1>1, FinishRetains DEF Overrides
<1> QED BY <1>1, <1>2, <1>3, <1>4, FinishIsSound, FinishIsFinal, KeepIsSound

LEMMA AdoptSound ==
    ASSUME NEW o \in Observation, NEW v \in Version
    PROVE  Sound(o, v, AdoptNewGeneration(o, v)) /\ Opens(AdoptNewGeneration(o, v))
<1> DEFINE p == At(o, v)
           n == [p EXCEPT
                   !.live = TRUE,
                   !.mismatch = 0,
                   !.agent = "booting",
                   !.delivery = "none",
                   !.recovery = "none",
                   !.outcome = "pending"]
<1>1. AdoptNewGeneration(o, v) = Finish(o, n)
  BY Zenon DEF AdoptNewGeneration
<1>2. p \in Observation /\ p.gen = v.gen /\ p.seq = v.seq
  BY AtFields
<1> HIDE DEF p
<1> DEFINE q == [p EXCEPT !.live = TRUE, !.mismatch = 0, !.agent = "booting"]
<1>q. /\ q \in Observation /\ q.gen = v.gen /\ q.seq = v.seq /\ q.live
      /\ q.mismatch = 0 /\ q.agent = "booting"
  BY <1>2 DEF Observation, AgentState
<1>n. n = [q EXCEPT !.delivery = "none", !.recovery = "none", !.outcome = "pending"]
  BY SMT
<1> HIDE DEF n, q
<1>3. n \in Observation
  BY <1>q, <1>n DEF Observation, DeliveryState, RecoveryState, Outcome
<1>4. /\ n.gen = v.gen /\ n.seq = v.seq /\ n.live
      /\ n.mismatch = 0 /\ n.agent = "booting"
  BY <1>q, <1>n DEF Observation
<1>5. OnLadder(n) /\ Coherent(n)
  BY <1>4, PolicyAssumption DEF OnLadder, Coherent
<1> QED BY <1>1, <1>3, <1>4, <1>5, FinishIsSound, FinishOpens

LEMMA SupersedeSound ==
    ASSUME NEW o \in Observation, NEW v \in Version, NEW body \in Observation,
           body.agent # "gone", body.mismatch = 0
    PROVE  Sound(o, v, Supersede(o, v, body)) /\ Opens(Supersede(o, v, body))
<1> DEFINE n == [At(body, v) EXCEPT !.live = TRUE]
<1>1. /\ n \in Observation
      /\ n.gen = v.gen /\ n.seq = v.seq /\ n.live
      /\ n.mismatch = 0 /\ n.agent = body.agent
  BY DEF At, Dying, Observation, Version, AgentState, DeliveryState,
         ResourceState, RecoveryState, Outcome
<1>2. Supersede(o, v, body) \in {Finish(o, n), Rejected(o)}
  BY DEF Supersede
<1> HIDE DEF n
<1>3. OnLadder(n) /\ Coherent(n)
  BY <1>1, PolicyAssumption DEF OnLadder, Coherent
<1> QED BY <1>1, <1>2, <1>3, FinishIsSound, FinishOpens, KeepIsSound

LEMMA HeartbeatSound ==
    ASSUME NEW o \in Observation, NEW v \in Version, NEW body \in Observation,
           body.agent = "gone" <=> o.agent = "gone",
           body.mismatch = o.mismatch
    PROVE  /\ Sound(o, v, Heartbeat(o, v, body)) /\ Final(o, Heartbeat(o, v, body))
           /\ Overrides(o, body.outcome) => Retains(o, Heartbeat(o, v, body))
<1> DEFINE n == [At(body, v) EXCEPT !.live = o.live]
<1>1. /\ n \in Observation
      /\ n.gen = v.gen /\ n.seq = v.seq /\ n.live = o.live
      /\ n.mismatch = o.mismatch /\ n.agent = body.agent
      /\ n.outcome = body.outcome
  BY DEF At, Dying, Observation, Version, AgentState, DeliveryState,
         ResourceState, RecoveryState, Outcome
<1>2. Heartbeat(o, v, body) \in {Finish(o, n), Ignored(o), Rejected(o)}
  BY DEF Heartbeat
<1> HIDE DEF n
<1>3. (OnLadder(o) => OnLadder(n)) /\ (Coherent(o) => Coherent(n))
  BY <1>1 DEF OnLadder, Coherent
<1>4. Overrides(o, body.outcome) => Retains(o, Finish(o, n))
  BY <1>1, FinishRetains
<1> QED BY <1>1, <1>2, <1>3, <1>4, FinishIsSound, FinishIsFinal, KeepIsSound

-----------------------------------------------------------------------------
(***************************************************************************)
(* The reducer.                                                            *)
(***************************************************************************)

\* Every kind without a body is sound on a legal observation.  All but two are
\* final: adoption opens a generation, and `created` re-boots even a dead one.
LEMMA PlainRuleSound ==
    ASSUME NEW o \in Observation, IsLegal(o), NEW v \in Version,
           NEW kind \in PlainKind
    PROVE  LET d == SemanticRule(o, PlainEvent(kind, v)) IN
           /\ Sound(o, v, d)
           /\ kind \notin {"created", "adopt_new_generation"}
                => Final(o, d) /\ Retains(o, d)
           /\ kind = "adopt_new_generation" => Opens(d)
<1> DEFINE e == PlainEvent(kind, v)
<1>1. e.kind = kind /\ VersionOf(e) = v
  BY DEF PlainEvent, VersionOf, Version
<1> SUFFICES /\ Sound(o, v, SemanticRule(o, e))
             /\ kind \notin {"created", "adopt_new_generation"}
                  => Final(o, SemanticRule(o, e)) /\ Retains(o, SemanticRule(o, e))
             /\ kind = "adopt_new_generation" => Opens(SemanticRule(o, e))
  OBVIOUS
<1> HIDE DEF e
<1>2. CASE kind \in StepKind
  <2>1. SemanticRule(o, e) = Step(o, v, AgentOf[kind])
    BY <1>1, <1>2 DEF SemanticRule, StepKind
  <2>2. kind # "adopt_new_generation"
    BY <1>2 DEF StepKind
  <2> QED BY <2>1, <2>2, <1>2, StepSound
<1>3. CASE kind = "complete"
  <2>1. SemanticRule(o, e) = Complete(o, v)
    BY <1>1, <1>3 DEF SemanticRule
  <2> QED BY <2>1, <1>3, CompleteSound
<1>4. CASE kind = "intent_pending"
  <2>1. SemanticRule(o, e) = IntentPending(o, v)
    BY <1>1, <1>4 DEF SemanticRule
  <2> QED BY <2>1, <1>4, IntentPendingSound
<1>5. CASE kind = "intent_retry"
  <2>1. SemanticRule(o, e) = IntentRetry(o, v)
    BY <1>1, <1>5 DEF SemanticRule
  <2> QED BY <2>1, <1>5, IntentRetrySound
<1>6. CASE kind = "intent_receipt"
  <2>1. SemanticRule(o, e) = IntentReceipt(o, v)
    BY <1>1, <1>6 DEF SemanticRule
  <2> QED BY <2>1, <1>6, IntentReceiptSound
<1>7. CASE kind = "intent_exhausted"
  <2>1. SemanticRule(o, e) = IntentExhausted(o, v)
    BY <1>1, <1>7 DEF SemanticRule
  <2> QED BY <2>1, <1>7, IntentExhaustedSound
<1>8. CASE kind = "resource_attach"
  <2>1. SemanticRule(o, e) = ResourceAttach(o, v)
    BY <1>1, <1>8 DEF SemanticRule
  <2> QED BY <2>1, <1>8, ResourceAttachSound
<1>9. CASE kind = "resource_close_requested"
  <2>1. SemanticRule(o, e) = ResourceCloseRequested(o, v)
    BY <1>1, <1>9 DEF SemanticRule
  <2> QED BY <2>1, <1>9, ResourceCloseRequestedSound
<1>10. CASE kind = "resource_closed"
  <2>1. SemanticRule(o, e) = ResourceClosed(o, v)
    BY <1>1, <1>10 DEF SemanticRule
  <2> QED BY <2>1, <1>10, ResourceClosedSound
<1>11. CASE kind = "agent_gone"
  <2>1. SemanticRule(o, e) = AgentGone(o, v)
    BY <1>1, <1>11 DEF SemanticRule
  <2> QED BY <2>1, <1>11, AgentGoneSound
<1>12. CASE kind = "cancel"
  <2>1. SemanticRule(o, e) = Cancel(o, v)
    BY <1>1, <1>12 DEF SemanticRule
  <2> QED BY <2>1, <1>12, CancelSound
<1>13. CASE kind = "fail"
  <2>1. SemanticRule(o, e) = Fail(o, v)
    BY <1>1, <1>13 DEF SemanticRule
  <2> QED BY <2>1, <1>13, FailSound
<1>14. CASE kind = "reconcile_mismatch"
  <2>1. SemanticRule(o, e) = ReconcileMismatch(o, v)
    BY <1>1, <1>14 DEF SemanticRule
  <2> QED BY <2>1, <1>14, ReconcileMismatchSound
<1>15. CASE kind = "reconcile_ok"
  <2>1. SemanticRule(o, e) = ReconcileOk(o, v)
    BY <1>1, <1>15 DEF SemanticRule
  <2> QED BY <2>1, <1>15, ReconcileOkSound
<1>16. CASE kind = "adopt_new_generation"
  <2>1. SemanticRule(o, e) = AdoptNewGeneration(o, v)
    BY <1>1, <1>16 DEF SemanticRule
  <2> QED BY <2>1, <1>16, AdoptSound
<1> QED
  BY <1>2, <1>3, <1>4, <1>5, <1>6, <1>7, <1>8, <1>9, <1>10, <1>11, <1>12,
     <1>13, <1>14, <1>15, <1>16 DEF PlainKind, StepKind

\* The gates of apply only keep the observation or pass the event on.
LEMMA ApplyGates ==
    ASSUME NEW o, NEW e
    PROVE  Apply(o, e) \in {Ignored(o), Rejected(o), SemanticRule(o, e)}
BY DEF Apply

\* An event that is no adoption is applied only in the generation of the
\* observation, and past its watermark.
LEMMA ApplyAdvances ==
    ASSUME NEW o \in Observation, NEW e, e.gen \in Nat, e.seq \in Nat,
           Apply(o, e).tag = "applied", ~IsAdoption(e)
    PROVE  e.gen = o.gen /\ e.seq > o.seq
BY DEF Apply, Ignored, Rejected, Observation

-----------------------------------------------------------------------------
(***************************************************************************)
(* Rows: the observations and events the daemon builds, and what comes of  *)
(* reducing one of its events on a row.                                    *)
(***************************************************************************)

\* The constructors build legal observations of a live generation.
LEMMA BootingLegal ==
    ASSUME NEW v \in Version, NEW resource \in ResourceState, NEW mismatch \in Nat
    PROVE  LET o == Booting(v, resource, mismatch) IN
           /\ o \in Observation /\ IsLegal(o) /\ Coherent(o)
           /\ o.gen = v.gen /\ o.seq = v.seq
           /\ o.mismatch = mismatch /\ o.live /\ o.agent = "booting"
           /\ o.outcome = "pending"
<1> DEFINE p == [gen |-> v.gen, seq |-> v.seq, live |-> TRUE,
                 mismatch |-> mismatch, agent |-> "booting",
                 delivery |-> "none", resource |-> resource,
                 recovery |-> "none", outcome |-> "pending",
                 public |-> "created"]
<1>1. p \in Observation
  BY DEF Observation, Version, AgentState, DeliveryState, RecoveryState,
         Outcome, PublicLifecycle
<1>2. Booting(v, resource, mismatch) = WithPublic(p)
  BY DEF Booting
<1>3. /\ p.gen = v.gen /\ p.seq = v.seq /\ p.live /\ p.mismatch = mismatch
      /\ p.agent = "booting" /\ p.delivery = "none" /\ p.recovery = "none"
      /\ p.outcome = "pending"
  OBVIOUS
<1> HIDE DEF p
<1> QED BY <1>1, <1>2, <1>3, WithPublicFields DEF IsLegal, Coherent

LEMMA InitialLegal ==
    /\ Initial \in Observation /\ IsLegal(Initial) /\ Coherent(Initial)
    /\ Initial.gen = 1 /\ Initial.seq = 0 /\ Initial.mismatch = 0 /\ Initial.live
    /\ Initial.outcome = "pending"
<1>1. [gen |-> 1, seq |-> 0] \in Version
  BY DEF Version
<1>2. "detached" \in ResourceState
  BY DEF ResourceState
<1> QED BY <1>1, <1>2, BootingLegal DEF Initial

\* The row an event is reduced on.
LEMMA StoredLegal ==
    ASSUME NEW r \in Row, r # NoRow => IsLegal(r)
    PROVE  Stored(r) \in Observation /\ IsLegal(Stored(r))
BY InitialLegal DEF Row, Stored

\* The body settle builds keeps the life of the generation.
LEMMA SettleBodyFields ==
    ASSUME NEW o \in Observation, NEW outcome \in Outcome
    PROVE  LET body == SettleBody(o, outcome) IN
           /\ body \in Observation
           /\ body.agent = "gone" <=> o.agent = "gone"
           /\ body.mismatch = o.mismatch
           /\ body.outcome = outcome
<1> DEFINE agent == IF o.agent = "booting" THEN "idle" ELSE o.agent
           delivery == IF outcome = "done" THEN "accepted" ELSE o.delivery
           recovery == IF outcome = "done" /\ agent = "idle" /\ o.live
                       THEN "draining" ELSE "none"
           p == [o EXCEPT !.agent = agent, !.delivery = delivery,
                          !.recovery = recovery, !.outcome = outcome]
<1>1. SettleBody(o, outcome) = WithPublic(p)
  BY Zenon DEF SettleBody
<1>2. agent \in AgentState /\ (agent = "gone" <=> o.agent = "gone")
  BY DEF AgentState, Observation
<1>3. delivery \in DeliveryState /\ recovery \in RecoveryState
  BY DEF DeliveryState, RecoveryState, Observation
<1> HIDE DEF agent, delivery, recovery
<1>4. /\ p \in Observation /\ p.agent = agent /\ p.mismatch = o.mismatch
      /\ p.outcome = outcome
  BY <1>2, <1>3 DEF Observation
<1> HIDE DEF p
<1> QED BY <1>1, <1>2, <1>4, WithPublicFields

LEMMA ReducePlain ==
    ASSUME NEW r \in Row, r # NoRow => IsLegal(r),
           NEW kind \in PlainKind, NEW v \in Version
    PROVE  LET d == Reduce(r, PlainEvent(kind, v)) IN
           /\ Sound(Stored(r), v, d)
           /\ kind \notin {"created", "adopt_new_generation"}
                => Final(Stored(r), d) /\ Retains(Stored(r), d)
           /\ kind = "adopt_new_generation" \/ (r = NoRow /\ kind = "created")
                => Opens(d)
<1> DEFINE o == Stored(r)
           e == PlainEvent(kind, v)
<1>1. o \in Observation /\ IsLegal(o)
  BY StoredLegal
<1>2. e.kind = kind /\ VersionOf(e) = v
  BY DEF PlainEvent, VersionOf, Version
<1>3. CASE r = NoRow /\ kind = "created"
  <2>1. Reduce(r, e) = Applied(Booting(v, "detached", 0))
    BY <1>2, <1>3 DEF Reduce
  <2>2. "detached" \in ResourceState /\ 0 \in Nat
    BY DEF ResourceState
  <2>3. LET b == Booting(v, "detached", 0) IN
        /\ b \in Observation /\ IsLegal(b) /\ Coherent(b)
        /\ b.gen = v.gen /\ b.seq = v.seq /\ b.mismatch = 0
    BY <2>2, BootingLegal
  <2> HIDE DEF e, o
  <2>4. Sound(o, v, Reduce(r, e)) /\ Opens(Reduce(r, e))
    BY <2>1, <2>3, PolicyAssumption DEF Sound, Opens, OnLadder, Applied
  <2> QED BY <2>4, <1>3 DEF e, o
<1>4. CASE ~(r = NoRow /\ kind = "created")
  <2>1. Reduce(r, e) = Apply(o, e)
    BY <1>2, <1>4 DEF Reduce
  <2>2. Reduce(r, e) \in {Ignored(o), Rejected(o), SemanticRule(o, e)}
    BY <2>1, ApplyGates
  <2>3. /\ Sound(o, v, SemanticRule(o, e))
        /\ kind \notin {"created", "adopt_new_generation"}
             => Final(o, SemanticRule(o, e)) /\ Retains(o, SemanticRule(o, e))
        /\ kind = "adopt_new_generation" => Opens(SemanticRule(o, e))
    BY <1>1, PlainRuleSound
  <2> HIDE DEF e, o
  <2>4. /\ Sound(o, v, Reduce(r, e))
        /\ kind \notin {"created", "adopt_new_generation"}
             => Final(o, Reduce(r, e)) /\ Retains(o, Reduce(r, e))
        /\ kind = "adopt_new_generation" => Opens(Reduce(r, e))
    BY <2>2, <2>3, KeepIsSound
  <2> QED BY <2>4, <1>4 DEF e, o
<1> QED BY <1>3, <1>4

LEMMA ReduceSettle ==
    ASSUME NEW r \in Row, r # NoRow => IsLegal(r), NEW outcome \in Outcome
    PROVE  /\ Sound(Stored(r), NextVersion(r), Reduce(r, SettleEvent(r, outcome)))
           /\ Final(Stored(r), Reduce(r, SettleEvent(r, outcome)))
           /\ Overrides(Stored(r), outcome)
                => Retains(Stored(r), Reduce(r, SettleEvent(r, outcome)))
<1> DEFINE o == Stored(r)
           v == NextVersion(r)
           body == SettleBody(o, outcome)
           e == SettleEvent(r, outcome)
<1>1. o \in Observation
  BY StoredLegal
<1>2. v \in Version
  BY <1>1 DEF NextVersion, Observation, Version
<1>3. e.kind = "heartbeat" /\ VersionOf(e) = v /\ e.body = body
  BY DEF SettleEvent, VersionOf, NextVersion
<1>4. Reduce(r, e) = Apply(o, e)
  BY <1>3 DEF Reduce
<1>5. Reduce(r, e) \in {Ignored(o), Rejected(o), SemanticRule(o, e)}
  BY <1>4, ApplyGates
<1>6. body \in Observation /\ (body.agent = "gone" <=> o.agent = "gone")
        /\ body.mismatch = o.mismatch /\ body.outcome = outcome
  BY <1>1, SettleBodyFields
<1> SUFFICES /\ Sound(o, v, Reduce(r, e)) /\ Final(o, Reduce(r, e))
             /\ Overrides(o, outcome) => Retains(o, Reduce(r, e))
  OBVIOUS
<1> HIDE DEF o, v, e, body
<1>7. SemanticRule(o, e) = Heartbeat(o, v, body)
  BY <1>3 DEF SemanticRule
<1> QED BY <1>1, <1>2, <1>5, <1>6, <1>7, HeartbeatSound, KeepIsSound

\* The event of a rebind is built of a row `s` that another call may have
\* replaced by `r` meanwhile.
LEMMA ReduceRebind ==
    ASSUME NEW r \in Row, r # NoRow => IsLegal(r), NEW s \in Observation
    PROVE  /\ Sound(Stored(r), VersionOf(RebindEvent(s)), Reduce(r, RebindEvent(s)))
           /\ Opens(Reduce(r, RebindEvent(s)))
<1> DEFINE o == Stored(r)
           e == RebindEvent(s)
           v == [gen |-> s.gen + 1, seq |-> s.seq + 1]
           body == Booting(v, "attached", 0)
<1>1. v \in Version /\ "attached" \in ResourceState /\ 0 \in Nat
  BY DEF Version, Observation, ResourceState
<1>2. e.kind = "supersede" /\ VersionOf(e) = v /\ e.body = body
  BY DEF RebindEvent, VersionOf
<1>3. o \in Observation
  BY StoredLegal
<1>4. Reduce(r, e) = Apply(o, e)
  BY <1>2 DEF Reduce
<1>5. Reduce(r, e) \in {Ignored(o), Rejected(o), SemanticRule(o, e)}
  BY <1>4, ApplyGates
<1>6. body \in Observation /\ body.agent # "gone" /\ body.mismatch = 0
  BY <1>1, BootingLegal
<1> SUFFICES Sound(o, VersionOf(e), Reduce(r, e)) /\ Opens(Reduce(r, e))
  OBVIOUS
<1> HIDE DEF o, v, e, body
<1>7. SemanticRule(o, e) = Supersede(o, v, body)
  BY <1>2 DEF SemanticRule
<1> QED BY <1>1, <1>2, <1>3, <1>5, <1>6, <1>7, SupersedeSound, KeepIsSound

\* The version of an event the daemon allocates.
LEMMA NextVersionType ==
    ASSUME NEW r \in Row
    PROVE  /\ NextVersion(r) \in Version
           /\ NextVersion(r).gen = Stored(r).gen
           /\ NextVersion(r).seq = Stored(r).seq + 1
BY InitialLegal DEF NextVersion, Version, Observation, Row, Stored

\* At the next version the gates of apply pass every event on.
LEMMA NextVersionPasses ==
    ASSUME NEW o \in Observation, NEW e,
           e.gen = o.gen, e.seq = o.seq + 1, ~IsAdoption(e)
    PROVE  Apply(o, e) = SemanticRule(o, e)
BY DEF Apply, IsAdoption, Observation

=============================================================================
