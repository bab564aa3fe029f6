------------------------------ MODULE Recovery ------------------------------
(***************************************************************************)
(* How lost work is found and given an owner: the reconcile pass over the  *)
(* session rows, the fault queue, the recovery tasks, and the operator's   *)
(* repair commands, composed with the task rows they read and settle.      *)
(*                                                                         *)
(* A life of the scheduler boots first: one pass over every open row, then *)
(* the reaper that fails or adopts the tasks of the life before.  After    *)
(* that the reap loop repeats the pass, the event pump hears frames of the *)
(* agents, and a connection carries repairs.  A thread runs a program, a   *)
(* sequence of steps; a step is one read or write of the database or one   *)
(* call out, and may prepend more.  A feed of a session row is one step:   *)
(* FeedsSerialise of SessionLedger is what allows that.                    *)
(*                                                                         *)
(* Left to the other modules: the hops, maps and clocks of the scheduler   *)
(* (TaskLedger) and the control frames a closing tab is sent (Intents).    *)
(***************************************************************************)
EXTENDS SessionRow, Sequences, FiniteSets, SequencesExt

CONSTANTS
    Task,          \* task ids
    Work,          \* those dispatched when the model begins; the rest are fresh
    NoTask,
    Threads,       \* the threads of a booted scheduler, a subset of AllThreads
    Frames,        \* the kinds of frame agents report
    Results,       \* the results sessions hand off, of {"done", "failed"}
    FrameSeq,      \* the sequences they count
    Orders,        \* the repairs operators ask for, a subset of AllOrders
    Faults,        \* what may go wrong outside, a subset of AllFaults
    MaxGen,        \* bound: no repair opens a generation above this one
    MaxEvents      \* bound: the frames, repairs, detachments of a tab and
                   \* crashes of a behaviour, together

AllThreads == {"pump", "reaper", "conn"}
AllOrders == {"retry", "fail", "close", "ack", "adopt", "rebind"}

\* A probe errs, a spawn is refused, a tab does not close.
AllFaults == {"probe", "spawn", "close"}

ASSUME RecoveryAssumption ==
    /\ IsFiniteSet(Task) /\ Work \subseteq Task /\ NoTask \notin Task
    /\ Threads \subseteq AllThreads
    /\ Frames \subseteq ReportKind
    /\ Results \subseteq {"done", "failed"}
    /\ Orders \subseteq AllOrders
    /\ Faults \subseteq AllFaults
    /\ FrameSeq \subseteq Nat
    /\ MaxGen \in Nat /\ MaxEvents \in Nat

VARIABLES
    state,       \* tasks.state; "absent" before the row exists
    cause,       \* tasks.failure_of: the fault a recovery answers, 0 for none
    row,         \* the session row of each task
    faults,      \* the rows of faults, in the order of their ids
    prog,        \* the program of each thread
    phase,       \* "boot", then "up"
    tracked,     \* the keys of terminals: whose tab this life can close
    tab,         \* the resource of a task: "none", "open", "detached", "gone"
    said,        \* the frames agents have sent, which may arrive again and late
    events       \* how many of MaxEvents there were

ledger == <<state, cause>>
outside == <<tab, said, events>>
vars == <<ledger, row, faults, prog, phase, tracked, outside>>

Settled == {"done", "closed", "failed", "cancelled"}
Owed == {"pending", "running"}

\* probe_target finds no reference before the task was ever dispatched.
Bound(t) == tab[t] # "none"

\* outcome_of_task_state.
OutcomeOf(s) ==
    CASE s \in {"done", "closed"} -> "done"
      [] s \in {"failed", "cancelled"} -> s
      [] OTHER -> "pending"

FaultKind ==
    {"probe_dead", "mismatch_terminate", "agent_reported", "operator_fail"}

\* RECOVERY_FAULT_KINDS, without the exhausted lines of Intents.
RecoveryKind == {"probe_dead", "mismatch_terminate", "agent_reported"}

Fault ==
    [task : Task, kind : FaultKind, gen : Nat,
     state : {"open", "recovery_created", "acked"}, recovery : Task \cup {NoTask}]

-----------------------------------------------------------------------------
(***************************************************************************)
(* The steps of a program.                                                 *)
(***************************************************************************)

\* The reconcile pass.
List == [op |-> "list"]
Look(t, obs) == [op |-> "look", task |-> t, obs |-> obs]
Reread(t) == [op |-> "reread", task |-> t]
Probe(t, obs) == [op |-> "probe", task |-> t, obs |-> obs]
Dead(t, obs) == [op |-> "dead", task |-> t, obs |-> obs]
Mismatch(t, obs) == [op |-> "mismatch", task |-> t, obs |-> obs]

\* A feed of the session row; the result a settle mirrors.
Feed(t, kind) == [op |-> "feed", task |-> t, kind |-> kind]
Mirror(t, outcome) == [op |-> "mirror", task |-> t, outcome |-> outcome]

\* record_fault and open_recovery_task.
Record(t, kind) == [op |-> "record", task |-> t, kind |-> kind]
Insert(t, kind, g) == [op |-> "insert", task |-> t, kind |-> kind, gen |-> g]
Recover(f, twice) == [op |-> "recover", fault |-> f, twice |-> twice]
Create(f, twice) == [op |-> "create", fault |-> f, twice |-> twice]
Link(f, r) == [op |-> "link", fault |-> f, task |-> r]

\* dispatch, and the end of a task.
Spawn(t) == [op |-> "spawn", task |-> t]
SetState(t, s) == [op |-> "set_state", task |-> t, state |-> s]
EarlyExit(t) == [op |-> "early_exit", task |-> t]
Recycled(t) == [op |-> "recycled", task |-> t]
CloseTab(t) == [op |-> "close_tab", task |-> t]
Reap == [op |-> "reap"]
ReapOne(t) == [op |-> "reap_one", task |-> t]
Sweep == [op |-> "sweep"]
SweepOne(t) == [op |-> "sweep_one", task |-> t]

\* Frames and repairs.
Report(f) == [op |-> "report", task |-> f.task, frame |-> f]
Out(f) == [op |-> "out", task |-> f.task, frame |-> f]
Repair(t, order) == [op |-> "repair", task |-> t, order |-> order]
Adopt(t, obs) == [op |-> "adopt", task |-> t, obs |-> obs]
AdoptGone(t, obs) == [op |-> "adopt_gone", task |-> t, obs |-> obs]
AdoptNext(t, obs) == [op |-> "adopt_next", task |-> t, obs |-> obs]
Rebind(t, obs) == [op |-> "rebind", task |-> t, obs |-> obs]
RebindNext(t, obs) == [op |-> "rebind_next", task |-> t, obs |-> obs]

AllWorkers == AllThreads \cup {"boot"}

Idle(w) == w \in Threads /\ phase = "up" /\ prog[w] = <<>>

Runs(w, op) == prog[w] # <<>> /\ Head(prog[w]).op = op

Begin(w, steps) == prog' = [prog EXCEPT ![w] = steps]

\* The step is over and `steps` come next.
Then(w, steps) == prog' = [prog EXCEPT ![w] = steps \o Tail(@)]

\* One step for each task of S, in an order of its own.
ThenEach(w, S, Visit(_)) ==
    \E order \in SetToSeqs(S) :
      Then(w, [i \in DOMAIN order |-> Visit(order[i])])

Counted == events < MaxEvents /\ events' = events + 1

When(condition, steps) == IF condition THEN steps ELSE <<>>

-----------------------------------------------------------------------------
(***************************************************************************)
(* Session rows.                                                           *)
(***************************************************************************)

\* apply_persist.
Fed(r, e) ==
    LET verdict == Reduce(r, e) IN
    IF verdict.tag = "applied" THEN Upsert(r, verdict.obs) ELSE r

FedNext(r, kind) == Fed(r, PlainEvent(kind, NextVersion(r)))

\* The row dispatch leaves: feed_dispatched on a task without one.
Dispatched == FedNext(FedNext(NoRow, "created"), "resource_attach")

\* feed_created leaves an existing row alone, and feed_delivered receipts only
\* a completion that was applied.
DoFeed(w) ==
    /\ Runs(w, "feed")
    /\ LET t == Head(prog[w]).task
           kind == Head(prog[w]).kind IN
         /\ row' = [row EXCEPT ![t] =
                   IF kind = "created" /\ @ # NoRow THEN @ ELSE FedNext(@, kind)]
         /\ Then(w, When(kind = "complete" /\ row'[t] # row[t],
                         <<Feed(t, "intent_receipt")>>))
    /\ UNCHANGED <<ledger, faults, phase, tracked, outside>>

\* settle, as the pass mirrors a result.
DoMirror(w) ==
    /\ Runs(w, "mirror")
    /\ LET t == Head(prog[w]).task IN
         row' = [row EXCEPT ![t] = Fed(@, SettleEvent(@, Head(prog[w]).outcome))]
    /\ Then(w, <<>>)
    /\ UNCHANGED <<ledger, faults, phase, tracked, outside>>

Init ==
    /\ state = [t \in Task |-> IF t \in Work THEN "running" ELSE "absent"]
    /\ cause = [t \in Task |-> 0]
    /\ row = [t \in Task |-> IF t \in Work THEN Dispatched ELSE NoRow]
    /\ faults = <<>>
    /\ prog = [w \in AllWorkers |-> <<>>]
    /\ phase = "up"
    /\ tracked = Work
    /\ tab = [t \in Task |-> IF t \in Work THEN "open" ELSE "none"]
    /\ said = {}
    /\ events = 0

-----------------------------------------------------------------------------
(***************************************************************************)
(* The reconcile pass.                                                     *)
(***************************************************************************)

\* The rows as one statement lists them; a terminal tuple is history.
DoList(w) ==
    /\ Runs(w, "list")
    /\ LET open == {t \in Task : row[t] # NoRow /\ row[t].public # "exited"}
           LookAt(t) == Look(t, row[t]) IN
         ThenEach(w, open, LookAt)
    /\ UNCHANGED <<ledger, row, faults, phase, tracked, outside>>

\* The result of the task is mirrored first, and the row read again.
DoLook(w) ==
    /\ Runs(w, "look")
    /\ LET t == Head(prog[w]).task
           obs == Head(prog[w]).obs IN
         Then(w, IF obs.outcome = "pending" /\ state[t] \in Settled
                 THEN <<Mirror(t, OutcomeOf(state[t])), Reread(t)>>
                 ELSE <<Probe(t, obs)>>)
    /\ UNCHANGED <<ledger, row, faults, phase, tracked, outside>>

DoReread(w) ==
    /\ Runs(w, "reread")
    /\ LET t == Head(prog[w]).task
           current == Stored(row[t]) IN
         Then(w, When(current.public # "exited", <<Probe(t, current)>>))
    /\ UNCHANGED <<ledger, row, faults, phase, tracked, outside>>

\* What the pass does with an answer: a tab that is gone, one that disagrees
\* with the tuple, and one that confirms it.
Judged(t, obs) ==
    IF tab[t] = "gone" THEN <<Dead(t, obs)>>
    ELSE IF \/ ~obs.live \/ obs.agent = "gone"
            \/ obs.resource = "attached" /\ tab[t] = "detached"
         THEN <<Mismatch(t, obs)>>
         ELSE When(obs.resource = "detached", <<Feed(t, "resource_attach")>>)
                \o When(obs.mismatch > 0 \/ obs.recovery # "none",
                        <<Feed(t, "reconcile_ok")>>)

ProbeAnswers(w) ==
    /\ Runs(w, "probe") /\ Bound(Head(prog[w]).task)
    /\ Then(w, Judged(Head(prog[w]).task, Head(prog[w]).obs))
    /\ UNCHANGED <<ledger, row, faults, phase, tracked, outside>>

\* No reference, or an error: the tuple stays where it is.
ProbeUnknown(w) ==
    /\ Runs(w, "probe")
    /\ "probe" \in Faults \/ ~Bound(Head(prog[w]).task)
    /\ Then(w, <<>>)
    /\ UNCHANGED <<ledger, row, faults, phase, tracked, outside>>

MutDoDeadFailsFirst(w) ==
    /\ Runs(w, "dead")
    /\ LET t == Head(prog[w]).task
           owed == Head(prog[w]).obs.outcome = "pending" IN
         Then(w, When(owed, <<Feed(t, "fail")>>) \o <<Feed(t, "agent_gone")>>
                   \o When(owed /\ state[t] \notin Settled,
                           <<Record(t, "probe_dead")>>))
    /\ UNCHANGED <<ledger, row, faults, phase, tracked, outside>>

MutDoDeadKeepsAgent(w) ==
    /\ Runs(w, "dead")
    /\ LET t == Head(prog[w]).task
           owed == Head(prog[w]).obs.outcome = "pending" IN
         Then(w, When(owed /\ state[t] \notin Settled, <<Record(t, "probe_dead")>>)
                   \o When(owed, <<Feed(t, "fail")>>))
    /\ UNCHANGED <<ledger, row, faults, phase, tracked, outside>>

\* reconcile_dead: work still owed goes to the queue before the tuple flips.
DoDead(w) ==
    /\ Runs(w, "dead")
    /\ LET t == Head(prog[w]).task
           owed == Head(prog[w]).obs.outcome = "pending" IN
         Then(w, When(owed /\ state[t] \notin Settled, <<Record(t, "probe_dead")>>)
                   \o When(owed, <<Feed(t, "fail")>>)
                   \o <<Feed(t, "agent_gone")>>)
    /\ UNCHANGED <<ledger, row, faults, phase, tracked, outside>>

\* reconcile_mismatch: the limit of the ladder is a fault.
DoMismatch(w) ==
    /\ Runs(w, "mismatch")
    /\ LET t == Head(prog[w]).task
           verdict == Reduce(row[t], PlainEvent("reconcile_mismatch",
                                                NextVersion(row[t])))
           ended == /\ verdict.tag = "applied"
                    /\ verdict.obs.public = "exited"
                    /\ verdict.obs.outcome = "failed" IN
         /\ row' = [row EXCEPT ![t] = FedNext(@, "reconcile_mismatch")]
         /\ Then(w, When(/\ Head(prog[w]).obs.mismatch + 1 >= TerminateAfter
                         /\ ended,
                         <<Record(t, "mismatch_terminate")>>))
    /\ UNCHANGED <<ledger, faults, phase, tracked, outside>>

-----------------------------------------------------------------------------
(***************************************************************************)
(* Faults and the tasks that recover them.                                 *)
(***************************************************************************)

GenOf(t) == IF row[t] = NoRow THEN 0 ELSE row[t].gen

MutQueuedByRecovery(t, kind, g) ==
    \E f \in DOMAIN faults :
      /\ faults[f].task = t /\ faults[f].kind = kind /\ faults[f].gen = g
      /\ faults[f].recovery # NoTask

\* A fault of this kind about this generation is in the queue, acked or not.
Queued(t, kind, g) ==
    \E f \in DOMAIN faults :
      faults[f].task = t /\ faults[f].kind = kind /\ faults[f].gen = g

\* record_fault up to its lookup.
DoRecord(w) ==
    /\ Runs(w, "record")
    /\ LET t == Head(prog[w]).task
           kind == Head(prog[w]).kind IN
         Then(w, When(~Queued(t, kind, GenOf(t)), <<Insert(t, kind, GenOf(t))>>))
    /\ UNCHANGED <<ledger, row, faults, phase, tracked, outside>>

\* insert_fault.
DoInsert(w) ==
    /\ Runs(w, "insert")
    /\ faults' = Append(faults, [task |-> Head(prog[w]).task,
                                 kind |-> Head(prog[w]).kind,
                                 gen |-> Head(prog[w]).gen,
                                 state |-> "open", recovery |-> NoTask])
    /\ Then(w, <<Recover(Len(faults'), FALSE)>>)
    /\ UNCHANGED <<ledger, row, phase, tracked, outside>>

MutRecoverableAnyLayer(f) ==
    /\ faults[f].kind \in RecoveryKind
    /\ state[faults[f].task] \in Owed

\* open_recovery_task, its gates: the kind, a result, and the single layer.
Recoverable(f) ==
    /\ faults[f].kind \in RecoveryKind
    /\ state[faults[f].task] \in Owed
    /\ cause[faults[f].task] = 0

DoRecover(w) ==
    /\ Runs(w, "recover")
    /\ Then(w, When(Recoverable(Head(prog[w]).fault),
                    <<Create(Head(prog[w]).fault, Head(prog[w]).twice)>>))
    /\ UNCHANGED <<ledger, row, faults, phase, tracked, outside>>

\* insert_task under a fresh id.  Without one the write is taken to fail, and
\* the fault stays as it is.  repair retry dispatches what it opened once more.
DoCreate(w) ==
    /\ Runs(w, "create")
    /\ LET f == Head(prog[w]).fault
           fresh == {t \in Task : state[t] = "absent"} IN
         \/ \E r \in fresh :
              /\ state' = [state EXCEPT ![r] = "pending"]
              /\ Then(w, <<Link(f, r), Spawn(r)>>
                           \o When(Head(prog[w]).twice, <<Spawn(r)>>))
         \/ fresh = {} /\ Then(w, <<>>) /\ UNCHANGED state
    /\ UNCHANGED <<cause, row, faults, phase, tracked, outside>>

\* link_fault_recovery, one transaction.
DoLink(w) ==
    /\ Runs(w, "link")
    /\ LET f == Head(prog[w]).fault
           r == Head(prog[w]).task IN
         /\ faults' = [faults EXCEPT ![f].recovery = r,
                                     ![f].state = "recovery_created"]
         /\ cause' = [cause EXCEPT ![r] = f]
    /\ Then(w, <<>>)
    /\ UNCHANGED <<state, row, phase, tracked, outside>>

-----------------------------------------------------------------------------
(***************************************************************************)
(* Dispatch, and the end of a task.                                        *)
(***************************************************************************)

\* dispatch into a new tab, whatever the task's state: the tab it may have had
\* is replaced in every map.  A refused spawn is an alert.
DoSpawn(w) ==
    /\ Runs(w, "spawn")
    /\ LET t == Head(prog[w]).task IN
         \/ /\ tab' = [tab EXCEPT ![t] = "open"]
            /\ tracked' = tracked \cup {t}
            /\ Then(w, <<Feed(t, "created"), Feed(t, "resource_attach"),
                         SetState(t, "running")>>)
         \/ "spawn" \in Faults /\ Then(w, <<>>) /\ UNCHANGED <<tab, tracked>>
    /\ UNCHANGED <<ledger, row, faults, phase, said, events>>

DoSetState(w) ==
    /\ Runs(w, "set_state")
    /\ state' = [state EXCEPT ![Head(prog[w]).task] = Head(prog[w]).state]
    /\ Then(w, <<>>)
    /\ UNCHANGED <<cause, row, faults, phase, tracked, outside>>

\* on_early_exit.
DoEarlyExit(w) ==
    /\ Runs(w, "early_exit")
    /\ LET t == Head(prog[w]).task IN
         Then(w, When(state[t] \notin {"done", "closed"},
                      <<SetState(t, "failed"), Feed(t, "fail"), CloseTab(t)>>))
    /\ UNCHANGED <<ledger, row, faults, phase, tracked, outside>>

\* on_recycled, after its feed; the replay it may order is TaskLedger's.
DoRecycled(w) ==
    /\ Runs(w, "recycled")
    /\ LET t == Head(prog[w]).task IN
         Then(w, When(state[t] \in Owed, <<SetState(t, "failed")>>)
                   \o <<CloseTab(t)>>)
    /\ UNCHANGED <<ledger, row, faults, phase, tracked, outside>>

\* close_terminal and close_tab_only: only what this life tracks is closed.
DoCloseTab(w) ==
    /\ Runs(w, "close_tab")
    /\ LET t == Head(prog[w]).task IN
         /\ tracked' = tracked \ {t}
         /\ \/ t \in tracked /\ tab' = [tab EXCEPT ![t] = "gone"]
            \/ (t \notin tracked \/ "close" \in Faults) /\ UNCHANGED tab
    /\ Then(w, <<>>)
    /\ UNCHANGED <<ledger, row, faults, phase, said, events>>

\* on_out: the first result of a task counts.
DoOut(w) ==
    /\ Runs(w, "out")
    /\ LET t == Head(prog[w]).task
           result == Head(prog[w]).frame.kind IN
         Then(w, When(state[t] \in Owed,
                      IF result = "done"
                      THEN <<SetState(t, "done"), Feed(t, "complete"),
                             Mirror(t, "done"), CloseTab(t), SetState(t, "closed")>>
                      ELSE <<SetState(t, "failed"), Feed(t, "fail"), CloseTab(t)>>))
    /\ UNCHANGED <<ledger, row, faults, phase, tracked, outside>>

-----------------------------------------------------------------------------
(***************************************************************************)
(* The reapers: of the life before, and of tabs that died under a task.    *)
(***************************************************************************)

DoReap(w) ==
    /\ Runs(w, "reap")
    /\ ThenEach(w, {t \in Task : state[t] \in Owed}, ReapOne)
    /\ UNCHANGED <<ledger, row, faults, phase, tracked, outside>>

\* Adopt before kill: only a task whose tab is provably gone, or that never had
\* one, has failed.
DoReapOne(w) ==
    /\ Runs(w, "reap_one")
    /\ LET t == Head(prog[w]).task IN
         \/ /\ Bound(t) /\ (tab[t] # "gone" \/ "probe" \in Faults)
            /\ tracked' = tracked \cup {t}
            /\ Then(w, <<>>)
         \/ /\ ~Bound(t) \/ tab[t] = "gone"
            /\ Then(w, <<EarlyExit(t)>>)
            /\ UNCHANGED tracked
    /\ UNCHANGED <<ledger, row, faults, phase, outside>>

\* sweep_dead_terminals, of the tasks delivered long enough ago.  The retry it
\* dispatches belongs to TaskLedger.
DoSweep(w) ==
    /\ Runs(w, "sweep")
    /\ \E S \in SUBSET {t \in tracked : state[t] = "running" /\ Bound(t)} :
         ThenEach(w, S, SweepOne)
    /\ UNCHANGED <<ledger, row, faults, phase, tracked, outside>>

DoSweepOne(w) ==
    /\ Runs(w, "sweep_one")
    /\ LET t == Head(prog[w]).task IN
         \/ tab[t] = "gone" /\ Then(w, <<EarlyExit(t)>>)
         \/ (tab[t] # "gone" \/ "probe" \in Faults) /\ Then(w, <<>>)
    /\ UNCHANGED <<ledger, row, faults, phase, tracked, outside>>

StartPass(w) ==
    /\ w = "reaper" /\ Idle(w)
    /\ Begin(w, <<Sweep, List>>)
    /\ UNCHANGED <<ledger, row, faults, phase, tracked, outside>>

-----------------------------------------------------------------------------
(***************************************************************************)
(* Agents.  A frame names the generation its agent serves, and stays in    *)
(* the history of a daemon: it may be heard late and more than once.       *)
(***************************************************************************)

Speak(t) ==
    /\ tab[t] \in {"open", "detached"} /\ row[t] # NoRow
    /\ \/ \E kind \in Frames, s \in FrameSeq :
            said' = said \cup {[task |-> t, kind |-> kind,
                               gen |-> row[t].gen, seq |-> s]}
       \/ \E result \in Results :
            said' = said \cup {[task |-> t, kind |-> result, gen |-> 0, seq |-> 0]}
    /\ said' # said
    /\ Counted
    /\ UNCHANGED <<ledger, row, faults, prog, phase, tracked, tab>>

Hear(w) ==
    /\ w = "pump" /\ Idle(w)
    /\ \E f \in said :
         Begin(w, IF f.kind \in Results THEN <<Out(f)>> ELSE <<Report(f)>>)
    /\ UNCHANGED <<ledger, row, faults, phase, tracked, outside>>

\* apply_report: a fault is recorded whatever became of the event.
DoReport(w) ==
    /\ Runs(w, "report")
    /\ LET t == Head(prog[w]).task
           f == Head(prog[w]).frame IN
         /\ row' = [row EXCEPT ![t] =
                   Fed(@, PlainEvent(f.kind, [gen |-> f.gen, seq |-> f.seq]))]
         /\ Then(w, When(f.kind = "fail", <<Record(t, "agent_reported")>>))
    /\ UNCHANGED <<ledger, faults, phase, tracked, outside>>

-----------------------------------------------------------------------------
(***************************************************************************)
(* The repairs of repair.rs, each a request of a connection.               *)
(***************************************************************************)

Ask(w) ==
    /\ w = "conn" /\ Idle(w)
    /\ \E t \in Task, order \in Orders :
         state[t] # "absent" /\ Begin(w, <<Repair(t, order)>>)
    /\ Counted
    /\ UNCHANGED <<ledger, row, faults, phase, tracked, tab, said>>

Asked(w, order) == Runs(w, "repair") /\ Head(prog[w]).order = order

Unacked(t) == {f \in DOMAIN faults : faults[f].task = t /\ faults[f].state # "acked"}

\* retry: the recovery of the latest fault is dispatched, and opened first when
\* there is none.
RepairRetry(w) ==
    /\ Asked(w, "retry")
    /\ LET pending == Unacked(Head(prog[w]).task) IN
         \/ pending = {} /\ Then(w, <<>>)
         \/ \E f \in pending :
              /\ \A g \in pending : g <= f
              /\ Then(w, IF faults[f].recovery = NoTask THEN <<Recover(f, TRUE)>>
                         ELSE <<Spawn(faults[f].recovery)>>)
    /\ UNCHANGED <<ledger, row, faults, phase, tracked, outside>>

RepairFail(w) ==
    /\ Asked(w, "fail")
    /\ LET t == Head(prog[w]).task IN
         Then(w, When(row[t] # NoRow,
                      <<Feed(t, "fail"), EarlyExit(t), Record(t, "operator_fail")>>))
    /\ UNCHANGED <<ledger, row, faults, phase, tracked, outside>>

RepairClose(w) ==
    /\ Asked(w, "close")
    /\ LET t == Head(prog[w]).task IN
         Then(w, When(row[t] # NoRow, <<Feed(t, "resource_closed"), Recycled(t)>>))
    /\ UNCHANGED <<ledger, row, faults, phase, tracked, outside>>

\* ack names a fault by its id.
RepairAck(w) ==
    /\ Asked(w, "ack")
    /\ \/ \E f \in Unacked(Head(prog[w]).task) :
            faults' = [faults EXCEPT ![f].state = "acked"]
       \/ Unacked(Head(prog[w]).task) = {} /\ UNCHANGED faults
    /\ Then(w, <<>>)
    /\ UNCHANGED <<ledger, row, phase, tracked, outside>>

\* adopt and rebind judge the row they read here by the probes that follow.
RepairMove(w) ==
    /\ Asked(w, "adopt") \/ Asked(w, "rebind")
    /\ LET t == Head(prog[w]).task IN
         Then(w, When(row[t] # NoRow /\ row[t].gen < MaxGen,
                      IF Head(prog[w]).order = "adopt" THEN <<Adopt(t, row[t])>>
                      ELSE <<Rebind(t, row[t])>>))
    /\ UNCHANGED <<ledger, row, faults, phase, tracked, outside>>

\* adopt: only a tab that is provably gone.
DoAdopt(w) ==
    /\ Runs(w, "adopt")
    /\ LET t == Head(prog[w]).task
           obs == Head(prog[w]).obs IN
         Then(w, When(tab[t] = "gone", IF obs.live THEN <<AdoptGone(t, obs)>>
                                       ELSE <<AdoptNext(t, obs)>>))
    /\ UNCHANGED <<ledger, row, faults, phase, tracked, outside>>

\* The probe is the evidence the reducer wants, and must be taken.
DoAdoptGone(w) ==
    /\ Runs(w, "adopt_gone")
    /\ LET t == Head(prog[w]).task IN
         /\ row' = [row EXCEPT ![t] = FedNext(@, "agent_gone")]
         /\ Then(w, When(row'[t] # row[t], <<AdoptNext(t, Head(prog[w]).obs)>>))
    /\ UNCHANGED <<ledger, faults, phase, tracked, outside>>

DoAdoptNext(w) ==
    /\ Runs(w, "adopt_next")
    /\ LET t == Head(prog[w]).task IN
         row' = [row EXCEPT ![t] = Fed(@, AdoptEvent(Head(prog[w]).obs))]
    /\ Then(w, <<>>)
    /\ UNCHANGED <<ledger, faults, phase, tracked, outside>>

\* rebind: the old tab is not alive and the one the operator names is.  The
\* maps move before the row does.
DoRebind(w) ==
    /\ Runs(w, "rebind")
    /\ LET t == Head(prog[w]).task IN
         \/ /\ tab[t] \in {"none", "gone"} \/ "probe" \in Faults
            /\ tab' = [tab EXCEPT ![t] = "open"]
            /\ tracked' = tracked \cup {t}
            /\ Then(w, <<RebindNext(t, Head(prog[w]).obs)>>)
         \/ Then(w, <<>>) /\ UNCHANGED <<tab, tracked>>
    /\ UNCHANGED <<ledger, row, faults, phase, said, events>>

DoRebindNext(w) ==
    /\ Runs(w, "rebind_next")
    /\ LET t == Head(prog[w]).task IN
         row' = [row EXCEPT ![t] = Fed(@, RebindEvent(Head(prog[w]).obs))]
    /\ Then(w, <<>>)
    /\ UNCHANGED <<ledger, faults, phase, tracked, outside>>

-----------------------------------------------------------------------------
(***************************************************************************)
(* The world, and the lives of the scheduler.                              *)
(***************************************************************************)

TabDies(t) ==
    /\ tab[t] \in {"open", "detached"}
    /\ tab' = [tab EXCEPT ![t] = "gone"]
    /\ UNCHANGED <<ledger, row, faults, prog, phase, tracked, said, events>>

\* A probe may find the agent's terminal alive and not attached.
TabFlips(t) ==
    /\ \/ tab[t] = "open" /\ Counted /\ tab' = [tab EXCEPT ![t] = "detached"]
       \/ tab[t] = "detached" /\ tab' = [tab EXCEPT ![t] = "open"] /\ UNCHANGED events
    /\ UNCHANGED <<ledger, row, faults, prog, phase, tracked, said>>

MutCrash ==
    /\ phase' = "boot"
    /\ prog' = [prog EXCEPT !["boot"] = <<List, Reap>>]
    /\ tracked' = {}
    /\ Counted
    /\ UNCHANGED <<ledger, row, faults, tab, said>>

\* Programs and maps are lost; the next life reconciles, then reaps.
Crash ==
    /\ phase' = "boot"
    /\ prog' = [w \in AllWorkers |-> IF w = "boot" THEN <<List, Reap>> ELSE <<>>]
    /\ tracked' = {}
    /\ Counted
    /\ UNCHANGED <<ledger, row, faults, tab, said>>

Booted ==
    /\ phase = "boot" /\ prog["boot"] = <<>>
    /\ phase' = "up"
    /\ UNCHANGED <<ledger, row, faults, prog, tracked, outside>>

SessionStep(w) ==
    DoFeed(w) \/ DoMirror(w) \/ DoReport(w) \/ DoAdoptGone(w) \/ DoAdoptNext(w)
      \/ DoRebindNext(w)

PassStep(w) ==
    DoList(w) \/ DoLook(w) \/ DoReread(w) \/ DoDead(w) \/ DoMismatch(w)

FaultStep(w) ==
    DoRecord(w) \/ DoInsert(w) \/ DoRecover(w) \/ DoCreate(w) \/ DoLink(w)

TaskStep(w) ==
    DoSpawn(w) \/ DoSetState(w) \/ DoEarlyExit(w) \/ DoRecycled(w)
      \/ DoCloseTab(w) \/ DoOut(w) \/ DoReap(w) \/ DoReapOne(w)
      \/ DoSweep(w) \/ DoSweepOne(w)

RepairStep(w) ==
    RepairRetry(w) \/ RepairFail(w) \/ RepairClose(w) \/ RepairAck(w)
      \/ RepairMove(w) \/ DoAdopt(w) \/ DoRebind(w)

\* A thread goes on; what it asks the world is answered or not.
Goes(w) ==
    SessionStep(w) \/ PassStep(w) \/ FaultStep(w) \/ TaskStep(w)
      \/ RepairStep(w) \/ ProbeAnswers(w) \/ ProbeUnknown(w)

Next ==
    \/ \E w \in AllWorkers : Goes(w)
    \/ \E w \in Threads : StartPass(w) \/ Hear(w) \/ Ask(w)
    \/ \E t \in Task : Speak(t) \/ TabDies(t) \/ TabFlips(t)
    \/ Crash \/ Booted

\* Threads are scheduled, the reap loop comes round, and a probe that is made
\* again and again is answered in the end.  Nothing is promised of agents,
\* operators or crashes.
Fairness ==
    /\ WF_vars(Goes("reaper")) /\ WF_vars(Goes("boot"))
    /\ \A w \in {"boot", "reaper"}, t \in Task :
         SF_vars(ProbeAnswers(w) /\ Head(prog[w]).task = t)
    /\ WF_vars(StartPass("reaper")) /\ WF_vars(Booted)

Spec == Init /\ [][Next]_vars /\ Fairness

-----------------------------------------------------------------------------
(***************************************************************************)
(* Properties.                                                             *)
(***************************************************************************)

\* Rows, faults and links are what the tables can hold.
TypeOK ==
    /\ state \in [Task -> {"absent"} \cup Owed \cup Settled]
    /\ faults \in Seq(Fault)
    /\ cause \in [Task -> 0..Len(faults)]
    /\ row \in [Task -> Row]
    /\ tracked \subseteq Task
    /\ tab \in [Task -> {"none", "open", "detached", "gone"}]
    /\ phase = "boot" => \A w \in AllThreads : prog[w] = <<>>

\* Recoveries stay one layer deep: the task a recovery answers for is not
\* itself a recovery, whoever asked for it, the pass, a frame or repair retry
\* (open_recovery_task).
SingleLayer ==
    \A r \in Task : cause[r] # 0 => cause[faults[cause[r]].task] = 0

\* record_fault looks and inserts in two statements, and still no generation is
\* queued twice for one kind of lost work: each kind has a single thread.
FaultOnce ==
    \A f, g \in DOMAIN faults :
      /\ faults[f].kind \in RecoveryKind
      /\ faults[f].kind = faults[g].kind
      /\ faults[f].task = faults[g].task
      /\ faults[f].gen = faults[g].gen
      => f = g

\* The pass is about to fail the session of t, whose probe found nothing.
FailsLost(w, t) ==
    /\ w \in {"boot", "reaper"} /\ Len(prog[w]) > 1
    /\ SubSeq(prog[w], 1, 2) = <<Feed(t, "fail"), Feed(t, "agent_gone")>>

\* And does so in this step.
Fails(w, t) == FailsLost(w, t) /\ prog'[w] # prog[w] /\ row'[t] # row[t]

\* The pass does not fail a session that lost its agent unless the queue tells
\* of that session or the task has a result: no loss is silent, wherever a
\* crash or another thread comes in between (reconcile_dead).  Recoveries are
\* left out: repair retry may dispatch one that has ended.
LossIsQueued ==
    [][\A w \in AllWorkers, t \in Work :
         Fails(w, t) =>
           \/ state[t] \in Settled
           \/ \E f \in DOMAIN faults :
                faults[f].task = t /\ faults[f].kind \in RecoveryKind]_row

\* A session whose tab is gone ends: reconcile keeps asking, across crashes,
\* until a probe answers (reap_loop, startup_reconcile).
LostSessionEnds ==
    \A t \in Task :
      tab[t] = "gone" /\ row[t] # NoRow
      ~> row[t] # NoRow /\ (row[t].public = "exited" \/ tab[t] # "gone")

=============================================================================
