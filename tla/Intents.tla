------------------------------- MODULE Intents -------------------------------
(***************************************************************************)
(* The durable intents: one line in the database for each control frame    *)
(* the daemon owes a session, written before the frame is sent.  Whoever   *)
(* closes a terminal opens the line and sends it at once; the pump of the  *)
(* reconcile pass sends again what is due; an operator re-arms a line that *)
(* ran out of attempts.  A line that did is reported in the fault queue.   *)
(*                                                                         *)
(* A line is one recycle of one task in one generation.  A terminal is     *)
(* closed for a settled task, so the fault of its line opens no recovery   *)
(* task.  Each statement on the database and each send is one step.        *)
(*                                                                         *)
(* External: the answer of the workspace daemon.                           *)
(***************************************************************************)
EXTENDS Naturals

CONSTANTS
    Line,          \* op ids
    Closer,        \* the threads that close terminals
    Recovered,     \* the lines whose task has an older fault and its recovery
    MaxAttempts,   \* DEFAULT_INTENT_MAX_ATTEMPTS
    PerTick,       \* MAX_INTENTS_PER_TICK
    MaxResets,     \* bound: how often operators re-arm
    MaxCrashes     \* bound: how often the daemon dies and restarts

ASSUME IntentAssumption ==
    /\ "pump" \notin Closer
    /\ Recovered \subseteq Line
    /\ MaxAttempts \in Nat \ {0} /\ PerTick \in Nat \ {0}
    /\ MaxResets \in Nat /\ MaxCrashes \in Nat

VARIABLES
    state,      \* intents.state; "absent" before the row exists
    attempt,    \* intents.attempt
    due,        \* the lines whose next_attempt_at has passed
    queued,     \* the intent_exhausted faults of a line: open, and acked
    job,        \* what each thread is doing
    window,     \* the lines the pump's tick has found due, or may find
    left,       \* the attempts the tick has left
    rearm,      \* the spent lines an operator found and has not re-armed yet
    sends,      \* the sends of a line since it was armed
    resets, crashes

table == <<state, attempt, due>>
pump == <<window, left>>
bounds == <<resets, crashes>>
vars == <<table, queued, job, pump, rearm, sends, bounds>>

Worker == Closer \cup {"pump"}

None == [step |-> "none"]
Job(step, l) == [step |-> step, line |-> l]

Step == {"insert", "claim", "send", "receipt", "retry", "exhaust", "look", "record"}

JobType == [step : Step, line : Line] \cup {None}

TypeOK ==
    /\ state \in [Line -> {"absent", "pending", "claimed", "succeeded", "exhausted"}]
    /\ attempt \in [Line -> 0..MaxAttempts]
    /\ due \subseteq Line /\ window \subseteq Line /\ rearm \subseteq Line
    /\ queued \in [Line -> [open : Nat, acked : Nat]]
    /\ left \in 0..PerTick
    /\ job \in [Worker -> JobType]

Init ==
    /\ state = [l \in Line |-> "absent"]
    /\ attempt = [l \in Line |-> 0]
    /\ due = {}
    /\ queued = [l \in Line |-> [open |-> 0, acked |-> 0]]
    /\ job = [w \in Worker |-> None]
    /\ window = {}
    /\ left = 0
    /\ rearm = {}
    /\ sends = [l \in Line |-> 0]
    /\ resets = 0
    /\ crashes = 0

At(w, step) == job[w].step = step

Goto(w, step, l) == job' = [job EXCEPT ![w] = Job(step, l)]
Finish(w) == job' = [job EXCEPT ![w] = None]

\* The clock of a tick has whole seconds: what comes due while the tick runs
\* may be in time for it.
MayCatch(l) == window' \in {window, window \cup {l}}

-----------------------------------------------------------------------------
(***************************************************************************)
(* Opening a line.                                                         *)
(***************************************************************************)

\* open_intent finds no row of this line; one that exists is left alone.
Open(w, l) ==
    /\ At(w, "none")
    /\ state[l] = "absent"
    /\ Goto(w, "insert", l)
    /\ UNCHANGED <<table, queued, pump, rearm, sends, bounds>>

\* The primary key refuses the second of two openers.
Insert(w) ==
    /\ At(w, "insert")
    /\ LET l == job[w].line IN
         IF state[l] = "absent"
         THEN /\ state' = [state EXCEPT ![l] = "pending"]
              /\ due' = due \cup {l}
              /\ MayCatch(l)
              /\ Goto(w, "claim", l)
         ELSE Finish(w) /\ UNCHANGED <<state, due, window>>
    /\ UNCHANGED <<attempt, queued, left, rearm, sends, bounds>>

MutClaimable(l) == l \in due

Claimable(l) == state[l] = "pending" /\ l \in due

Claim(l) ==
    /\ state' = [state EXCEPT ![l] = "claimed"]
    /\ attempt' = [attempt EXCEPT ![l] = @ + 1]
    /\ UNCHANGED due

\* claim_intent_op; a line the pump took meanwhile is the pump's.
ClaimOwn(w) ==
    /\ At(w, "claim")
    /\ LET l == job[w].line IN
         IF Claimable(l)
         THEN Claim(l) /\ Goto(w, "send", l)
         ELSE Finish(w) /\ UNCHANGED table
    /\ UNCHANGED <<queued, pump, rearm, sends, bounds>>

-----------------------------------------------------------------------------
(***************************************************************************)
(* The pump.  Its clock is read when the pass reaches it: it takes what is *)
(* due by then.                                                            *)
(***************************************************************************)

StartTick ==
    /\ At("pump", "none") /\ left = 0
    /\ \E l \in Line : Claimable(l)
    /\ window' = {l \in Line : Claimable(l)}
    /\ left' = PerTick
    /\ UNCHANGED <<table, queued, job, rearm, sends, bounds>>

\* claim_intent.
ClaimDue ==
    /\ At("pump", "none") /\ left > 0
    /\ \E l \in window :
         /\ Claimable(l)
         /\ Claim(l)
         /\ Goto("pump", "send", l)
    /\ left' = left - 1
    /\ UNCHANGED <<window, queued, rearm, sends, bounds>>

EndTick ==
    /\ At("pump", "none") /\ left > 0
    /\ \A l \in window : ~Claimable(l)
    /\ left' = 0
    /\ window' = {}
    /\ UNCHANGED <<table, queued, job, rearm, sends, bounds>>

-----------------------------------------------------------------------------
(***************************************************************************)
(* One attempt: run_intent.                                                *)
(***************************************************************************)

MutSpent(n) == n > MaxAttempts

Spent(n) == n >= MaxAttempts

\* The daemon accepts the frame, or the call fails.
Send(w) ==
    /\ At(w, "send")
    /\ LET l == job[w].line IN
         /\ sends' = [sends EXCEPT ![l] = @ + 1]
         /\ \/ Goto(w, "receipt", l)
            \/ Goto(w, IF Spent(attempt[l]) THEN "exhaust" ELSE "retry", l)
    /\ UNCHANGED <<table, queued, pump, rearm, bounds>>

\* receipt_intent.
Receipt(w) ==
    /\ At(w, "receipt")
    /\ state' = [state EXCEPT ![job[w].line] = "succeeded"]
    /\ Finish(w)
    /\ UNCHANGED <<attempt, due, queued, pump, rearm, sends, bounds>>

MutRetry(w) ==
    /\ At(w, "retry")
    /\ LET l == job[w].line IN
         due' = due \ {l} /\ window' = window \ {l}
    /\ Finish(w)
    /\ UNCHANGED <<state, attempt, queued, left, rearm, sends, bounds>>

\* retry_intent: the backoff runs from the clock of the attempt.
Retry(w) ==
    /\ At(w, "retry")
    /\ LET l == job[w].line IN
         /\ state' = [state EXCEPT ![l] = IF @ = "claimed" THEN "pending" ELSE @]
         /\ due' = due \ {l}
         /\ window' = window \ {l}
    /\ Finish(w)
    /\ UNCHANGED <<attempt, queued, left, rearm, sends, bounds>>

\* exhaust_intent.
Exhaust(w) ==
    /\ At(w, "exhaust")
    /\ LET l == job[w].line IN
         /\ state' = [state EXCEPT ![l] = IF @ = "succeeded" THEN @ ELSE "exhausted"]
         /\ Goto(w, "look", l)
    /\ UNCHANGED <<attempt, due, queued, pump, rearm, sends, bounds>>

MutKnownAnyKind(l) ==
    l \in Recovered \/ queued[l].open + queued[l].acked > 0

\* record_fault: a fault of this kind is in the queue for the generation.
Known(l) == queued[l].open + queued[l].acked > 0

LookForFault(w) ==
    /\ At(w, "look")
    /\ IF Known(job[w].line) THEN Finish(w) ELSE Goto(w, "record", job[w].line)
    /\ UNCHANGED <<table, queued, pump, rearm, sends, bounds>>

\* insert_fault; open_recovery_task has nothing to recover.
RecordFault(w) ==
    /\ At(w, "record")
    /\ queued' = [queued EXCEPT ![job[w].line].open = @ + 1]
    /\ Finish(w)
    /\ UNCHANGED <<table, pump, rearm, sends, bounds>>

Handled(l) == \E w \in Worker : ~At(w, "none") /\ job[w].line = l

\* A backoff takes seconds, the steps of an attempt after its send do not.
Elapse(l) ==
    /\ state[l] = "pending" /\ l \notin due
    /\ ~Handled(l)
    /\ due' = due \cup {l}
    /\ MayCatch(l)
    /\ UNCHANGED <<state, attempt, queued, job, left, rearm, sends, bounds>>

-----------------------------------------------------------------------------
(***************************************************************************)
(* The operator: repair ack and repair retry.                              *)
(***************************************************************************)

Ack(l) ==
    /\ queued[l].open > 0
    /\ queued' = [queued EXCEPT ![l] = [open |-> @.open - 1, acked |-> @.acked + 1]]
    /\ UNCHANGED <<table, job, pump, rearm, sends, bounds>>

MutSpentLines(l) == {l} \cap {k \in Line : state[k] \in {"succeeded", "exhausted"}}

SpentLines(l) == {l} \cap {k \in Line : state[k] = "exhausted"}

\* repair retry: the last fault that is not acked must have a recovery task.
StartRepair(l) ==
    /\ rearm = {}
    /\ resets < MaxResets
    /\ l \in Recovered /\ queued[l].open = 0
    /\ rearm' = SpentLines(l)
    /\ rearm' # {}
    /\ resets' = resets + 1
    /\ UNCHANGED <<table, queued, job, pump, sends, crashes>>

\* reset_intent.
Reset(l) ==
    /\ l \in rearm
    /\ rearm' = rearm \ {l}
    /\ IF state[l] \in {"succeeded", "exhausted"}
       THEN /\ state' = [state EXCEPT ![l] = "pending"]
            /\ attempt' = [attempt EXCEPT ![l] = 0]
            /\ due' = due \cup {l}
            /\ sends' = [sends EXCEPT ![l] = 0]
            /\ MayCatch(l)
       ELSE UNCHANGED <<table, sends, window>>
    /\ UNCHANGED <<queued, job, left, bounds>>

-----------------------------------------------------------------------------
\* The daemon dies and restarts: its threads are gone, the tables are not.
Crash ==
    /\ crashes < MaxCrashes
    /\ crashes' = crashes + 1
    /\ job' = [w \in Worker |-> None]
    /\ window' = {}
    /\ left' = 0
    /\ rearm' = {}
    /\ UNCHANGED <<table, queued, sends, resets>>

Work(w) ==
    \/ Insert(w) \/ ClaimOwn(w) \/ Send(w) \/ Receipt(w) \/ Retry(w)
    \/ Exhaust(w) \/ LookForFault(w) \/ RecordFault(w)

Tick == StartTick \/ ClaimDue \/ EndTick

Next ==
    \/ \E w \in Closer, l \in Line : Open(w, l)
    \/ \E w \in Worker : Work(w)
    \/ Tick
    \/ \E l \in Line : Elapse(l) \/ Ack(l) \/ StartRepair(l) \/ Reset(l)
    \/ Crash

\* Threads run, the reap loop reaches the pump again and again, time passes.
Fairness ==
    /\ \A w \in Worker : WF_vars(Work(w))
    /\ WF_vars(Tick)
    /\ \A l \in Line : WF_vars(Elapse(l))

Spec == Init /\ [][Next]_vars /\ Fairness

-----------------------------------------------------------------------------
(***************************************************************************)
(* Properties.                                                             *)
(***************************************************************************)

Attempting(w, l) ==
    job[w].step \in {"send", "receipt", "retry", "exhaust"} /\ job[w].line = l

\* A line is attempted by one thread at a time, and claimed meanwhile: the
\* opener, the pump and a re-armed line never send the same frame at once.
OneSender ==
    \A l \in Line :
      /\ \A v, w \in Worker : Attempting(v, l) /\ Attempting(w, l) => v = w
      /\ \A w \in Worker : Attempting(w, l) => state[l] = "claimed"

\* A frame is sent at most MaxAttempts times for one arming, crashes included.
WithinBudget == \A l \in Line : sends[l] <= MaxAttempts

\* The fault queue names a line at most once, however often it is re-armed,
\* and a line that ran out of attempts is in it, once whoever spent the last
\* one is done.  A crash may come between the two writes.
SpentIsReported ==
    \A l \in Line :
      /\ queued[l].open + queued[l].acked <= 1
      /\ state[l] = "exhausted" /\ ~Handled(l) /\ crashes = 0
           => queued[l].open + queued[l].acked = 1

\* A delivered frame is never armed again.
ReceiptIsFinal ==
    [][\A l \in Line : state[l] = "succeeded" => state'[l] = "succeeded"]_vars

Done(l) == state[l] \in {"succeeded", "exhausted"}

\* A pending line is delivered or given up, unless the daemon dies first; the
\* next life takes up what is pending then.
PendingSettles ==
    \A l \in Line, n \in 0..MaxCrashes :
      state[l] = "pending" /\ crashes = n ~> Done(l) \/ crashes > n

\* reconcile.rs, durable intents: "a crash between the send and the receipt
\* re-sends": a line that was being sent does not stay so for ever.
ClaimSettles == \A l \in Line : state[l] = "claimed" ~> state[l] # "claimed"
=============================================================================
