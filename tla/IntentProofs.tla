----------------------------- MODULE IntentProofs -----------------------------
(***************************************************************************)
(* Intents, for every number of lines, threads, attempts, operators'       *)
(* rounds and crashes: one sender, the budget, and the finality of a       *)
(* receipt.                                                                *)
(***************************************************************************)
EXTENDS Intents, TLAPS

\* What the guards of the statements rely on without reading it: whoever is
\* past its claim has an attempt to account for, and a line an operator found
\* spent is still spent.
Accounts(w, l) ==
    /\ At(w, "send") /\ job[w].line = l => sends[l] < attempt[l]
    /\ At(w, "retry") /\ job[w].line = l => attempt[l] < MaxAttempts

Budget(l) ==
    /\ sends[l] \in Nat
    /\ sends[l] <= attempt[l]
    /\ state[l] \in {"absent", "pending"} => attempt[l] < MaxAttempts

IntentInv ==
    /\ TypeOK
    /\ OneSender
    /\ sends \in [Line -> Nat]
    /\ \A l \in Line : Budget(l)
    /\ \A w \in Worker, l \in Line : Accounts(w, l)
    /\ \A l \in rearm : state[l] = "exhausted"

LEMMA InitInv == Init => IntentInv
BY IntentAssumption DEF Init, IntentInv, TypeOK, OneSender, Attempting, Accounts,
   Budget, None, JobType, Step, Worker, At

LEMMA OpenInv ==
    ASSUME IntentInv, NEW w \in Closer, NEW l \in Line, Open(w, l)
    PROVE  IntentInv'
BY IntentAssumption DEF Open, IntentInv, TypeOK, OneSender, Attempting, Accounts,
   Budget, Goto, Job, JobType, None, Step, Worker, At, table, pump, bounds

\* A thread that is doing something has a line.
LEMMA JobLine ==
    ASSUME TypeOK, NEW w \in Worker, ~At(w, "none")
    PROVE  job[w].line \in Line
BY DEF TypeOK, JobType, None, At

\* A claim, whoever makes it: the line was pending, so nobody attempts it.
LEMMA ClaimInv ==
    ASSUME IntentInv, NEW w \in Worker, NEW l \in Line,
           Claimable(l), Claim(l),
           job' = [job EXCEPT ![w] = Job("send", l)],
           UNCHANGED <<queued, window, rearm, sends>>, left' \in 0..PerTick
    PROVE  IntentInv'
<1>1. attempt[l] \in Nat /\ attempt[l] < MaxAttempts /\ state[l] = "pending"
  BY IntentAssumption DEF IntentInv, TypeOK, Budget, Claimable
<1>2. TypeOK'
  BY <1>1, IntentAssumption DEF IntentInv, TypeOK, Claim, Job, JobType, Step
<1>3. OneSender'
  BY <1>1 DEF IntentInv, TypeOK, OneSender, Attempting, Job, Claim
<1>4. \A k \in Line : Budget(k)'
  BY <1>1, IntentAssumption DEF IntentInv, TypeOK, Budget, Claim
<1>5. \A v \in Worker, k \in Line : Accounts(v, k)'
  <2> SUFFICES ASSUME NEW v \in Worker, NEW k \in Line PROVE Accounts(v, k)'
    OBVIOUS
  <2>1. attempt'[l] = attempt[l] + 1 /\ (k # l => attempt'[k] = attempt[k])
    BY DEF Claim, IntentInv, TypeOK
  <2>2. CASE v = w
    BY <1>1, <2>1, <2>2 DEF IntentInv, TypeOK, Accounts, Budget, At, Job
  <2>3. CASE v # w
    BY <1>1, <2>1, <2>3 DEF IntentInv, TypeOK, Accounts, OneSender, Attempting, At
  <2> QED BY <2>2, <2>3
<1>6. (sends \in [Line -> Nat] /\ \A k \in rearm : state[k] = "exhausted")'
  BY <1>1 DEF IntentInv, TypeOK, Claim
<1> QED BY <1>2, <1>3, <1>4, <1>5, <1>6 DEF IntentInv

\* Between attempts a thread moves without touching a line.
LEMMA JobMoves ==
    ASSUME IntentInv, NEW w \in Worker, NEW j \in JobType,
           j.step \notin {"send", "receipt", "retry", "exhaust"},
           job' = [job EXCEPT ![w] = j],
           UNCHANGED <<table, pump, rearm, sends>>,
           queued' \in [Line -> [open : Nat, acked : Nat]]
    PROVE  IntentInv'
<1>1. job'[w] = j /\ \A v \in Worker : v # w => job'[v] = job[v]
  BY DEF IntentInv, TypeOK
<1>2. UNCHANGED <<state, attempt, due, window, left, rearm, sends>>
  BY DEF table, pump
<1>3. job' \in [Worker -> JobType]
  BY DEF IntentInv, TypeOK
<1>4. TypeOK'
  BY <1>2, <1>3 DEF IntentInv, TypeOK
<1>5. \A v \in Worker, k \in Line : Attempting(v, k)' => Attempting(v, k)
  BY <1>1 DEF Attempting
<1>6. OneSender'
  BY <1>2, <1>5 DEF IntentInv, OneSender
<1>7. \A v \in Worker, k \in Line : Accounts(v, k)'
  BY <1>1, <1>2 DEF IntentInv, Accounts, At
<1>8. \A k \in Line : Budget(k)'
  BY <1>2 DEF IntentInv, Budget
<1> QED BY <1>2, <1>4, <1>6, <1>7, <1>8 DEF IntentInv

\* An attempt ends: its line was claimed by this thread alone, so neither
\* another thread nor an operator's list knows of it.
LEMMA AttemptEnds ==
    ASSUME IntentInv, NEW w \in Worker, NEW l \in Line, Attempting(w, l),
           NEW s \in {"pending", "succeeded", "exhausted"},
           s = "pending" => attempt[l] < MaxAttempts,
           NEW j \in JobType,
           j.step \notin {"send", "receipt", "retry", "exhaust"},
           state' = [state EXCEPT ![l] = s],
           job' = [job EXCEPT ![w] = j],
           UNCHANGED <<attempt, queued, left, rearm, sends>>,
           due' \subseteq Line, window' \subseteq Line
    PROVE  IntentInv'
<1>1. job'[w] = j /\ \A v \in Worker : v # w => job'[v] = job[v]
  BY DEF IntentInv, TypeOK
<1>2. state[l] = "claimed" /\ \A v \in Worker : v # w => ~Attempting(v, l)
  BY DEF IntentInv, OneSender
<1>3. state'[l] = s /\ \A k \in Line : k # l => state'[k] = state[k]
  BY DEF IntentInv, TypeOK
<1>4. job' \in [Worker -> JobType]
  BY DEF IntentInv, TypeOK
<1>5. state' \in [Line -> {"absent", "pending", "claimed", "succeeded", "exhausted"}]
  BY DEF IntentInv, TypeOK
<1>6. TypeOK'
  BY <1>4, <1>5 DEF IntentInv, TypeOK
<1>7. \A v \in Worker, k \in Line : Attempting(v, k)' => Attempting(v, k) /\ k # l
  BY <1>1, <1>2 DEF Attempting
<1>8. OneSender'
  BY <1>3, <1>7 DEF IntentInv, OneSender
<1>9. \A v \in Worker, k \in Line : Accounts(v, k)'
  BY <1>1 DEF IntentInv, Accounts, At
<1>10. \A k \in Line : Budget(k)'
  BY <1>3 DEF IntentInv, Budget
<1>11. \A k \in rearm : state'[k] = "exhausted"
  BY <1>2, <1>3 DEF IntentInv, TypeOK
<1> QED BY <1>6, <1>8, <1>9, <1>10, <1>11 DEF IntentInv

\* What a thread can be doing.
LEMMA Jobs ==
    ASSUME NEW l \in Line
    PROVE  /\ None \in JobType /\ None.step = "none"
           /\ \A step \in Step : Job(step, l) \in JobType /\ Job(step, l).step = step
BY DEF None, Job, JobType

LEMMA InsertInv ==
    ASSUME IntentInv, NEW w \in Worker, Insert(w)
    PROVE  IntentInv'
<1> DEFINE l == job[w].line
<1>1. l \in Line
  BY JobLine DEF Insert, At, IntentInv
<1>2. CASE state[l] = "absent"
  <2> SUFFICES ASSUME state' = [state EXCEPT ![l] = "pending"],
                      job' = [job EXCEPT ![w] = Job("claim", l)],
                      due' = due \cup {l},
                      MayCatch(l),
                      UNCHANGED <<attempt, queued, left, rearm, sends, bounds>>
               PROVE  IntentInv'
    BY <1>2 DEF Insert, Goto
  <2>1. TypeOK'
    BY <1>1 DEF IntentInv, TypeOK, Job, JobType, Step, MayCatch
  <2>2. OneSender'
    BY <1>1, <1>2 DEF IntentInv, TypeOK, OneSender, Attempting, Job
  <2>3. \A k \in Line : Budget(k)'
    BY <1>1, <1>2 DEF IntentInv, TypeOK, Budget
  <2>4. \A v \in Worker, k \in Line : Accounts(v, k)'
    BY <1>1 DEF IntentInv, TypeOK, Accounts, At, Job
  <2>5. (sends \in [Line -> Nat] /\ \A k \in rearm : state[k] = "exhausted")'
    BY <1>1, <1>2 DEF IntentInv, TypeOK
  <2> QED BY <2>1, <2>2, <2>3, <2>4, <2>5 DEF IntentInv
<1>3. CASE state[l] # "absent"
  <2>1. /\ job' = [job EXCEPT ![w] = None]
        /\ UNCHANGED <<table, pump, queued, rearm, sends>>
    BY <1>3 DEF Insert, Finish, table, pump
  <2> QED BY <1>1, <2>1, Jobs, JobMoves DEF IntentInv, TypeOK
<1> QED BY <1>2, <1>3

LEMMA ClaimOwnInv ==
    ASSUME IntentInv, NEW w \in Worker, ClaimOwn(w)
    PROVE  IntentInv'
<1> DEFINE l == job[w].line
<1>1. l \in Line
  BY JobLine DEF ClaimOwn, At, IntentInv
<1>2. CASE Claimable(l)
  <2> SUFFICES ASSUME Claim(l),
                      job' = [job EXCEPT ![w] = Job("send", l)],
                      UNCHANGED <<queued, pump, rearm, sends, bounds>>
               PROVE  IntentInv'
    BY <1>2 DEF ClaimOwn, Goto
  <2> QED BY <1>1, <1>2, ClaimInv DEF pump, IntentInv, TypeOK
<1>3. CASE ~Claimable(l)
  <2>1. /\ job' = [job EXCEPT ![w] = None]
        /\ UNCHANGED <<table, pump, queued, rearm, sends>>
    BY <1>3 DEF ClaimOwn, Finish
  <2> QED BY <1>1, <2>1, Jobs, JobMoves DEF IntentInv, TypeOK
<1> QED BY <1>2, <1>3

(***************************************************************************)
(* The steps of an attempt.                                                *)
(***************************************************************************)

LEMMA SendInv ==
    ASSUME IntentInv, NEW w \in Worker, Send(w)
    PROVE  IntentInv'
<1> DEFINE l == job[w].line
<1>1. At(w, "send") /\ l \in Line
  BY JobLine DEF Send, At, IntentInv
<1>2. PICK step \in {"receipt", "retry", "exhaust"} :
        /\ job' = [job EXCEPT ![w] = Job(step, l)]
        /\ step = "retry" => attempt[l] < MaxAttempts
  BY <1>1, IntentAssumption DEF Send, Spent, Goto, IntentInv, TypeOK
<1>3. /\ sends' = [sends EXCEPT ![l] = @ + 1]
      /\ UNCHANGED <<state, attempt, due, queued, window, left, rearm>>
  BY DEF Send, table, pump
<1> HIDE DEF l
<1>4. TypeOK'
  BY <1>1, <1>2, <1>3 DEF IntentInv, TypeOK, Job, JobType, Step
<1>5. OneSender'
  <2>1. Attempting(w, l)
    BY <1>1 DEF Attempting, At, l
  <2>2. \A v \in Worker, k \in Line : Attempting(v, k)' => Attempting(v, k)
    BY <1>1, <1>2, <2>1 DEF Attempting, Job, IntentInv, TypeOK
  <2> QED BY <1>3, <2>2 DEF IntentInv, OneSender
<1>6. sends[l] < attempt[l]
  BY <1>1 DEF IntentInv, Accounts, At, l
<1>7. (sends \in [Line -> Nat])' /\ \A k \in Line : Budget(k)'
  BY <1>1, <1>3, <1>6 DEF IntentInv, TypeOK, Budget
<1>8. \A v \in Worker, k \in Line : Accounts(v, k)'
  <2> SUFFICES ASSUME NEW v \in Worker, NEW k \in Line PROVE Accounts(v, k)'
    OBVIOUS
  <2>1. CASE v = w
    BY <1>1, <1>2, <1>3, <2>1 DEF IntentInv, TypeOK, Accounts, At, Job
  <2>2. CASE v # w
    <3>1. job'[v] = job[v]
      BY <1>2, <2>2 DEF IntentInv, TypeOK
    <3>2. At(v, "send") /\ job[v].line = k => k # l
      BY <1>1, <2>2 DEF IntentInv, OneSender, Attempting, At, l
    <3> QED BY <1>1, <1>3, <3>1, <3>2 DEF IntentInv, TypeOK, Accounts, At
  <2> QED BY <2>1, <2>2
<1> QED BY <1>3, <1>4, <1>5, <1>7, <1>8 DEF IntentInv

LEMMA ReceiptInv ==
    ASSUME IntentInv, NEW w \in Worker, Receipt(w)
    PROVE  IntentInv'
<1> DEFINE l == job[w].line
<1>1. l \in Line /\ Attempting(w, l)
  BY JobLine DEF Receipt, At, Attempting, IntentInv
<1>2. /\ state' = [state EXCEPT ![l] = "succeeded"]
      /\ job' = [job EXCEPT ![w] = None]
      /\ UNCHANGED <<attempt, due, queued, window, left, rearm, sends>>
  BY DEF Receipt, Finish, pump
<1>3. due' \subseteq Line /\ window' \subseteq Line
  BY <1>2 DEF IntentInv, TypeOK
<1> QED BY <1>1, <1>2, <1>3, Jobs, AttemptEnds

LEMMA RetryInv ==
    ASSUME IntentInv, NEW w \in Worker, Retry(w)
    PROVE  IntentInv'
<1> DEFINE l == job[w].line
<1>1. l \in Line /\ Attempting(w, l) /\ At(w, "retry")
  BY JobLine DEF Retry, At, Attempting, IntentInv
<1>2. state[l] = "claimed" /\ attempt[l] < MaxAttempts
  BY <1>1 DEF IntentInv, OneSender, Accounts
<1>3. /\ state' = [state EXCEPT ![l] = "pending"]
      /\ job' = [job EXCEPT ![w] = None]
      /\ UNCHANGED <<attempt, queued, left, rearm, sends>>
  BY <1>2 DEF Retry, Finish
<1>4. due' \subseteq Line /\ window' \subseteq Line
  BY DEF Retry, IntentInv, TypeOK
<1> QED BY <1>1, <1>2, <1>3, <1>4, Jobs, AttemptEnds

LEMMA ExhaustInv ==
    ASSUME IntentInv, NEW w \in Worker, Exhaust(w)
    PROVE  IntentInv'
<1> DEFINE l == job[w].line
<1>1. l \in Line /\ Attempting(w, l)
  BY JobLine DEF Exhaust, At, Attempting, IntentInv
<1>2. state[l] = "claimed"
  BY <1>1 DEF IntentInv, OneSender
<1>3. /\ state' = [state EXCEPT ![l] = "exhausted"]
      /\ job' = [job EXCEPT ![w] = Job("look", l)]
      /\ UNCHANGED <<attempt, due, queued, window, left, rearm, sends>>
  BY <1>2 DEF Exhaust, Goto, pump
<1>4. due' \subseteq Line /\ window' \subseteq Line
  BY <1>3 DEF IntentInv, TypeOK
<1>5. Job("look", l) \in JobType /\ Job("look", l).step = "look"
  BY <1>1, Jobs DEF Step
<1> QED BY <1>1, <1>3, <1>4, <1>5, AttemptEnds

LEMMA LookForFaultInv ==
    ASSUME IntentInv, NEW w \in Worker, LookForFault(w)
    PROVE  IntentInv'
<1> DEFINE l == job[w].line
<1>1. l \in Line
  BY JobLine DEF LookForFault, At, IntentInv
<1>2. PICK j \in {None, Job("record", l)} : job' = [job EXCEPT ![w] = j]
  BY DEF LookForFault, Finish, Goto
<1>3. j \in JobType /\ j.step \in {"none", "record"}
  BY <1>1, <1>2, Jobs DEF Step
<1>4. /\ UNCHANGED <<table, pump, rearm, sends>>
      /\ queued' \in [Line -> [open : Nat, acked : Nat]]
  BY DEF LookForFault, IntentInv, TypeOK
<1> QED BY <1>2, <1>3, <1>4, JobMoves

LEMMA RecordFaultInv ==
    ASSUME IntentInv, NEW w \in Worker, RecordFault(w)
    PROVE  IntentInv'
<1> DEFINE l == job[w].line
<1>1. l \in Line
  BY JobLine DEF RecordFault, At, IntentInv
<1>2. /\ job' = [job EXCEPT ![w] = None]
      /\ queued' = [queued EXCEPT ![l].open = @ + 1]
      /\ UNCHANGED <<table, pump, rearm, sends>>
  BY DEF RecordFault, Finish
<1>3. queued' \in [Line -> [open : Nat, acked : Nat]]
  BY <1>1, <1>2 DEF IntentInv, TypeOK
<1> QED BY <1>1, <1>2, <1>3, Jobs, JobMoves

(***************************************************************************)
(* The pump, the clock, the operator and the crash.                        *)
(***************************************************************************)

LEMMA StartTickInv ==
    ASSUME IntentInv, StartTick
    PROVE  IntentInv'
BY IntentAssumption DEF StartTick, IntentInv, TypeOK, OneSender, Attempting,
   Accounts, Budget, JobType, None, Step, At, table, pump, bounds

LEMMA ClaimDueInv ==
    ASSUME IntentInv, ClaimDue
    PROVE  IntentInv'
<1>1. PICK l \in window : Claimable(l) /\ Claim(l) /\ Goto("pump", "send", l)
  BY DEF ClaimDue
<1>2. l \in Line /\ "pump" \in Worker /\ left' \in 0..PerTick
  BY IntentAssumption DEF ClaimDue, IntentInv, TypeOK, Worker
<1> QED BY <1>1, <1>2, ClaimInv DEF ClaimDue, Goto

LEMMA EndTickInv ==
    ASSUME IntentInv, EndTick
    PROVE  IntentInv'
BY IntentAssumption DEF EndTick, IntentInv, TypeOK, OneSender, Attempting,
   Accounts, Budget, JobType, None, Step, At, table, pump, bounds

LEMMA ElapseInv ==
    ASSUME IntentInv, NEW l \in Line, Elapse(l)
    PROVE  IntentInv'
BY IntentAssumption DEF Elapse, MayCatch, IntentInv, TypeOK, OneSender, Attempting,
   Accounts, Budget, JobType, None, Step, At, table, pump, bounds

LEMMA AckInv ==
    ASSUME IntentInv, NEW l \in Line, Ack(l)
    PROVE  IntentInv'
BY IntentAssumption DEF Ack, IntentInv, TypeOK, OneSender, Attempting,
   Accounts, Budget, JobType, None, Step, At, table, pump, bounds

LEMMA StartRepairInv ==
    ASSUME IntentInv, NEW l \in Line, StartRepair(l)
    PROVE  IntentInv'
BY IntentAssumption DEF StartRepair, SpentLines, IntentInv, TypeOK, OneSender, Attempting,
   Accounts, Budget, JobType, None, Step, At, table, pump, bounds

LEMMA ResetInv ==
    ASSUME IntentInv, NEW l \in Line, Reset(l)
    PROVE  IntentInv'
<1>1. state[l] = "exhausted"
  BY DEF Reset, IntentInv
<1>2. /\ state' = [state EXCEPT ![l] = "pending"]
      /\ attempt' = [attempt EXCEPT ![l] = 0]
      /\ sends' = [sends EXCEPT ![l] = 0]
      /\ due' = due \cup {l} /\ window' \in {window, window \cup {l}}
      /\ rearm' = rearm \ {l}
      /\ UNCHANGED <<job, queued, left>>
  BY <1>1 DEF Reset, MayCatch
<1>3. TypeOK'
  BY <1>2, IntentAssumption DEF IntentInv, TypeOK
<1>4. OneSender'
  BY <1>1, <1>2 DEF IntentInv, TypeOK, OneSender, Attempting
<1>5. (sends \in [Line -> Nat])' /\ \A k \in Line : Budget(k)'
  BY <1>2, IntentAssumption DEF IntentInv, TypeOK, Budget
<1>6. \A w \in Worker, k \in Line : Accounts(w, k)'
  BY <1>1, <1>2 DEF IntentInv, TypeOK, OneSender, Attempting, Accounts, At
<1>7. \A k \in rearm' : state'[k] = "exhausted"
  BY <1>2 DEF IntentInv, TypeOK
<1> QED BY <1>3, <1>4, <1>5, <1>6, <1>7 DEF IntentInv

LEMMA CrashInv ==
    ASSUME IntentInv, Crash
    PROVE  IntentInv'
BY IntentAssumption DEF Crash, IntentInv, TypeOK, OneSender, Attempting,
   Accounts, Budget, JobType, None, Step, At, table, pump, bounds

-----------------------------------------------------------------------------
THEOREM SpecIntentInv == Spec => []IntentInv
<1>1. IntentInv /\ [Next]_vars => IntentInv'
  <2> SUFFICES ASSUME IntentInv, [Next]_vars PROVE IntentInv'
    OBVIOUS
  <2>1. ASSUME NEW w \in Closer, NEW l \in Line, Open(w, l) PROVE IntentInv'
    BY <2>1, OpenInv
  <2>2. ASSUME NEW w \in Worker, Work(w) PROVE IntentInv'
    BY <2>2, InsertInv, ClaimOwnInv, SendInv, ReceiptInv, RetryInv, ExhaustInv,
       LookForFaultInv, RecordFaultInv DEF Work
  <2>3. ASSUME Tick PROVE IntentInv'
    BY <2>3, StartTickInv, ClaimDueInv, EndTickInv DEF Tick
  <2>4. ASSUME NEW l \in Line, Elapse(l) \/ Ack(l) \/ StartRepair(l) \/ Reset(l)
        PROVE  IntentInv'
    BY <2>4, ElapseInv, AckInv, StartRepairInv, ResetInv
  <2>5. CASE UNCHANGED vars
    BY <2>5 DEF vars, table, pump, bounds, IntentInv, TypeOK, OneSender,
       Attempting, Accounts, Budget, At
  <2> QED BY <2>1, <2>2, <2>3, <2>4, <2>5, CrashInv DEF Next
<1> QED BY InitInv, <1>1, PTL DEF Spec

\* Whoever opens, pumps or re-arms: one thread at a time sends a line.
THEOREM OneSenderAlways == Spec => []OneSender
<1>1. IntentInv => OneSender
  BY DEF IntentInv
<1> QED BY <1>1, SpecIntentInv, PTL

\* One arming of a line buys at most MaxAttempts sends, whatever crashes.
THEOREM BudgetHolds == Spec => []WithinBudget
<1>1. IntentInv => WithinBudget
  <2> SUFFICES ASSUME IntentInv, NEW l \in Line PROVE sends[l] <= MaxAttempts
    BY DEF WithinBudget
  <2>1. attempt[l] \in Nat /\ attempt[l] <= MaxAttempts
    BY IntentAssumption DEF IntentInv, TypeOK
  <2>2. sends[l] \in Nat /\ sends[l] <= attempt[l]
    BY DEF IntentInv, Budget
  <2> QED BY <2>1, <2>2, IntentAssumption
<1> QED BY <1>1, SpecIntentInv, PTL

\* A delivered frame is never armed again.
THEOREM ReceiptStays == Spec => ReceiptIsFinal
<1>1. IntentInv /\ [Next]_vars
        => [\A l \in Line : state[l] = "succeeded" => state'[l] = "succeeded"]_vars
  <2> SUFFICES ASSUME IntentInv, Next, NEW l \in Line, state[l] = "succeeded"
               PROVE  state'[l] = "succeeded"
    BY DEF vars
  <2>1. ASSUME NEW w \in Closer, NEW k \in Line, Open(w, k)
        PROVE  state'[l] = "succeeded"
    BY <2>1 DEF Open, table
  <2>2. ASSUME NEW w \in Worker, Work(w) PROVE state'[l] = "succeeded"
    BY <2>2 DEF Work, Insert, ClaimOwn, Claimable, Claim, Send, Receipt, Retry,
       Exhaust, LookForFault, RecordFault, IntentInv, TypeOK, table
  <2>3. CASE Tick
    BY <2>3 DEF Tick, StartTick, ClaimDue, EndTick, Claimable, Claim, IntentInv,
       TypeOK, table
  <2>4. ASSUME NEW k \in Line, Elapse(k) \/ Ack(k) \/ StartRepair(k)
        PROVE  state'[l] = "succeeded"
    BY <2>4 DEF Elapse, Ack, StartRepair, table
  <2>5. ASSUME NEW k \in Line, Reset(k) PROVE state'[l] = "succeeded"
    BY <2>5 DEF Reset, IntentInv, TypeOK, table
  <2>6. CASE Crash
    BY <2>6 DEF Crash, table
  <2> QED BY <2>1, <2>2, <2>3, <2>4, <2>5, <2>6 DEF Next
<1> QED BY <1>1, SpecIntentInv, PTL DEF Spec, ReceiptIsFinal

\* The types of the table, the queue and the threads.
THEOREM IntentTypes == Spec => []TypeOK
<1>1. IntentInv => TypeOK
  BY DEF IntentInv
<1> QED BY <1>1, SpecIntentInv, PTL

-----------------------------------------------------------------------------
(***************************************************************************)
(* The fault of a spent line.  Whoever spends the last attempt looks into  *)
(* the queue and then writes to it; in between, an operator may re-arm the *)
(* line for the sake of an older fault.  The next attempt of a re-armed    *)
(* line has to wait for the one before it, and a backoff outlasts the      *)
(* reporter: so the line cannot be spent again before its first fault is   *)
(* recorded, provided that one attempt does not spend it.                  *)
(***************************************************************************)

Reporting(w, l) == job[w].step \in {"look", "record"} /\ job[w].line = l

Total(l) == queued[l].open + queued[l].acked

\* A line that is settled, or re-armed and no further than its first attempt.
FirstAttempt(l) ==
    \/ state[l] \in {"succeeded", "exhausted"}
    \/ state[l] = "pending" /\ attempt[l] = 0
    \/ state[l] = "claimed" /\ attempt[l] = 1
    \/ state[l] = "pending" /\ attempt[l] = 1 /\ l \notin due

Reports(l) ==
    /\ \A v, w \in Worker : Reporting(v, l) /\ Reporting(w, l) => v = w
    /\ \A w \in Worker : Reporting(w, l) => FirstAttempt(l)
    /\ \A w \in Worker : At(w, "record") /\ job[w].line = l => Total(l) = 0
    /\ \A w \in Worker : At(w, "exhaust") /\ job[w].line = l => attempt[l] >= MaxAttempts
    /\ Total(l) <= 1
    /\ crashes = 0 /\ state[l] = "exhausted"
         => Total(l) = 1 \/ \E w \in Worker : Reporting(w, l)

ReportInv == crashes \in Nat /\ \A l \in Line : Reports(l)

\* A step that neither changes the line nor moves a thread to its report.
LEMMA Undisturbed ==
    ASSUME NEW l \in Line, Reports(l),
           state'[l] = state[l], attempt'[l] = attempt[l],
           queued'[l] = queued[l], crashes' = crashes, l \in due' => l \in due,
           \A w \in Worker :
             \/ job'[w] = job[w]
             \/ /\ ~Reporting(w, l)
                /\ ~(job'[w].step \in {"look", "record", "exhaust"} /\ job'[w].line = l)
    PROVE  Reports(l)'
<1>1. \A w \in Worker : /\ Reporting(w, l)' <=> Reporting(w, l)
                        /\ Reporting(w, l) => job'[w] = job[w]
  BY DEF Reporting
<1>2. FirstAttempt(l) => FirstAttempt(l)'
  BY DEF FirstAttempt
<1>3. Total(l)' = Total(l)
  BY DEF Total
<1>4. \A w \in Worker : At(w, "record")' /\ job'[w].line = l
                          => At(w, "record") /\ job[w].line = l
  BY DEF At
<1>5. \A w \in Worker : At(w, "exhaust")' /\ job'[w].line = l
                          => At(w, "exhaust") /\ job[w].line = l
  BY DEF At
<1> QED BY <1>1, <1>2, <1>3, <1>4, <1>5 DEF Reports

\* A thread that handles one line leaves the others alone.
LEMMA OtherLines ==
    ASSUME ReportInv, TypeOK, NEW w \in Worker, NEW l \in Line, NEW j,
           job' = [job EXCEPT ![w] = j],
           job[w].step \in {"look", "record"} => job[w].line = l,
           j.step \in {"look", "record", "exhaust"} => j.line = l,
           crashes' = crashes,
           \A k \in Line : k # l =>
             /\ state'[k] = state[k] /\ attempt'[k] = attempt[k]
             /\ queued'[k] = queued[k] /\ (k \in due' => k \in due),
           Reports(l)'
    PROVE  ReportInv'
<1>1. job'[w] = j /\ \A v \in Worker : v # w => job'[v] = job[v]
  BY DEF TypeOK
<1>2. ASSUME NEW k \in Line, k # l PROVE Reports(k)'
  <2>1. \A v \in Worker :
           \/ job'[v] = job[v]
           \/ /\ ~Reporting(v, k)
              /\ ~(job'[v].step \in {"look", "record", "exhaust"} /\ job'[v].line = k)
    BY <1>1, <1>2 DEF Reporting
  <2> QED BY <2>1, <1>2, Undisturbed DEF ReportInv
<1> QED BY <1>2 DEF ReportInv

\* A thread moves from one step to another, neither of which reports, and no
\* line changes.
LEMMA MovesQuietly ==
    ASSUME ReportInv, TypeOK, NEW w \in Worker, NEW j,
           job' = [job EXCEPT ![w] = j],
           job[w].step \notin {"look", "record"},
           j.step \notin {"look", "record", "exhaust"},
           UNCHANGED <<state, attempt, queued, crashes>>, due' \subseteq due
    PROVE  ReportInv'
<1>1. job'[w] = j /\ \A v \in Worker : v # w => job'[v] = job[v]
  BY DEF TypeOK
<1>2. ASSUME NEW k \in Line PROVE Reports(k)'
  <2>1. \A v \in Worker : job'[v] = job[v] \/ (~Reporting(v, k) /\ job'[v].step \notin {"look", "record", "exhaust"})
    BY <1>1 DEF Reporting
  <2> QED BY <2>1, Undisturbed DEF ReportInv
<1> QED BY <1>2 DEF ReportInv

LEMMA QuietStep ==
    ASSUME ReportInv, UNCHANGED <<state, attempt, job, queued, crashes>>, due' \subseteq due
    PROVE  ReportInv'
<1>1. ASSUME NEW k \in Line PROVE Reports(k)'
  BY Undisturbed DEF ReportInv
<1> QED BY <1>1 DEF ReportInv

LEMMA OpenReports ==
    ASSUME ReportInv, IntentInv, NEW w \in Closer, NEW l \in Line, Open(w, l)
    PROVE  ReportInv'
<1>1. /\ w \in Worker /\ job' = [job EXCEPT ![w] = Job("insert", l)]
      /\ job[w].step = "none" /\ Job("insert", l).step = "insert"
      /\ UNCHANGED <<state, attempt, due, queued, crashes>>
  BY DEF Open, Goto, Job, At, Worker, table, bounds
<1> QED BY <1>1, MovesQuietly DEF IntentInv

LEMMA InsertReports ==
    ASSUME ReportInv, IntentInv, NEW w \in Worker, Insert(w)
    PROVE  ReportInv'
<1>0. PICK l \in Line : l = job[w].line
  BY JobLine DEF Insert, At, IntentInv
<1>1. At(w, "insert") /\ TypeOK
  BY <1>0 DEF Insert, At, IntentInv
<1>2. CASE state[l] = "absent"
  <2>1. /\ state' = [state EXCEPT ![l] = "pending"]
        /\ job' = [job EXCEPT ![w] = Job("claim", l)]
        /\ due' = due \cup {l}
        /\ UNCHANGED <<attempt, queued, crashes>>
    BY <1>0, <1>2 DEF Insert, Goto, bounds
  <2>2. /\ state'[l] = "pending"
        /\ \A k \in Line : k # l => state'[k] = state[k] /\ (k \in due' => k \in due)
        /\ job'[w].step = "claim" /\ \A v \in Worker : v # w => job'[v] = job[v]
    BY <1>1, <2>1 DEF TypeOK, Job
  <2>3. \A v \in Worker : ~Reporting(v, l)
    BY <1>1, <1>2 DEF ReportInv, Reports, FirstAttempt
  <2>4. \A v \in Worker : ~Reporting(v, l)'
    BY <2>2, <2>3 DEF Reporting
  <2>5. Reports(l)
    BY DEF ReportInv
  <2>6. Reports(l)'
    BY <2>1, <2>2, <2>4, <2>5 DEF Reports, At, Total, Reporting
  <2> QED BY <1>1, <2>1, <2>2, <2>6, OtherLines DEF At
<1>3. CASE state[l] # "absent"
  <2>1. /\ job' = [job EXCEPT ![w] = None]
        /\ UNCHANGED <<state, attempt, due, queued, crashes>>
    BY <1>0, <1>3 DEF Insert, Finish, bounds
  <2> QED BY <1>1, <2>1, MovesQuietly DEF None, At
<1> QED BY <1>2, <1>3

\* A claim of a line whose fault is being reported is its first attempt.
LEMMA ClaimReports ==
    ASSUME ReportInv, TypeOK, NEW w \in Worker, NEW l \in Line,
           Claimable(l), Claim(l),
           job[w].step \notin {"look", "record", "exhaust"},
           job' = [job EXCEPT ![w] = Job("send", l)],
           UNCHANGED <<queued, crashes>>
    PROVE  ReportInv'
<1>1. /\ state'[l] = "claimed" /\ attempt'[l] = attempt[l] + 1 /\ due' = due
      /\ \A k \in Line : k # l => state'[k] = state[k] /\ attempt'[k] = attempt[k]
      /\ attempt[l] \in Nat
  BY IntentAssumption DEF TypeOK, Claim
<1>2. job'[w].step = "send" /\ \A v \in Worker : v # w => job'[v] = job[v]
  BY DEF TypeOK, Job
<1>3. Reports(l)
  BY DEF ReportInv
<1>4. \A v \in Worker : Reporting(v, l)' => Reporting(v, l)
  BY <1>2 DEF Reporting
<1>5. \A v \in Worker : Reporting(v, l) => attempt[l] = 0
  BY <1>3 DEF Reports, FirstAttempt, Claimable
<1>6. \A v \in Worker : Reporting(v, l)' => FirstAttempt(l)'
  BY <1>1, <1>4, <1>5 DEF FirstAttempt
<1>7. \A v \in Worker : At(v, "exhaust")' /\ job'[v].line = l => attempt'[l] >= MaxAttempts
  BY <1>1, <1>2, <1>3, IntentAssumption DEF Reports, At
<1>8. \A v \in Worker : At(v, "record")' /\ job'[v].line = l
                          => At(v, "record") /\ job[v].line = l
  BY <1>2 DEF At
<1>9. Total(l)' = Total(l)
  BY DEF Total
<1>10. Reports(l)'
  BY <1>1, <1>3, <1>4, <1>6, <1>7, <1>8, <1>9 DEF Reports
<1> QED BY <1>1, <1>2, <1>10, OtherLines

LEMMA ClaimOwnReports ==
    ASSUME ReportInv, IntentInv, NEW w \in Worker, ClaimOwn(w)
    PROVE  ReportInv'
<1>0. PICK l \in Line : l = job[w].line
  BY JobLine DEF ClaimOwn, At, IntentInv
<1>1. At(w, "claim") /\ TypeOK
  BY <1>0 DEF ClaimOwn, At, IntentInv
<1>2. CASE Claimable(l)
  BY <1>0, <1>1, <1>2, ClaimReports DEF ClaimOwn, Goto, At, bounds
<1>3. CASE ~Claimable(l)
  <2>1. /\ job' = [job EXCEPT ![w] = None]
        /\ UNCHANGED <<state, attempt, due, queued, crashes>>
    BY <1>0, <1>3 DEF ClaimOwn, Finish, table, bounds
  <2> QED BY <1>0, <1>1, <2>1, MovesQuietly DEF None, At
<1> QED BY <1>0, <1>2, <1>3

LEMMA SendReports ==
    ASSUME ReportInv, IntentInv, NEW w \in Worker, Send(w)
    PROVE  ReportInv'
<1>0. PICK l \in Line : l = job[w].line
  BY JobLine DEF Send, At, IntentInv
<1>1. At(w, "send") /\ TypeOK
  BY <1>0 DEF Send, At, IntentInv
<1>2. PICK step \in {"receipt", "retry", "exhaust"} :
        /\ job' = [job EXCEPT ![w] = Job(step, l)]
        /\ step = "exhaust" => attempt[l] >= MaxAttempts
  BY <1>0 DEF Send, Spent, Goto
<1>3. UNCHANGED <<state, attempt, due, queued, crashes>>
  BY <1>0 DEF Send, table, bounds
<1>4. /\ job'[w].step = step /\ job'[w].line = l
      /\ \A v \in Worker : v # w => job'[v] = job[v]
  BY <1>0, <1>2 DEF IntentInv, TypeOK, Job
<1>5. ASSUME NEW k \in Line PROVE Reports(k)'
  <2>1. \A v \in Worker : /\ Reporting(v, k)' <=> Reporting(v, k)
                          /\ At(v, "record")' <=> At(v, "record")
                          /\ At(v, "record") => job'[v] = job[v]
    BY <1>1, <1>2, <1>4 DEF Reporting, At
  <2>2. Reports(k)
    BY DEF ReportInv
  <2>3. \A v \in Worker : At(v, "exhaust")' /\ job'[v].line = k => attempt[k] >= MaxAttempts
    BY <1>2, <1>4, <2>2 DEF Reports, At
  <2>4. (FirstAttempt(k) => FirstAttempt(k)') /\ Total(k)' = Total(k)
    BY <1>3 DEF FirstAttempt, Total
  <2> QED BY <1>3, <2>1, <2>2, <2>3, <2>4 DEF Reports
<1> QED BY <1>3, <1>5 DEF ReportInv

LEMMA ReceiptReports ==
    ASSUME ReportInv, IntentInv, NEW w \in Worker, Receipt(w)
    PROVE  ReportInv'
<1>0. PICK l \in Line : l = job[w].line
  BY JobLine DEF Receipt, At, IntentInv
<1>1. At(w, "receipt") /\ TypeOK
  BY <1>0 DEF Receipt, At, IntentInv
<1>2. /\ state' = [state EXCEPT ![l] = "succeeded"]
      /\ job' = [job EXCEPT ![w] = None]
      /\ UNCHANGED <<attempt, due, queued, crashes>>
  BY <1>0 DEF Receipt, Finish, bounds
<1>3. /\ state'[l] = "succeeded" /\ \A k \in Line : k # l => state'[k] = state[k]
      /\ job'[w].step = "none" /\ \A v \in Worker : v # w => job'[v] = job[v]
  BY <1>1, <1>2 DEF TypeOK, None
<1>4. Reports(l)
  BY <1>1 DEF ReportInv
<1>5. \A v \in Worker : /\ Reporting(v, l)' => Reporting(v, l)
                        /\ At(v, "record")' => At(v, "record") /\ job'[v] = job[v]
                        /\ At(v, "exhaust")' => At(v, "exhaust") /\ job'[v] = job[v]
  BY <1>3 DEF Reporting, At
<1>6. Total(l)' = Total(l) /\ FirstAttempt(l)'
  BY <1>2, <1>3 DEF Total, FirstAttempt
<1>7. Reports(l)'
  BY <1>2, <1>3, <1>4, <1>5, <1>6 DEF Reports
<1> QED BY <1>1, <1>2, <1>3, <1>7, OtherLines DEF At

LEMMA RetryReports ==
    ASSUME ReportInv, IntentInv, NEW w \in Worker, Retry(w)
    PROVE  ReportInv'
<1>0. PICK l \in Line : l = job[w].line
  BY JobLine DEF Retry, At, IntentInv
<1>1. At(w, "retry") /\ TypeOK /\ Attempting(w, l)
  BY <1>0 DEF Retry, At, IntentInv, Attempting
<1>2. state[l] = "claimed"
  BY <1>0, <1>1 DEF IntentInv, OneSender
<1>3. /\ state' = [state EXCEPT ![l] = "pending"]
      /\ job' = [job EXCEPT ![w] = None] /\ due' = due \ {l}
      /\ UNCHANGED <<attempt, queued, crashes>>
  BY <1>0, <1>2 DEF Retry, Finish, bounds
<1>4. /\ state'[l] = "pending" /\ l \notin due'
      /\ \A k \in Line : k # l => state'[k] = state[k]
      /\ job'[w].step = "none" /\ \A v \in Worker : v # w => job'[v] = job[v]
  BY <1>1, <1>3 DEF TypeOK, None
<1>5. Reports(l)
  BY <1>1 DEF ReportInv
<1>6. \A v \in Worker : /\ Reporting(v, l)' => Reporting(v, l)
                        /\ At(v, "record")' => At(v, "record") /\ job'[v] = job[v]
                        /\ At(v, "exhaust")' => At(v, "exhaust") /\ job'[v] = job[v]
  BY <1>4 DEF Reporting, At
<1>7. FirstAttempt(l) => FirstAttempt(l)'
  BY <1>2, <1>3, <1>4 DEF FirstAttempt
<1>8. Total(l)' = Total(l)
  BY <1>3 DEF Total
<1>9. Reports(l)'
  BY <1>3, <1>4, <1>5, <1>6, <1>7, <1>8 DEF Reports
<1> QED BY <1>1, <1>3, <1>4, <1>9, OtherLines DEF At

\* Whoever spends the last attempt finds no other reporter: a line whose fault
\* is being reported is in its first attempt.
LEMMA ExhaustReports ==
    ASSUME MaxAttempts > 1, ReportInv, IntentInv, NEW w \in Worker, Exhaust(w)
    PROVE  ReportInv'
<1>0. PICK l \in Line : l = job[w].line
  BY JobLine DEF Exhaust, At, IntentInv
<1>1. At(w, "exhaust") /\ TypeOK /\ Attempting(w, l)
  BY <1>0 DEF Exhaust, At, IntentInv, Attempting
<1>2. state[l] = "claimed"
  BY <1>0, <1>1 DEF IntentInv, OneSender
<1>3. /\ state' = [state EXCEPT ![l] = "exhausted"]
      /\ job' = [job EXCEPT ![w] = Job("look", l)]
      /\ UNCHANGED <<attempt, due, queued, crashes>>
  BY <1>0, <1>2 DEF Exhaust, Goto, bounds
<1>4. Reports(l) /\ attempt[l] >= MaxAttempts
  BY <1>0, <1>1 DEF ReportInv, Reports
<1>5. /\ state'[l] = "exhausted" /\ \A k \in Line : k # l => state'[k] = state[k]
      /\ job'[w].step = "look" /\ job'[w].line = l
      /\ \A v \in Worker : v # w => job'[v] = job[v]
  BY <1>1, <1>3 DEF TypeOK, Job
<1>6. \A v \in Worker : ~Reporting(v, l)
  BY <1>2, <1>4, IntentAssumption DEF Reports, FirstAttempt
<1>7. \A v \in Worker : /\ Reporting(v, l)' <=> v = w
                        /\ At(v, "record")' => At(v, "record") /\ job'[v] = job[v]
                        /\ At(v, "exhaust")' => At(v, "exhaust") /\ job'[v] = job[v]
  BY <1>5, <1>6 DEF Reporting, At
<1>8. Total(l)' = Total(l) /\ FirstAttempt(l)'
  BY <1>3, <1>5 DEF Total, FirstAttempt
<1>9. Reports(l)'
  BY <1>3, <1>4, <1>7, <1>8 DEF Reports
<1> QED BY <1>1, <1>3, <1>5, <1>9, OtherLines DEF At

LEMMA LookForFaultReports ==
    ASSUME ReportInv, IntentInv, NEW w \in Worker, LookForFault(w)
    PROVE  ReportInv'
<1>0. PICK l \in Line : l = job[w].line
  BY JobLine DEF LookForFault, At, IntentInv
<1>1. At(w, "look") /\ TypeOK /\ Reporting(w, l)
  BY <1>0 DEF LookForFault, At, IntentInv, Reporting
<1>2. UNCHANGED <<state, attempt, due, queued, crashes>>
  BY <1>0 DEF LookForFault, table, bounds
<1>3. PICK j :
        /\ job' = [job EXCEPT ![w] = j]
        /\ \/ j = None /\ Total(l) > 0
           \/ j = Job("record", l) /\ ~(Total(l) > 0)
  BY <1>0, Zenon DEF LookForFault, Finish, Goto, Known, Total
<1>4. Reports(l)
  BY <1>0, <1>1 DEF ReportInv
<1>5. job'[w] = j /\ \A v \in Worker : v # w => job'[v] = job[v]
  BY <1>3 DEF IntentInv, TypeOK
<1>6. \/ j.step = "none" /\ Total(l) = 1
      \/ j.step = "record" /\ j.line = l /\ Total(l) = 0
  <2>1. Total(l) \in Nat
    BY <1>1 DEF Total, TypeOK
  <2> QED BY <1>3, <1>4, <2>1 DEF None, Job, Reports
<1>7. \A v \in Worker : Reporting(v, l)' => v = w /\ Reporting(v, l)
  BY <1>1, <1>4, <1>5 DEF Reports, Reporting
<1>8. \A v \in Worker : At(v, "record")' /\ job'[v].line = l => Total(l) = 0
  BY <1>4, <1>5, <1>6 DEF Reports, At
<1>9. \A v \in Worker : At(v, "exhaust")' => At(v, "exhaust") /\ job'[v] = job[v]
  BY <1>5, <1>6 DEF At
<1>10. (FirstAttempt(l) => FirstAttempt(l)') /\ Total(l)' = Total(l)
  BY <1>2 DEF FirstAttempt, Total
<1>11. Total(l) = 1 \/ Reporting(w, l)'
  BY <1>5, <1>6 DEF Reporting
<1>12. Reports(l)'
  BY <1>2, <1>4, <1>7, <1>8, <1>9, <1>10, <1>11 DEF Reports
<1> QED BY <1>1, <1>2, <1>3, <1>5, <1>6, <1>12, OtherLines DEF Reporting

LEMMA RecordFaultReports ==
    ASSUME ReportInv, IntentInv, NEW w \in Worker, RecordFault(w)
    PROVE  ReportInv'
<1>0. PICK l \in Line : l = job[w].line
  BY JobLine DEF RecordFault, At, IntentInv
<1>1. At(w, "record") /\ TypeOK /\ Reporting(w, l)
  BY <1>0 DEF RecordFault, At, IntentInv, Reporting
<1>2. /\ job' = [job EXCEPT ![w] = None]
      /\ queued' = [queued EXCEPT ![l].open = @ + 1]
      /\ UNCHANGED <<state, attempt, due, crashes>>
  BY <1>0 DEF RecordFault, Finish, table, bounds
<1>3. Reports(l) /\ Total(l) = 0
  BY <1>0, <1>1 DEF ReportInv, Reports
<1>4. job'[w].step = "none" /\ \A v \in Worker : v # w => job'[v] = job[v]
  BY <1>2 DEF IntentInv, TypeOK, None
<1>5. \A k \in Line : k # l => queued'[k] = queued[k]
  BY <1>2 DEF IntentInv, TypeOK
<1>6. Total(l)' = 1
  BY <1>1, <1>2, <1>3 DEF Total, TypeOK
<1>7. \A v \in Worker : ~Reporting(v, l)'
  BY <1>1, <1>3, <1>4 DEF Reports, Reporting
<1>8. \A v \in Worker : At(v, "exhaust")' => At(v, "exhaust") /\ job'[v] = job[v]
  BY <1>4 DEF At
<1>9. Reports(l)'
  BY <1>2, <1>3, <1>6, <1>7, <1>8 DEF Reports, Reporting, At
<1> QED BY <1>1, <1>2, <1>5, <1>9, OtherLines, Jobs DEF Reporting

\* A backoff outlasts the report.
LEMMA ElapseReports ==
    ASSUME ReportInv, IntentInv, NEW l \in Line, Elapse(l)
    PROVE  ReportInv'
<1>1. /\ UNCHANGED <<state, attempt, job, queued, crashes>>
      /\ due' = due \cup {l}
      /\ \A w \in Worker : ~Reporting(w, l)
  BY DEF Elapse, Handled, Reporting, At, bounds
<1>2. ASSUME NEW k \in Line PROVE Reports(k)'
  <2>1. CASE k # l
    BY <1>1, <2>1, Undisturbed DEF ReportInv
  <2>2. CASE k = l
    BY <1>1, <2>2 DEF ReportInv, Reports, Reporting, At, Total
  <2> QED BY <2>1, <2>2
<1> QED BY <1>1, <1>2 DEF ReportInv

LEMMA AckReports ==
    ASSUME ReportInv, IntentInv, NEW l \in Line, Ack(l)
    PROVE  ReportInv'
<1>1. UNCHANGED <<state, attempt, due, job, crashes>>
  BY DEF Ack, table, bounds
<1>2. \A k \in Line : Total(k)' = Total(k)
  <2>1. /\ queued[l].open > 0 /\ queued[l] \in [open : Nat, acked : Nat]
        /\ queued'[l] = [open |-> queued[l].open - 1, acked |-> queued[l].acked + 1]
        /\ \A k \in Line : k # l => queued'[k] = queued[k]
    BY DEF Ack, IntentInv, TypeOK
  <2>2. Total(l)' = Total(l)
    BY <2>1 DEF Total
  <2> QED BY <2>1, <2>2 DEF Total
<1>3. ASSUME NEW k \in Line PROVE Reports(k)'
  BY <1>1, <1>2 DEF ReportInv, Reports, Reporting, FirstAttempt, At
<1> QED BY <1>1, <1>3 DEF ReportInv

\* An operator re-arms a spent line: it starts over, and nobody attempts it.
LEMMA ResetReports ==
    ASSUME ReportInv, IntentInv, NEW l \in Line, Reset(l)
    PROVE  ReportInv'
<1>1. state[l] = "exhausted" /\ TypeOK
  BY DEF Reset, IntentInv
<1>2. /\ state' = [state EXCEPT ![l] = "pending"]
      /\ attempt' = [attempt EXCEPT ![l] = 0]
      /\ due' = due \cup {l}
      /\ UNCHANGED <<job, queued, crashes>>
  BY <1>1 DEF Reset, bounds
<1>3. /\ state'[l] = "pending" /\ attempt'[l] = 0
      /\ \A k \in Line : k # l => state'[k] = state[k] /\ attempt'[k] = attempt[k]
  BY <1>1, <1>2 DEF TypeOK
<1>4. ASSUME NEW k \in Line PROVE Reports(k)'
  <2>1. CASE k # l
    BY <1>2, <1>3, <2>1, Undisturbed DEF ReportInv
  <2>2. CASE k = l
    <3>1. \A w \in Worker : ~(At(w, "exhaust") /\ job[w].line = l)
      BY <1>1 DEF IntentInv, OneSender, Attempting, At
    <3>2. FirstAttempt(l)' /\ Reports(l)
      BY <1>3 DEF FirstAttempt, ReportInv
    <3>3. Reports(l)'
      BY <1>2, <1>3, <3>1, <3>2 DEF Reports, Reporting, At, Total
    <3> QED BY <2>2, <3>3
  <2> QED BY <2>1, <2>2
<1> QED BY <1>2, <1>4 DEF ReportInv

\* A crash forgets who was going to report.
LEMMA CrashReports ==
    ASSUME ReportInv, Crash
    PROVE  ReportInv'
<1>1. /\ crashes \in Nat /\ crashes' = crashes + 1
      /\ UNCHANGED <<state, attempt, queued>>
      /\ \A w \in Worker : job'[w].step = "none"
  BY DEF Crash, ReportInv, None, table
<1>2. ASSUME NEW k \in Line PROVE Reports(k)'
  BY <1>1 DEF ReportInv, Reports, Reporting, At, Total
<1> QED BY <1>1, <1>2 DEF ReportInv

LEMMA NextReports ==
    ASSUME MaxAttempts > 1, ReportInv, IntentInv, [Next]_vars
    PROVE  ReportInv'
<1>1. ASSUME NEW w \in Closer, NEW l \in Line, Open(w, l) PROVE ReportInv'
  BY <1>1, OpenReports
<1>2. ASSUME NEW w \in Worker, Work(w) PROVE ReportInv'
  BY <1>2, InsertReports, ClaimOwnReports, SendReports, ReceiptReports,
     RetryReports, ExhaustReports, LookForFaultReports, RecordFaultReports DEF Work
<1>3. CASE StartTick \/ EndTick
  <2>1. UNCHANGED <<state, attempt, due, job, queued, crashes>>
    BY <1>3 DEF StartTick, EndTick, table, bounds
  <2> QED BY <2>1, QuietStep
<1>4. CASE ClaimDue
  <2>1. PICK l \in window : Claimable(l) /\ Claim(l) /\ Goto("pump", "send", l)
    BY <1>4 DEF ClaimDue
  <2>2. /\ l \in Line /\ "pump" \in Worker /\ TypeOK /\ job["pump"].step = "none"
        /\ UNCHANGED <<queued, crashes>>
    BY <1>4, <2>1 DEF ClaimDue, IntentInv, TypeOK, Worker, At, bounds
  <2> QED BY <2>1, <2>2, ClaimReports DEF Goto
<1>5. ASSUME NEW l \in Line, StartRepair(l) PROVE ReportInv'
  <2>1. UNCHANGED <<state, attempt, due, job, queued, crashes>>
    BY <1>5 DEF StartRepair, table
  <2> QED BY <2>1, QuietStep
<1>6. ASSUME NEW l \in Line, Elapse(l) \/ Ack(l) \/ Reset(l) PROVE ReportInv'
  BY <1>6, ElapseReports, AckReports, ResetReports
<1>7. CASE Crash
  BY <1>7, CrashReports
<1>8. CASE UNCHANGED vars
  <2>1. UNCHANGED <<state, attempt, due, job, queued, crashes>>
    BY <1>8 DEF vars, table, bounds
  <2> QED BY <2>1, QuietStep
<1> QED BY <1>1, <1>2, <1>3, <1>4, <1>5, <1>6, <1>7, <1>8 DEF Next, Tick

\* The queue names a spent line, and names it once, as long as one attempt does
\* not spend a line (the daemon makes three).
THEOREM SpentLinesAreReported ==
    ASSUME MaxAttempts > 1
    PROVE  Spec => []SpentIsReported
<1>1. Init => ReportInv
  BY DEF Init, ReportInv, Reports, Reporting, At, None, Total
<1>2. ReportInv /\ IntentInv => SpentIsReported
  <2> SUFFICES ASSUME ReportInv, IntentInv, NEW l \in Line
               PROVE  /\ Total(l) <= 1
                      /\ state[l] = "exhausted" /\ ~Handled(l) /\ crashes = 0
                           => Total(l) = 1
    BY DEF SpentIsReported, Total
  <2>1. \A w \in Worker : Reporting(w, l) => Handled(l)
    BY DEF Reporting, Handled, At
  <2> QED BY <2>1 DEF ReportInv, Reports
<1>3. ReportInv /\ IntentInv /\ [Next]_vars => ReportInv'
  BY NextReports
<1> QED BY <1>1, <1>2, <1>3, SpecIntentInv, PTL DEF Spec

=============================================================================
