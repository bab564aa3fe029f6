--------------------------- MODULE RecoveryProofs ---------------------------
(***************************************************************************)
(* Proofs about Recovery: its types, the single layer of recoveries, the   *)
(* one fault per lost generation, and that no loss is silent.              *)
(*                                                                         *)
(* The programs carry the argument.  A recovery that is inserted and not   *)
(* yet linked is known to one thread only: it has no row, no fault and no  *)
(* frame, and every other step is about a task that is older.  A fault     *)
(* that was looked up and not yet inserted is of a kind only one running   *)
(* thread records.  And the step that queues a loss stands before the one  *)
(* that fails the session.                                                 *)
(***************************************************************************)
EXTENDS Recovery, LifecycleProofs, SequenceTheorems, FiniteSetTheorems

\* The threads that run the reconcile pass, never both at a time.
Keepers == {"boot", "reaper"}

\* The kinds of fault a thread records.
KindsOf(w) ==
    IF w = "pump" THEN {"agent_reported"}
    ELSE IF w = "conn" THEN {"operator_fail"}
    ELSE {"probe_dead", "mismatch_terminate"}

\* A row that projects what it stores.
LegalRows == {r \in Row : r # NoRow => IsLegal(r)}

Frame(kinds) == [task : Task, kind : kinds, gen : Nat, seq : Nat]

Only(w, W, ops) == IF w \in W THEN ops ELSE {}

\* The steps a thread may have left behind its first one, when `B` are the
\* tasks any thread may act on, `O` those of its own and `n` the faults.
Later(w, B, O, n) ==
    [op : Only(w, Keepers, {"list", "sweep"}) \cup Only(w, {"boot"}, {"reap"})]
      \cup [op : {"early_exit", "recycled", "close_tab", "reap_one", "sweep_one"}
                   \cup Only(w, Keepers, {"reread"}), task : B]
      \cup [op : Only(w, Keepers, {"look", "probe", "dead", "mismatch"})
                   \cup {"adopt", "adopt_gone", "adopt_next", "rebind", "rebind_next"},
            task : B, obs : Observation]
      \cup [op : {"feed"}, task : B, kind : FeedKind]
      \cup [op : {"mirror"}, task : B, outcome : Outcome]
      \cup [op : {"record"}, task : B, kind : KindsOf(w)]
      \cup [op : {"recover"}, fault : 1..n, twice : BOOLEAN]
      \cup [op : {"spawn"}, task : (B \cup O) \ Work]
      \cup [op : {"set_state"}, task : B, state : Settled]
      \cup [op : {"set_state"}, task : B \ Work, state : {"running"}]
      \cup [op : Only(w, {"pump"}, {"report"}), task : B, frame : Frame(ReportKind)]
      \cup [op : {"out"}, task : B, frame : Frame(Results)]
      \cup [op : Only(w, {"conn"}, {"repair"}), task : Task, order : Orders]

\* The steps that follow a lookup at once.
First(w, B, O, n) ==
    [op : {"insert"}, task : B, kind : KindsOf(w), gen : Nat]
      \cup [op : {"create"}, fault : 1..n, twice : BOOLEAN]
      \cup [op : {"link"}, fault : 1..n, task : (O \cap Task) \ Work]

Steps(w, B, O, n) == Later(w, B, O, n) \cup First(w, B, O, n)

\* Programs of steps in S, in L but for the first one.
Programs(S, L) == {p \in Seq(S) : \A i \in 2..Len(p) : p[i] \in L}

-----------------------------------------------------------------------------
\* The recovery a thread is about to link.
Own(w) == IF Runs(w, "link") THEN {Head(prog[w]).task} ELSE {}

\* The tasks any thread may know of.
Born == {t \in Task : state[t] # "absent" /\ \A w \in AllWorkers : t \notin Own(w)}

StepsOf(w) == Steps(w, Born, Own(w), Len(faults))
LaterOf(w) == Later(w, Born, Own(w), Len(faults))

\* What the tables, the frames and the programs hold.
Tables ==
    /\ TypeOK
    /\ row \in [Task -> LegalRows]
    /\ \A t \in Work : state[t] # "absent"
    /\ \A t \in Task : row[t] # NoRow \/ cause[t] # 0 => t \in Born
    /\ \A f \in DOMAIN faults :
         /\ faults[f].task \in Born
         /\ faults[f].recovery # NoTask => faults[f].recovery \in Born \ Work
    /\ said \subseteq {m \in Frame(Frames \cup Results) : row[m.task] # NoRow}

Running ==
    /\ DOMAIN prog = AllWorkers
    /\ \A w \in AllWorkers : prog[w] \in Programs(StepsOf(w), LaterOf(w))
    /\ phase \in {"boot", "up"} /\ (phase = "up" => prog["boot"] = <<>>)

\* A recovery about to be linked is new, and one thread's.
Newborn ==
    /\ \A w \in AllWorkers : \A t \in Own(w) : state[t] = "pending"
    /\ \A v, w \in AllWorkers : v # w => Own(v) \cap Own(w) = {}

\* The fault a recovery is made for is about no recovery.
Layered ==
    /\ SingleLayer
    /\ \A w \in AllWorkers :
         Runs(w, "create") \/ Runs(w, "link")
           => cause[faults[Head(prog[w]).fault].task] = 0

\* A fault about to be inserted is not in the queue.
Twice(w) == Queued(Head(prog[w]).task, Head(prog[w]).kind, Head(prog[w]).gen)

Once ==
    /\ FaultOnce
    /\ \A w \in AllWorkers :
         Runs(w, "insert") /\ Head(prog[w]).kind \in RecoveryKind => ~Twice(w)

RecoveryInv == Tables /\ Running /\ Newborn /\ Layered /\ Once

\* The work of a lost session is settled or in the queue.
Told(t) ==
    \/ state[t] \in Settled
    \/ \E f \in DOMAIN faults : faults[f].task = t /\ faults[f].kind \in RecoveryKind

\* The pass fails the session of t in two steps, the i-th of p and the next.
FailsAt(p, i, t) == p[i] = Feed(t, "fail") /\ p[i + 1] = Feed(t, "agent_gone")

\* The first step of p is on its way to queue the loss.
Tells(p, t) ==
    Head(p).op \in {"record", "insert"} /\ Head(p).task = t /\ Head(p).kind = "probe_dead"

\* Before it, either the loss is told or the step that tells it comes first.
LossInv ==
    \A w \in Keepers, t \in Work : \A i \in 1..(Len(prog[w]) - 1) :
      FailsAt(prog[w], i, t) =>
        \/ Told(t)
        \/ i = 2 /\ Tells(prog[w], t)

-----------------------------------------------------------------------------
(***************************************************************************)
(* Programs: what their steps carry, and how one is made longer.           *)
(***************************************************************************)

LEMMA StepFields ==
    ASSUME NEW w, NEW B, NEW O, NEW n, NEW s \in Steps(w, B, O, n)
    PROVE  /\ s.op \in {"reread", "early_exit", "recycled", "close_tab", "reap_one",
                        "sweep_one", "look", "probe", "dead", "mismatch", "adopt",
                        "adopt_gone", "adopt_next", "rebind", "rebind_next",
                        "feed", "mirror", "record", "insert", "set_state",
                        "report", "out"}
                => s.task \in B
           /\ s.op \in {"look", "probe", "dead", "mismatch", "adopt", "adopt_gone",
                        "adopt_next", "rebind", "rebind_next"}
                => s.obs \in Observation
           /\ s.op \in {"list", "sweep", "reread", "look", "probe", "dead", "mismatch"}
                => w \in Keepers
           /\ s.op = "reap" => w = "boot"
           /\ s.op = "feed" => s.kind \in FeedKind
           /\ s.op = "mirror" => s.outcome \in Outcome
           /\ s.op \in {"record", "insert"} => s.kind \in KindsOf(w)
           /\ s.op = "insert" => s.gen \in Nat
           /\ s.op \in {"recover", "create", "link"} => s.fault \in 1..n
           /\ s.op \in {"recover", "create"} => s.twice \in BOOLEAN
           /\ s.op = "spawn" => s.task \in (B \cup O) \ Work
           /\ s.op = "link" => s.task \in (O \cap Task) \ Work
           /\ s.op = "set_state" =>
                s.state \in Settled \/ (s.state = "running" /\ s.task \notin Work)
           /\ s.op = "report" => w = "pump" /\ s.frame \in Frame(ReportKind)
           /\ s.op = "out" => s.frame \in Frame(Results)
           /\ s.op = "repair" => w = "conn" /\ s.task \in Task
BY DEF Steps, Later, First, Only, Settled

\* A step that may stand behind another one follows no lookup.
LEMMA LaterOps ==
    ASSUME NEW w, NEW B, NEW O, NEW n, NEW s \in Later(w, B, O, n)
    PROVE  s.op \notin {"insert", "create", "link"}
BY DEF Later, Only

\* The steps handlers append.
LEMMA LaterSteps ==
    ASSUME NEW w, NEW B, NEW O, NEW n
    PROVE  LET L == Later(w, B, O, n) IN
           /\ \A t \in B : /\ EarlyExit(t) \in L /\ Recycled(t) \in L
                           /\ CloseTab(t) \in L /\ ReapOne(t) \in L /\ SweepOne(t) \in L
           /\ \A t \in B, o \in Observation :
                /\ Adopt(t, o) \in L /\ AdoptGone(t, o) \in L /\ AdoptNext(t, o) \in L
                /\ Rebind(t, o) \in L /\ RebindNext(t, o) \in L
           /\ \A t \in B, kind \in FeedKind : Feed(t, kind) \in L
           /\ \A t \in B, outcome \in Outcome : Mirror(t, outcome) \in L
           /\ \A t \in B, kind \in KindsOf(w) : Record(t, kind) \in L
           /\ \A f \in 1..n, twice \in BOOLEAN : Recover(f, twice) \in L
           /\ \A t \in (B \cup O) \ Work : Spawn(t) \in L
           /\ \A t \in B : \A s \in Settled : SetState(t, s) \in L
           /\ \A t \in B \ Work : SetState(t, "running") \in L
           /\ \A t \in B, f \in Frame(Results) : Out(f).task \in B => Out(f) \in L
<1>. DEFINE L == Later(w, B, O, n)
<1>1. \A t \in B : /\ EarlyExit(t) \in L /\ Recycled(t) \in L
                   /\ CloseTab(t) \in L /\ ReapOne(t) \in L /\ SweepOne(t) \in L
  BY DEF Later, EarlyExit, Recycled, CloseTab, ReapOne, SweepOne
<1>2. \A t \in B, o \in Observation :
        /\ Adopt(t, o) \in L /\ AdoptGone(t, o) \in L /\ AdoptNext(t, o) \in L
        /\ Rebind(t, o) \in L /\ RebindNext(t, o) \in L
  BY DEF Later, Adopt, AdoptGone, AdoptNext, Rebind, RebindNext
<1>3. \A t \in B, kind \in FeedKind : Feed(t, kind) \in L
  BY DEF Later, Feed
<1>4. \A t \in B, outcome \in Outcome : Mirror(t, outcome) \in L
  BY DEF Later, Mirror
<1>5. \A t \in B, kind \in KindsOf(w) : Record(t, kind) \in L
  BY DEF Later, Record
<1>6. \A f \in 1..n, twice \in BOOLEAN : Recover(f, twice) \in L
  BY DEF Later, Recover
<1>7. \A t \in (B \cup O) \ Work : Spawn(t) \in L
  BY DEF Later, Spawn
<1>8. /\ \A t \in B : \A s \in Settled : SetState(t, s) \in L
      /\ \A t \in B \ Work : SetState(t, "running") \in L
  BY DEF Later, SetState
<1>9. \A t \in B, f \in Frame(Results) : Out(f).task \in B => Out(f) \in L
  BY DEF Later, Out
<1>. QED
  BY <1>1, <1>2, <1>3, <1>4, <1>5, <1>6, <1>7, <1>8, <1>9

\* Those of one thread only.
LEMMA LaterStepsOf ==
    ASSUME NEW w, NEW B, NEW O, NEW n
    PROVE  LET L == Later(w, B, O, n) IN
           /\ w \in Keepers =>
                /\ List \in L /\ Sweep \in L
                /\ \A t \in B : Reread(t) \in L
                /\ \A t \in B, o \in Observation :
                     /\ Look(t, o) \in L /\ Probe(t, o) \in L
                     /\ Dead(t, o) \in L /\ Mismatch(t, o) \in L
           /\ w = "boot" => Reap \in L
           /\ w = "pump" => \A f \in Frame(ReportKind) : f.task \in B => Report(f) \in L
           /\ w = "conn" => \A t \in Task, order \in Orders : Repair(t, order) \in L
<1>. DEFINE L == Later(w, B, O, n)
<1>1. /\ w \in Keepers => List \in L /\ Sweep \in L /\ \A t \in B : Reread(t) \in L
      /\ w = "boot" => Reap \in L
  BY DEF Later, List, Reap, Sweep, Reread, Only
<1>2. w \in Keepers => \A t \in B, o \in Observation :
        Look(t, o) \in L /\ Probe(t, o) \in L /\ Dead(t, o) \in L /\ Mismatch(t, o) \in L
  BY DEF Later, Look, Probe, Dead, Mismatch, Only
<1>3. w = "pump" => \A f \in Frame(ReportKind) : f.task \in B => Report(f) \in L
  BY DEF Later, Report, Only
<1>4. w = "conn" => \A t \in Task, order \in Orders : Repair(t, order) \in L
  BY DEF Later, Repair, Only
<1>. QED
  BY <1>1, <1>2, <1>3, <1>4

\* More tasks and more faults allow more steps.
LEMMA StepsGrow ==
    ASSUME NEW w, NEW B, NEW O, NEW n \in Nat, NEW B2, NEW O2, NEW n2 \in Nat,
           B \subseteq B2, n <= n2
    PROVE  /\ O \subseteq B2 \cup O2 => Later(w, B, O, n) \subseteq Later(w, B2, O2, n2)
           /\ O \subseteq O2 => First(w, B, O, n) \subseteq First(w, B2, O2, n2)
BY DEF Later, First

\* The program that replaces its first step by q.
LEMMA Splice ==
    ASSUME NEW S, NEW p \in Seq(S), p # <<>>, NEW q \in Seq(S)
    PROVE  LET r == q \o Tail(p) IN
           /\ r \in Seq(S) /\ Len(r) = Len(q) + Len(p) - 1
           /\ \A i \in 1..Len(r) :
                r[i] = IF i <= Len(q) THEN q[i] ELSE p[i - Len(q) + 1]
<1>1. /\ Tail(p) \in Seq(S) /\ Len(Tail(p)) = Len(p) - 1
      /\ \A i \in 1..Len(Tail(p)) : Tail(p)[i] = p[i + 1]
  BY HeadTailProperties
<1>2. Len(q) \in Nat /\ Len(p) \in Nat \ {0}
  BY EmptySeq, LenProperties
<1>3. /\ q \o Tail(p) \in Seq(S)
      /\ Len(q \o Tail(p)) = Len(q) + Len(Tail(p))
      /\ \A i \in 1..Len(q) + Len(Tail(p)) :
           (q \o Tail(p))[i] = IF i <= Len(q) THEN q[i] ELSE Tail(p)[i - Len(q)]
  BY <1>1, ConcatProperties
<1>. QED
  BY <1>1, <1>2, <1>3

\* What stands behind the first step of a program stays when it is done.
LEMMA ProgramGoesOn ==
    ASSUME NEW S, NEW L, NEW p \in Programs(S, L), p # <<>>, NEW T, NEW M,
           L \subseteq M, M \subseteq T, NEW q \in Programs(T, M)
    PROVE  q \o Tail(p) \in Programs(T, M)
<1>. DEFINE r == q \o Tail(p)
<1>1. p \in Seq(S \cup T) /\ q \in Seq(S \cup T) /\ q \in Seq(T)
  BY SeqMonotonic DEF Programs
<1>2. /\ r \in Seq(S \cup T) /\ Len(r) = Len(q) + Len(p) - 1
      /\ \A i \in 1..Len(r) : r[i] = IF i <= Len(q) THEN q[i] ELSE p[i - Len(q) + 1]
  BY <1>1, Splice
<1>3. Len(p) \in Nat \ {0} /\ Len(q) \in Nat
  BY <1>1, EmptySeq, LenProperties
<1>4. ASSUME NEW i \in 1..Len(r) PROVE r[i] \in T /\ (i > 1 => r[i] \in M)
  <2>1. CASE i <= Len(q)
    <3>1. r[i] = q[i] /\ i \in 1..Len(q)
      BY <1>2, <1>3, <2>1
    <3>. QED
      BY <1>1, <3>1, ElementOfSeq DEF Programs
  <2>2. CASE i > Len(q)
    <3>1. r[i] = p[i - Len(q) + 1] /\ i - Len(q) + 1 \in 2..Len(p)
      BY <1>2, <1>3, <2>2
    <3>. QED
      BY <3>1 DEF Programs
  <2>. QED
    BY <1>2, <1>3, <2>1, <2>2
<1>5. r \in Seq(T)
  <2>1. r \in [1..Len(r) -> S \cup T] /\ Len(r) \in Nat
    BY <1>2, LenProperties
  <2>2. r \in [1..Len(r) -> T]
    <3>. HIDE DEF r
    <3>. QED
      BY <1>4, <2>1
  <2>. HIDE DEF r
  <2>. QED
    BY <2>1, <2>2, SeqDef
<1>6. \A i \in 2..Len(r) : r[i] \in M
  <2>. SUFFICES ASSUME NEW i \in 2..Len(r) PROVE r[i] \in M
    OBVIOUS
  <2>1. i \in 1..Len(r) /\ i > 1
    BY <1>2, <1>3
  <2>. QED
    BY <1>4, <2>1
<1>. HIDE DEF r
<1>7. r \in Programs(T, M)
  BY <1>5, <1>6 DEF Programs
<1>. QED
  BY <1>7 DEF r

LEMMA ProgramHead ==
    ASSUME NEW S, NEW L, NEW p \in Programs(S, L), p # <<>>
    PROVE  Head(p) \in S /\ Head(p) = p[1] /\ Len(p) \in Nat \ {0}
BY HeadTailProperties, EmptySeq, LenProperties DEF Programs

LEMMA ProgramsGrow ==
    ASSUME NEW S, NEW L, NEW T, NEW M, S \subseteq T, L \subseteq M,
           NEW p \in Programs(S, L)
    PROVE  p \in Programs(T, M)
BY SeqMonotonic DEF Programs

LEMMA SeqIsProgram ==
    ASSUME NEW S, NEW L, L \subseteq S, NEW p \in Seq(L)
    PROVE  p \in Programs(S, L)
<1>1. p \in Seq(S) /\ Len(p) \in Nat
  BY SeqMonotonic, LenProperties
<1>2. \A i \in 2..Len(p) : p[i] \in L
  BY <1>1, ElementOfSeq
<1>. QED
  BY <1>1, <1>2 DEF Programs

\* A program that fails no session in two steps of its own.
Calm(q) ==
    \A i \in DOMAIN q :
      q[i].op = "feed" /\ q[i].kind = "fail" => i + 1 \in DOMAIN q /\ q[i + 1].op # "feed"

\* What fails a session behind the steps that are new was there before.
LEMMA FailsBehind ==
    ASSUME NEW S, NEW p \in Seq(S), p # <<>>, NEW q \in Seq(S), NEW t,
           NEW i \in 1..(Len(q \o Tail(p)) - 1), FailsAt(q \o Tail(p), i, t),
           i > Len(q)
    PROVE  /\ i - Len(q) + 1 \in 2..(Len(p) - 1)
           /\ FailsAt(p, i - Len(q) + 1, t)
<1>. DEFINE r == q \o Tail(p)
<1>1. /\ Len(r) = Len(q) + Len(p) - 1
      /\ \A j \in 1..Len(r) : r[j] = IF j <= Len(q) THEN q[j] ELSE p[j - Len(q) + 1]
  BY Splice
<1>2. Len(p) \in Nat \ {0} /\ Len(q) \in Nat
  BY EmptySeq, LenProperties
<1>3. r[i] = Feed(t, "fail") /\ r[i + 1] = Feed(t, "agent_gone")
  BY DEF FailsAt
<1>. HIDE DEF r
<1>4. i - Len(q) + 1 \in 2..(Len(p) - 1)
  BY <1>1, <1>2 DEF r
<1>5. r[i] = p[i - Len(q) + 1] /\ r[i + 1] = p[i - Len(q) + 2]
  BY <1>1, <1>2 DEF r
<1>6. i - Len(q) + 1 + 1 = i - Len(q) + 2
  BY <1>2
<1>. QED
  BY <1>3, <1>4, <1>5, <1>6 DEF FailsAt

LEMMA CalmGoesOn ==
    ASSUME NEW S, NEW p \in Seq(S), p # <<>>, NEW q \in Seq(S), Calm(q), NEW t,
           NEW i \in 1..(Len(q \o Tail(p)) - 1), FailsAt(q \o Tail(p), i, t)
    PROVE  i > Len(q)
<1>. DEFINE r == q \o Tail(p)
<1>1. /\ Len(r) = Len(q) + Len(p) - 1
      /\ \A j \in 1..Len(r) : r[j] = IF j <= Len(q) THEN q[j] ELSE p[j - Len(q) + 1]
  BY Splice
<1>2. Len(p) \in Nat \ {0} /\ Len(q) \in Nat /\ DOMAIN q = 1..Len(q)
  BY EmptySeq, LenProperties
<1>3. r[i].op = "feed" /\ r[i].kind = "fail" /\ r[i + 1].op = "feed"
  <2>1. r[i] = Feed(t, "fail") /\ r[i + 1] = Feed(t, "agent_gone")
    BY DEF FailsAt
  <2>. HIDE DEF r
  <2>. QED
    BY <2>1 DEF Feed
<1>. HIDE DEF r
<1>. SUFFICES ASSUME i <= Len(q) PROVE FALSE
  BY <1>2
<1>4. r[i] = q[i] /\ i \in DOMAIN q
  BY <1>1, <1>2 DEF r
<1>5. i + 1 \in DOMAIN q /\ q[i + 1].op # "feed"
  BY <1>3, <1>4 DEF Calm
<1>6. r[i + 1] = q[i + 1]
  BY <1>1, <1>2, <1>5 DEF r
<1>. QED
  BY <1>3, <1>5, <1>6

-----------------------------------------------------------------------------
(***************************************************************************)
(* Rows.                                                                   *)
(***************************************************************************)

\* A row a verdict of the reducer is written to stays one.
LEMMA FedStays ==
    ASSUME NEW r \in LegalRows, NEW e, NEW v, Sound(Stored(r), v, Reduce(r, e))
    PROVE  Fed(r, e) \in LegalRows /\ (r # NoRow => Fed(r, e) # NoRow)
<1>1. Fed(r, e) = r \/ (Reduce(r, e).tag = "applied" /\ Fed(r, e) = Reduce(r, e).obs)
  BY DEF Fed, Upsert
<1>2. Reduce(r, e).tag = "applied" =>
        Reduce(r, e).obs \in Observation /\ IsLegal(Reduce(r, e).obs)
  BY DEF Sound
<1>. QED
  BY <1>1, <1>2, NoRowAssumption DEF LegalRows, Row

LEMMA FedPlain ==
    ASSUME NEW r \in LegalRows, NEW kind \in PlainKind, NEW v \in Version
    PROVE  /\ Fed(r, PlainEvent(kind, v)) \in LegalRows
           /\ r # NoRow => Fed(r, PlainEvent(kind, v)) # NoRow
<1>1. r \in Row /\ (r # NoRow => IsLegal(r))
  BY DEF LegalRows
<1>2. Sound(Stored(r), v, Reduce(r, PlainEvent(kind, v)))
  BY <1>1, ReducePlain
<1>. QED
  BY <1>2, FedStays

LEMMA FedNextStays ==
    ASSUME NEW r \in LegalRows, NEW kind \in FeedKind
    PROVE  FedNext(r, kind) \in LegalRows /\ (r # NoRow => FedNext(r, kind) # NoRow)
<1>1. NextVersion(r) \in Version
  BY NextVersionType DEF LegalRows
<1>2. kind \in PlainKind
  BY DEF FeedKind, PlainKind
<1>. QED
  BY <1>1, <1>2, FedPlain DEF FedNext

LEMMA FedSettle ==
    ASSUME NEW r \in LegalRows, NEW outcome \in Outcome
    PROVE  /\ Fed(r, SettleEvent(r, outcome)) \in LegalRows
           /\ r # NoRow => Fed(r, SettleEvent(r, outcome)) # NoRow
<1>1. r \in Row /\ (r # NoRow => IsLegal(r))
  BY DEF LegalRows
<1>. QED
  BY <1>1, ReduceSettle, FedStays

LEMMA FedMoves ==
    ASSUME NEW r \in LegalRows, NEW s \in Observation
    PROVE  /\ Fed(r, AdoptEvent(s)) \in LegalRows
           /\ Fed(r, RebindEvent(s)) \in LegalRows
           /\ r # NoRow => Fed(r, AdoptEvent(s)) # NoRow /\ Fed(r, RebindEvent(s)) # NoRow
<1>1. r \in Row /\ (r # NoRow => IsLegal(r))
  BY DEF LegalRows
<1>2. [gen |-> s.gen + 1, seq |-> 0] \in Version
  BY DEF Observation, Version
<1>3. "adopt_new_generation" \in PlainKind
  BY DEF PlainKind
<1>. QED
  BY <1>1, <1>2, <1>3, FedPlain, ReduceRebind, FedStays DEF AdoptEvent

-----------------------------------------------------------------------------
(***************************************************************************)
(* Steps that open no lookup and close none.                               *)
(***************************************************************************)

\* Only tasks every thread may know of change their state or row, work of the
\* beginning that is settled stays so, and the queue keeps what its faults are
\* about.
Steady ==
    /\ UNCHANGED <<cause, phase>>
    /\ state' \in [Task -> {"absent"} \cup Owed \cup Settled]
    /\ \A t \in Task :
         \/ state'[t] = state[t]
         \/ t \in Born /\ state'[t] # "absent" /\ (t \in Work => state'[t] \in Settled)
    /\ row' \in [Task -> LegalRows]
    /\ \A t \in Task :
         row'[t] = row[t] \/ (t \in Born /\ (row[t] # NoRow => row'[t] # NoRow))
    /\ faults' \in Seq(Fault) /\ Len(faults') = Len(faults)
    /\ \A f \in DOMAIN faults :
         /\ faults'[f].task = faults[f].task
         /\ faults'[f].kind = faults[f].kind
         /\ faults'[f].gen = faults[f].gen
         /\ faults'[f].recovery = faults[f].recovery
    /\ said' \subseteq {m \in Frame(Frames \cup Results) : row'[m.task] # NoRow}
    /\ tracked' \subseteq Task
    /\ tab' \in [Task -> {"none", "open", "detached", "gone"}]

LEMMA OneRuns ==
    ASSUME Tables, Running, NEW w \in AllWorkers, prog[w] # <<>>
    PROVE  phase = "boot" <=> w = "boot"
BY DEF Tables, Running, TypeOK, AllWorkers, AllThreads

\* The faults, whose rows are numbered.
LEMMA FaultsDomain ==
    ASSUME TypeOK
    PROVE  /\ Len(faults) \in Nat /\ DOMAIN faults = 1..Len(faults)
           /\ \A f \in DOMAIN faults : faults[f] \in Fault
BY LenProperties, ElementOfSeq DEF TypeOK

\* A program made new without the step that follows a lookup.
Renewed(w) ==
    /\ prog'[w] \in Seq(Later(w, Born, {}, Len(faults)))
    /\ ~Runs(w, "link")
    /\ phase = "boot" <=> w = "boot"

LEMMA Ordinary ==
    ASSUME Tables, Running, Newborn, Layered, Once, Steady, DOMAIN prog' = AllWorkers,
           \A w \in AllWorkers : prog'[w] = prog[w] \/ Renewed(w)
    PROVE  Tables' /\ Running' /\ Newborn' /\ Layered' /\ Once'
<1>1. \A w \in AllWorkers : Renewed(w) /\ prog'[w] # <<>> =>
        Head(prog'[w]).op \notin {"insert", "create", "link"}
  BY HeadTailProperties, LaterOps DEF Renewed
<1>2. \A w \in AllWorkers : \A op \in {"insert", "create", "link"} :
        Runs(w, op)' => Runs(w, op) /\ prog'[w] = prog[w]
  BY <1>1 DEF Runs
<1>3. \A w \in AllWorkers : Own(w)' = Own(w)
  BY <1>2 DEF Own, Runs, Renewed
<1>4. Born' = Born
  BY <1>3 DEF Born, Steady
<1>5. DOMAIN faults' = DOMAIN faults /\ DOMAIN faults = 1..Len(faults)
      /\ Len(faults) \in Nat
  BY LenProperties, FaultsDomain DEF Steady, Tables
<1>6. ASSUME NEW w \in AllWorkers, NEW op \in {"insert", "create", "link"}, Runs(w, op)
      PROVE  Head(prog[w]) \in StepsOf(w) /\ Head(prog[w]).op = op
  BY <1>6, ProgramHead DEF Running, Runs
<1>7. Running'
  <2>1. \A w \in AllWorkers : StepsOf(w)' = StepsOf(w) /\ LaterOf(w)' = LaterOf(w)
    BY <1>3, <1>4 DEF StepsOf, LaterOf, Steady
  <2>2. ASSUME NEW w \in AllWorkers, Renewed(w)
        PROVE  prog'[w] \in Programs(StepsOf(w), LaterOf(w))
    <3>1. Own(w) = {}
      BY <2>2 DEF Renewed, Own
    <3>. QED
      BY <2>2, <3>1, SeqIsProgram DEF Renewed, StepsOf, LaterOf, Steps
  <2>3. \A w \in AllWorkers : prog'[w] \in Programs(StepsOf(w)', LaterOf(w)')
    BY <2>1, <2>2 DEF Running
  <2>4. phase' \in {"boot", "up"} /\ (phase' = "up" => prog'["boot"] = <<>>)
    BY DEF Running, Steady, AllWorkers, Renewed
  <2>. QED
    BY <2>3, <2>4 DEF Running
<1>8. Newborn'
  <2>1. \A w \in AllWorkers : \A t \in Own(w) : t \notin Born /\ state[t] = "pending"
    BY DEF Born, Newborn
  <2>2. \A w \in AllWorkers : Own(w) \subseteq Task
    <3>. SUFFICES ASSUME NEW w \in AllWorkers, Runs(w, "link")
                  PROVE  Head(prog[w]).task \in Task
      BY DEF Own
    <3>. QED
      BY <1>6, StepFields DEF StepsOf
  <2>. QED
    BY <1>3, <2>1, <2>2 DEF Newborn, Steady
<1>9. Layered'
  <2>1. SingleLayer'
    <3>1. \A r \in Task : cause[r] # 0 => cause[r] \in DOMAIN faults
      BY <1>5 DEF Tables, TypeOK
    <3>. QED
      BY <3>1 DEF Layered, SingleLayer, Steady
  <2>2. ASSUME NEW w \in AllWorkers, (Runs(w, "create") \/ Runs(w, "link"))'
        PROVE  cause'[faults'[Head(prog'[w]).fault].task] = 0
    <3>1. (Runs(w, "create") \/ Runs(w, "link")) /\ prog'[w] = prog[w]
      BY <1>2, <2>2
    <3>2. Head(prog[w]).fault \in DOMAIN faults
      BY <1>5, <1>6, <3>1, StepFields DEF StepsOf
    <3>. QED
      BY <3>1, <3>2 DEF Layered, Steady
  <2>. QED
    BY <2>1, <2>2 DEF Layered
<1>10. Once'
  <2>1. FaultOnce'
    BY <1>5 DEF Once, FaultOnce, Steady
  <2>2. \A t, kind, g : Queued(t, kind, g)' <=> Queued(t, kind, g)
    BY <1>5 DEF Queued, Steady
  <2>3. ASSUME NEW w \in AllWorkers, Runs(w, "insert")', Head(prog'[w]).kind \in RecoveryKind
        PROVE  ~Twice(w)'
    <3>1. Runs(w, "insert") /\ prog'[w] = prog[w]
      BY <1>2, <2>3
    <3>2. ~Twice(w)
      BY <2>3, <3>1 DEF Once
    <3>. QED
      BY <2>2, <3>1, <3>2 DEF Twice
  <2>. QED
    BY <2>1, <2>3 DEF Once
<1>11. Tables'
  <2>1. TypeOK'
    BY DEF Steady, Tables, TypeOK, LegalRows, AllWorkers, AllThreads, Renewed
  <2>2. \A t \in Task : row'[t] # NoRow \/ cause'[t] # 0 => t \in Born
    BY DEF Steady, Tables
  <2>3. \A t \in Work : state'[t] # "absent"
    BY RecoveryAssumption DEF Steady, Tables
  <2>. QED
    BY <1>4, <1>5, <2>1, <2>2, <2>3 DEF Steady, Tables
<1>. QED
  BY <1>7, <1>8, <1>9, <1>10, <1>11

\* The step is over, and others of its thread come next.
Moves(w) ==
    /\ prog[w] # <<>> /\ ~Runs(w, "link")
    /\ \E q \in Seq(Later(w, Born, {}, Len(faults))) : Calm(q) /\ Then(w, q)

LEMMA MovesProgram ==
    ASSUME Tables, Running, NEW w \in AllWorkers, prog[w] # <<>>, ~Runs(w, "link"),
           NEW q \in Seq(Later(w, Born, {}, Len(faults))), Then(w, q)
    PROVE  /\ DOMAIN prog' = AllWorkers /\ Renewed(w)
           /\ prog'[w] = q \o Tail(prog[w])
           /\ \A v \in AllWorkers : v # w => prog'[v] = prog[v]
<1>. DEFINE L == Later(w, Born, {}, Len(faults))
<1>1. /\ DOMAIN prog' = AllWorkers /\ prog'[w] = q \o Tail(prog[w])
      /\ \A v \in AllWorkers : v # w => prog'[v] = prog[v]
  BY DEF Then, Running
<1>2. Own(w) = {} /\ LaterOf(w) = L
  BY DEF Own, LaterOf
<1>3. prog[w] \in Programs(StepsOf(w), L)
  BY <1>2 DEF Running
<1>. HIDE DEF L
<1>4. q \in Programs(L, L)
  BY SeqIsProgram DEF L
<1>5. q \o Tail(prog[w]) \in Programs(L, L)
  BY <1>3, <1>4, ProgramGoesOn
<1>6. prog'[w] \in Seq(L)
  BY <1>1, <1>5 DEF Programs
<1>. QED
  BY <1>1, <1>6, OneRuns DEF L, Renewed

\* An ordinary step keeps what the queue and the recoveries rest on.
LEMMA OrdinaryStep ==
    ASSUME RecoveryInv, Steady, NEW w \in AllWorkers, Moves(w)
    PROVE  RecoveryInv'
<1>1. DOMAIN prog' = AllWorkers /\ \A v \in AllWorkers : prog'[v] = prog[v] \/ Renewed(v)
  BY MovesProgram DEF RecoveryInv, Moves
<1>. QED
  BY <1>1, Ordinary DEF RecoveryInv

\* What is told of the work of the beginning stays told.
LEMMA ToldStays ==
    ASSUME Tables, Steady, NEW t \in Work, Told(t)
    PROVE  Told(t)'
<1>1. t \in Task /\ DOMAIN faults' = DOMAIN faults
  BY RecoveryAssumption, LenProperties, FaultsDomain DEF Steady, Tables
<1>. QED
  BY <1>1 DEF Told, Steady, Settled

\* The programs of the pass that go on as they are or lose a step.
LEMMA LossGoesOn ==
    ASSUME Running, LossInv, \A t \in Work : Told(t) => Told(t)',
           \A w \in AllWorkers :
             \/ prog'[w] = prog[w]
             \/ prog'[w] = <<>>
             \/ /\ prog[w] # <<>>
                /\ \E S : \E q \in Seq(S) :
                     /\ prog[w] \in Seq(S) /\ Calm(q) /\ prog'[w] = q \o Tail(prog[w])
                     /\ \A t \in Work :
                          Tells(prog[w], t) => Told(t)' \/ (Len(q) = 1 /\ Tells(q, t))
    PROVE  LossInv'
<1>. SUFFICES ASSUME NEW w \in Keepers, NEW t \in Work,
                     NEW i \in 1..(Len(prog'[w]) - 1), FailsAt(prog'[w], i, t), ~Told(t)'
              PROVE  i = 2 /\ Tells(prog'[w], t)
  BY DEF LossInv
<1>1. w \in AllWorkers /\ ~Told(t)
  BY DEF Keepers, AllWorkers, AllThreads
<1>2. CASE prog'[w] = prog[w]
  BY <1>1, <1>2 DEF LossInv
<1>3. CASE prog'[w] = <<>>
  <2>1. Len(prog'[w]) = 0
    BY <1>3
  <2>. QED
    BY <2>1
<1>4. ASSUME prog[w] # <<>>, NEW S, NEW q \in Seq(S), prog[w] \in Seq(S), Calm(q),
             prog'[w] = q \o Tail(prog[w]),
             \A u \in Work :
               Tells(prog[w], u) => Told(u)' \/ (Len(q) = 1 /\ Tells(q, u))
      PROVE  i = 2 /\ Tells(prog'[w], t)
  <2>. DEFINE j == i - Len(q) + 1
  <2>1. i > Len(q) /\ j \in 2..(Len(prog[w]) - 1) /\ FailsAt(prog[w], j, t)
    BY <1>4, CalmGoesOn, FailsBehind
  <2>2. j \in 1..(Len(prog[w]) - 1)
    BY <1>4, <2>1, LenProperties
  <2>. HIDE DEF j
  <2>3. j = 2 /\ Tells(prog[w], t)
    BY <1>1, <2>1, <2>2 DEF LossInv
  <2>4. Len(q) = 1 /\ Tells(q, t)
    BY <1>4, <2>3
  <2>5. Head(prog'[w]) = Head(q)
    <3>1. Len(q) = 1 /\ q # <<>> /\ Len(prog[w]) \in Nat \ {0}
      <4>1. Len(q) = 1 /\ q # <<>>
        <5>1. Len(<<>>) = 0 /\ 0 # 1
          OBVIOUS
        <5>2. q = <<>> => Len(q) = Len(<<>>)
          OBVIOUS
        <5>. QED
          BY <2>4, <5>1, <5>2
      <4>2. Len(prog[w]) \in Nat \ {0}
        BY <1>4, EmptySeq, LenProperties
      <4>. QED
        BY <4>1, <4>2
    <3>2. /\ prog'[w] \in Seq(S) /\ Len(prog'[w]) = Len(q) + Len(prog[w]) - 1
          /\ \A k \in 1..Len(prog'[w]) :
               prog'[w][k] = IF k <= Len(q) THEN q[k] ELSE prog[w][k - Len(q) + 1]
      BY <1>4, Splice
    <3>3. prog'[w][1] = q[1] /\ prog'[w] # <<>>
      BY <3>1, <3>2, EmptySeq
    <3>. QED
      BY <3>1, <3>2, <3>3, HeadTailProperties
  <2>. QED
    BY <2>3, <2>4, <2>5 DEF j, Tells
<1>. QED
  BY <1>1, <1>2, <1>3, <1>4

LEMMA LossStep ==
    ASSUME RecoveryInv, LossInv, Steady, NEW w \in AllWorkers, Moves(w),
           ~Runs(w, "record"), ~Runs(w, "insert")
    PROVE  LossInv'
<1>. DEFINE L == Later(w, Born, {}, Len(faults))
<1>1. PICK q \in Seq(L) : Calm(q) /\ Then(w, q)
  BY DEF Moves
<1>2. /\ prog'[w] = q \o Tail(prog[w])
      /\ \A v \in AllWorkers : v # w => prog'[v] = prog[v]
  BY <1>1, MovesProgram DEF RecoveryInv, Moves
<1>3. prog[w] \in Seq(StepsOf(w)) /\ L \subseteq StepsOf(w)
  BY DEF RecoveryInv, Running, Programs, Moves, StepsOf, Steps, Own
<1>. HIDE DEF L
<1>4. q \in Seq(StepsOf(w))
  BY <1>3, SeqMonotonic
<1>5. prog[w] # <<>> /\ Head(prog[w]).op \notin {"record", "insert"}
  BY DEF Moves, Runs
<1>6. \A t \in Work : Told(t) => Told(t)'
  BY ToldStays DEF RecoveryInv
<1>7. \A v \in AllWorkers :
        \/ prog'[v] = prog[v]
        \/ /\ prog[v] # <<>>
           /\ \E S : \E p \in Seq(S) :
                /\ prog[v] \in Seq(S) /\ Calm(p) /\ prog'[v] = p \o Tail(prog[v])
                /\ Head(prog[v]).op \notin {"record", "insert"}
  BY <1>1, <1>2, <1>3, <1>4, <1>5
<1>. QED
  BY <1>6, <1>7, LossGoesOn DEF RecoveryInv, Tells

-----------------------------------------------------------------------------
(***************************************************************************)
(* The handlers, one after the other.                                      *)
(***************************************************************************)

\* Short programs.
NotFail(s) == ~(s.op = "feed" /\ s.kind = "fail")

LEMMA Short ==
    ASSUME NEW S, NEW a \in S, NEW b \in S, NEW c \in S
    PROVE  /\ <<>> \in Seq(S) /\ Calm(<<>>)
           /\ <<a>> \in Seq(S) /\ (NotFail(a) => Calm(<<a>>))
           /\ <<a, b>> \in Seq(S)
           /\ NotFail(b) /\ (NotFail(a) \/ b.op # "feed") => Calm(<<a, b>>)
           /\ <<a, b, c>> \in Seq(S)
           /\ /\ NotFail(c) /\ (NotFail(a) \/ b.op # "feed")
              /\ NotFail(b) \/ c.op # "feed"
              => Calm(<<a, b, c>>)
BY DEF Calm, NotFail

LEMMA Empty ==
    ASSUME NEW S
    PROVE  <<>> \in Seq(S) /\ Calm(<<>>)
BY DEF Calm

\* What a thread runs.
LEMMA Running1 ==
    ASSUME RecoveryInv, NEW w \in AllWorkers, prog[w] # <<>>
    PROVE  /\ Head(prog[w]) \in Steps(w, Born, Own(w), Len(faults))
           /\ Born \subseteq Task /\ Len(faults) \in Nat
           /\ phase = "boot" <=> w = "boot"
BY ProgramHead, FaultsDomain, OneRuns
   DEF RecoveryInv, Running, StepsOf, Born, Tables

\* A row is written.
LEMMA SteadyRow ==
    ASSUME Tables, NEW t \in Born, NEW r \in LegalRows, row[t] # NoRow => r # NoRow,
           row' = [row EXCEPT ![t] = r],
           UNCHANGED <<ledger, faults, phase, tracked, tab, said>>
    PROVE  Steady
<1>1. t \in Task /\ row' \in [Task -> LegalRows]
      /\ \A u \in Task : row'[u] = IF u = t THEN r ELSE row[u]
  BY DEF Tables, Born
<1>2. \A m \in Frame(Frames \cup Results) : row[m.task] # NoRow => row'[m.task] # NoRow
  BY <1>1 DEF Frame
<1>. QED
  BY <1>1, <1>2 DEF Tables, TypeOK, Steady, ledger

\* The rows, the faults and the states are left alone.
LEMMA SteadyRest ==
    ASSUME Tables, UNCHANGED <<ledger, row, faults, phase, said>>,
           tracked' \subseteq Task, tab' \in [Task -> {"none", "open", "detached", "gone"}]
    PROVE  Steady
BY DEF Tables, TypeOK, Steady, ledger

LEMMA SessionSteps ==
    ASSUME RecoveryInv, NEW w \in AllWorkers, SessionStep(w)
    PROVE  /\ Steady /\ Moves(w)
           /\ ~Runs(w, "record") /\ ~Runs(w, "insert") /\ ~Runs(w, "dead")
<1>. DEFINE s == Head(prog[w])
           t == s.task
           L == Later(w, Born, {}, Len(faults))
<1>1. /\ prog[w] # <<>>
      /\ s.op \in {"feed", "mirror", "report", "adopt_gone", "adopt_next", "rebind_next"}
  BY DEF SessionStep, DoFeed, DoMirror, DoReport, DoAdoptGone, DoAdoptNext,
         DoRebindNext, Runs
<1>2. s \in Steps(w, Born, Own(w), Len(faults)) /\ Tables
  BY <1>1, Running1 DEF RecoveryInv
<1>3. t \in Born /\ t \in Task /\ row[t] \in LegalRows
  BY <1>1, <1>2, StepFields DEF Tables, Born
<1>. HIDE DEF s, L
<1>4. CASE DoFeed(w)
  <2>1. s.kind \in FeedKind /\ Feed(t, "intent_receipt") \in L
    <3>1. "intent_receipt" \in FeedKind
      BY DEF FeedKind
    <3>. QED
      BY <1>2, <1>3, <1>4, <3>1, StepFields, LaterSteps DEF DoFeed, Runs, s, L
  <2>. DEFINE r == IF s.kind = "created" /\ row[t] # NoRow THEN row[t]
                   ELSE FedNext(row[t], s.kind)
  <2>2. r \in LegalRows /\ (row[t] # NoRow => r # NoRow)
    BY <1>3, <2>1, FedNextStays
  <2>3. /\ row' = [row EXCEPT ![t] = r]
        /\ UNCHANGED <<ledger, faults, phase, tracked, tab, said>>
        /\ \/ Then(w, <<>>) \/ Then(w, <<Feed(t, "intent_receipt")>>)
    BY <1>3, <1>4, Zenon DEF DoFeed, outside, When, s
  <2>. HIDE DEF r
  <2>4. Steady
    BY <1>2, <1>3, <2>2, <2>3, SteadyRow
  <2>5. NotFail(Feed(t, "intent_receipt"))
    BY DEF NotFail, Feed
  <2>6. Moves(w)
    <3>1. \E q \in Seq(L) : Calm(q) /\ Then(w, q)
      BY <2>1, <2>3, <2>5, Short, Empty
    <3>. QED
      BY <1>1, <3>1 DEF Moves, Runs, s, L
  <2>. QED
    BY <1>1, <2>4, <2>6 DEF Runs, s
<1>5. CASE DoMirror(w)
  <2>. DEFINE r == Fed(row[t], SettleEvent(row[t], s.outcome))
  <2>1. r \in LegalRows /\ (row[t] # NoRow => r # NoRow)
    BY <1>2, <1>3, <1>5, StepFields, FedSettle DEF DoMirror, Runs, s
  <2>2. /\ row' = [row EXCEPT ![t] = r] /\ Then(w, <<>>)
        /\ UNCHANGED <<ledger, faults, phase, tracked, tab, said>>
    BY <1>5 DEF DoMirror, outside, s
  <2>. HIDE DEF r
  <2>3. Steady
    BY <1>2, <1>3, <2>1, <2>2, SteadyRow
  <2>4. Moves(w)
    BY <1>1, <2>2, Empty DEF Moves, Runs, s
  <2>. QED
    BY <1>1, <2>3, <2>4 DEF Runs, s
<1>6. CASE DoReport(w)
  <2>. DEFINE f == s.frame
              r == Fed(row[t], PlainEvent(f.kind, [gen |-> f.gen, seq |-> f.seq]))
  <2>1. f \in Frame(ReportKind) /\ w = "pump"
    BY <1>2, <1>6, StepFields DEF DoReport, Runs, s
  <2>2. f.kind \in PlainKind /\ [gen |-> f.gen, seq |-> f.seq] \in Version
    BY <2>1 DEF Frame, ReportKind, PlainKind, Version
  <2>3. r \in LegalRows /\ (row[t] # NoRow => r # NoRow)
    BY <1>3, <2>2, FedPlain
  <2>4. Record(t, "agent_reported") \in L
    BY <1>3, <2>1, LaterSteps DEF KindsOf, L
  <2>5. /\ row' = [row EXCEPT ![t] = r]
        /\ UNCHANGED <<ledger, faults, phase, tracked, tab, said>>
        /\ \/ Then(w, <<>>) \/ Then(w, <<Record(t, "agent_reported")>>)
    BY <1>6, Zenon DEF DoReport, outside, When, s
  <2>. HIDE DEF r, f
  <2>6. Steady
    BY <1>2, <1>3, <2>3, <2>5, SteadyRow
  <2>7. NotFail(Record(t, "agent_reported"))
    BY DEF NotFail, Record
  <2>8. Moves(w)
    <3>1. \E q \in Seq(L) : Calm(q) /\ Then(w, q)
      BY <2>4, <2>5, <2>7, Short, Empty
    <3>. QED
      BY <1>1, <3>1 DEF Moves, Runs, s, L
  <2>. QED
    BY <1>1, <2>6, <2>8 DEF Runs, s
<1>7. CASE DoAdoptGone(w)
  <2>. DEFINE r == FedNext(row[t], "agent_gone")
  <2>1. s.obs \in Observation
    BY <1>2, <1>7, StepFields DEF DoAdoptGone, Runs, s
  <2>2. AdoptNext(t, s.obs) \in L
    BY <1>3, <2>1, LaterSteps DEF L
  <2>3. r \in LegalRows /\ (row[t] # NoRow => r # NoRow)
    <3>1. "agent_gone" \in FeedKind
      BY DEF FeedKind
    <3>. QED
      BY <1>3, <3>1, FedNextStays
  <2>4. /\ row' = [row EXCEPT ![t] = r]
        /\ UNCHANGED <<ledger, faults, phase, tracked, tab, said>>
        /\ \/ Then(w, <<>>) \/ Then(w, <<AdoptNext(t, s.obs)>>)
    BY <1>7, Zenon DEF DoAdoptGone, outside, When, s
  <2>. HIDE DEF r
  <2>5. Steady
    BY <1>2, <1>3, <2>3, <2>4, SteadyRow
  <2>6. NotFail(AdoptNext(t, s.obs))
    BY DEF NotFail, AdoptNext
  <2>7. Moves(w)
    <3>1. \E q \in Seq(L) : Calm(q) /\ Then(w, q)
      BY <2>2, <2>4, <2>6, Short, Empty
    <3>. QED
      BY <1>1, <3>1 DEF Moves, Runs, s, L
  <2>. QED
    BY <1>1, <2>5, <2>7 DEF Runs, s
<1>8. CASE DoAdoptNext(w) \/ DoRebindNext(w)
  <2>1. s.obs \in Observation
    BY <1>2, <1>8, StepFields DEF DoAdoptNext, DoRebindNext, Runs, s
  <2>2. PICK r \in {Fed(row[t], AdoptEvent(s.obs)), Fed(row[t], RebindEvent(s.obs))} :
          row' = [row EXCEPT ![t] = r]
    BY <1>8 DEF DoAdoptNext, DoRebindNext, s
  <2>3. r \in LegalRows /\ (row[t] # NoRow => r # NoRow)
    BY <1>3, <2>1, FedMoves
  <2>4. Then(w, <<>>) /\ UNCHANGED <<ledger, faults, phase, tracked, tab, said>>
    BY <1>8 DEF DoAdoptNext, DoRebindNext, outside
  <2>5. Steady
    BY <1>2, <1>3, <2>2, <2>3, <2>4, SteadyRow
  <2>6. Moves(w)
    BY <1>1, <2>4, Empty DEF Moves, Runs, s
  <2>. QED
    BY <1>1, <2>5, <2>6 DEF Runs, s
<1>. QED
  BY <1>4, <1>5, <1>6, <1>7, <1>8 DEF SessionStep

\* The tables are only read.
LEMMA SteadySame ==
    ASSUME Tables, UNCHANGED <<ledger, row, faults, phase, tracked, outside>>
    PROVE  Steady
BY SteadyRest DEF Tables, TypeOK, outside

\* Calm steps after calm steps.
LEMMA CalmConcat ==
    ASSUME NEW S, NEW q \in Seq(S), NEW r \in Seq(S), Calm(q), Calm(r)
    PROVE  q \o r \in Seq(S) /\ Calm(q \o r)
<1>1. /\ q \o r \in Seq(S) /\ Len(q \o r) = Len(q) + Len(r)
      /\ \A i \in 1..Len(q) + Len(r) :
           (q \o r)[i] = IF i <= Len(q) THEN q[i] ELSE r[i - Len(q)]
  BY ConcatProperties
<1>2. /\ Len(q) \in Nat /\ Len(r) \in Nat /\ DOMAIN q = 1..Len(q) /\ DOMAIN r = 1..Len(r)
      /\ DOMAIN (q \o r) = 1..(Len(q) + Len(r))
  BY <1>1, LenProperties
<1>. DEFINE p == q \o r
<1>3. ASSUME NEW i \in DOMAIN p, p[i].op = "feed" /\ p[i].kind = "fail"
      PROVE  i + 1 \in DOMAIN p /\ p[i + 1].op # "feed"
  <2>1. CASE i <= Len(q)
    <3>1. p[i] = q[i] /\ i \in DOMAIN q
      BY <1>1, <1>2, <2>1
    <3>2. i + 1 \in DOMAIN q /\ q[i + 1].op # "feed"
      BY <1>3, <3>1 DEF Calm
    <3>3. p[i + 1] = q[i + 1]
      BY <1>1, <1>2, <3>2
    <3>. QED
      BY <1>2, <3>2, <3>3
  <2>2. CASE i > Len(q)
    <3>. DEFINE k == i - Len(q)
    <3>1. p[i] = r[k] /\ k \in DOMAIN r
      BY <1>1, <1>2, <2>2
    <3>2. k + 1 \in DOMAIN r /\ r[k + 1].op # "feed"
      BY <1>3, <3>1 DEF Calm
    <3>3. p[i + 1] = r[k + 1] /\ i + 1 \in DOMAIN p
      BY <1>1, <1>2, <2>2, <3>2
    <3>. QED
      BY <3>2, <3>3
  <2>. QED
    BY <1>2, <2>1, <2>2
<1>. QED
  BY <1>1, <1>3 DEF Calm

\* The tasks of a set, each once, in an order of its own.
LEMMA InAnyOrder ==
    ASSUME NEW S, S \subseteq Task, NEW order \in SetToSeqs(S)
    PROVE  order \in Seq(S) /\ Len(order) \in Nat /\ DOMAIN order = 1..Len(order)
<1>1. IsFiniteSet(S)
  BY FS_Subset, RecoveryAssumption
<1>2. Cardinality(S) \in Nat
  BY <1>1, FS_CardinalityType
<1>3. order \in [1..Cardinality(S) -> S]
  BY DEF SetToSeqs
<1>4. order \in Seq(S)
  BY <1>2, <1>3, SeqDef
<1>. QED
  BY <1>4, LenProperties

LEMMA VisitsEach ==
    ASSUME NEW S, S \subseteq Task, NEW order \in SetToSeqs(S), NEW L, NEW v,
           DOMAIN v = S, \A t \in S : v[t] \in L /\ NotFail(v[t])
    PROVE  LET q == [i \in DOMAIN order |-> v[order[i]]] IN q \in Seq(L) /\ Calm(q)
<1>. DEFINE q == [i \in DOMAIN order |-> v[order[i]]]
<1>1. order \in Seq(S) /\ Len(order) \in Nat /\ DOMAIN order = 1..Len(order)
  BY InAnyOrder
<1>2. \A i \in DOMAIN order : order[i] \in S
  BY <1>1, ElementOfSeq
<1>3. q \in [1..Len(order) -> L]
  BY <1>1, <1>2
<1>4. q \in Seq(L)
  BY <1>1, <1>3, SeqDef
<1>5. Calm(q)
  BY <1>2 DEF Calm, NotFail
<1>. QED
  BY <1>4, <1>5

LEMMA PassSteps ==
    ASSUME RecoveryInv, NEW w \in AllWorkers,
           (PassStep(w) /\ ~Runs(w, "dead")) \/ ProbeAnswers(w) \/ ProbeUnknown(w)
    PROVE  /\ Steady /\ Moves(w)
           /\ ~Runs(w, "record") /\ ~Runs(w, "insert") /\ ~Runs(w, "dead")
<1>. DEFINE s == Head(prog[w])
            t == s.task
            L == Later(w, Born, {}, Len(faults))
<1>1. prog[w] # <<>> /\ s.op \in {"list", "look", "reread", "probe", "mismatch"}
  BY DEF PassStep, DoList, DoLook, DoReread, DoDead, DoMismatch, ProbeAnswers,
         ProbeUnknown, Runs
<1>2. /\ s \in Steps(w, Born, Own(w), Len(faults)) /\ Tables
      /\ Born \subseteq Task
  BY <1>1, Running1 DEF RecoveryInv
<1>3. w \in Keepers /\ KindsOf(w) = {"probe_dead", "mismatch_terminate"}
  BY <1>1, <1>2, StepFields DEF Keepers, KindsOf
<1>4. s.op # "list" => t \in Born /\ t \in Task /\ row[t] \in LegalRows
  BY <1>1, <1>2, StepFields DEF Tables
<1>5. \A u \in Born : row[u] # NoRow => row[u] \in Observation
  BY <1>2 DEF Tables, LegalRows, Row
<1>. HIDE DEF s, L
<1>6. CASE DoList(w)
  <2>. DEFINE O == {u \in Task : row[u] # NoRow /\ row[u].public # "exited"}
              v == [u \in O |-> Look(u, row[u])]
  <2>1. O \subseteq Born /\ O \subseteq Task
    BY <1>2 DEF Tables
  <2>2. PICK order \in SetToSeqs(O) : Then(w, [i \in DOMAIN order |-> Look(order[i], row[order[i]])])
    BY <1>6 DEF DoList, ThenEach
  <2>3. \A u \in O : v[u] \in L /\ NotFail(v[u])
    <3>. SUFFICES ASSUME NEW u \in O PROVE Look(u, row[u]) \in L /\ NotFail(Look(u, row[u]))
      OBVIOUS
    <3>1. Look(u, row[u]) \in L
      BY <1>3, <1>5, <2>1, LaterStepsOf DEF L
    <3>. QED
      BY <3>1 DEF NotFail, Look
  <2>. HIDE DEF O
  <2>4. \A i \in DOMAIN order : order[i] \in O
    BY <2>1, InAnyOrder, ElementOfSeq
  <2>5. [i \in DOMAIN order |-> Look(order[i], row[order[i]])]
          = [i \in DOMAIN order |-> v[order[i]]]
    BY <2>4
  <2>6. [i \in DOMAIN order |-> v[order[i]]] \in Seq(L)
        /\ Calm([i \in DOMAIN order |-> v[order[i]]])
    BY <2>1, <2>3, VisitsEach
  <2>7. Moves(w)
    BY <1>1, <1>6, <2>2, <2>5, <2>6 DEF Moves, Runs, s, L, DoList
  <2>8. Steady
    BY <1>2, <1>6, SteadySame DEF DoList
  <2>. QED
    BY <1>6, <2>7, <2>8 DEF Runs, DoList
<1>7. CASE DoLook(w)
  <2>1. Steady
    BY <1>2, <1>7, SteadySame DEF DoLook
  <2>2. s.obs \in Observation /\ s.op = "look"
    BY <1>2, <1>7, StepFields DEF DoLook, Runs, s
  <2>3. OutcomeOf(state[t]) \in Outcome
    BY <1>4, <2>2 DEF Tables, TypeOK, OutcomeOf, Outcome, Owed, Settled
  <2>4. /\ Mirror(t, OutcomeOf(state[t])) \in L /\ Reread(t) \in L
        /\ Probe(t, s.obs) \in L
    BY <1>3, <1>4, <2>2, <2>3, LaterSteps, LaterStepsOf DEF L
  <2>5. NotFail(Mirror(t, OutcomeOf(state[t]))) /\ NotFail(Reread(t)) /\ NotFail(Probe(t, s.obs))
    BY DEF NotFail, Mirror, Reread, Probe
  <2>6. \/ Then(w, <<Mirror(t, OutcomeOf(state[t])), Reread(t)>>)
        \/ Then(w, <<Probe(t, s.obs)>>)
    BY <1>7, Zenon DEF DoLook, s
  <2>7. Moves(w)
    <3>1. \E q \in Seq(L) : Calm(q) /\ Then(w, q)
      BY <2>4, <2>5, <2>6, Short
    <3>. QED
      BY <1>1, <3>1 DEF Moves, Runs, s, L
  <2>. QED
    BY <1>1, <2>1, <2>2, <2>7 DEF Runs, s
<1>8. CASE DoReread(w)
  <2>1. Steady
    BY <1>2, <1>8, SteadySame DEF DoReread
  <2>2. s.op = "reread"
    BY <1>8 DEF DoReread, Runs, s
  <2>3. Then(w, <<>>) \/ Then(w, <<Probe(t, Stored(row[t]))>>)
    BY <1>8, Zenon DEF DoReread, s, When
  <2>4. Stored(row[t]) \in Observation
    BY <1>4, <2>2, StoredLegal DEF LegalRows
  <2>5. Probe(t, Stored(row[t])) \in L /\ NotFail(Probe(t, Stored(row[t])))
    BY <1>3, <1>4, <2>2, <2>4, LaterStepsOf DEF L, NotFail, Probe
  <2>6. /\ <<Probe(t, Stored(row[t]))>> \in Seq(L) /\ <<>> \in Seq(L)
        /\ Calm(<<Probe(t, Stored(row[t]))>>) /\ Calm(<<>>)
    BY <2>5, Short, Empty
  <2>7. \E q \in Seq(L) : Calm(q) /\ Then(w, q)
    BY <2>3, <2>6
  <2>8. Moves(w)
    BY <1>1, <2>7 DEF Moves, Runs, s, L
  <2>. QED
    BY <1>1, <2>1, <2>2, <2>8 DEF Runs, s
<1>9. CASE ProbeAnswers(w)
  <2>1. Steady
    BY <1>2, <1>9, SteadySame DEF ProbeAnswers
  <2>2. s.obs \in Observation /\ s.op = "probe"
    BY <1>2, <1>9, StepFields DEF ProbeAnswers, Runs, s
  <2>. DEFINE o == s.obs
              a == When(o.resource = "detached", <<Feed(t, "resource_attach")>>)
              b == When(o.mismatch > 0 \/ o.recovery # "none", <<Feed(t, "reconcile_ok")>>)
  <2>3. \E q \in {<<Dead(t, o)>>, <<Mismatch(t, o)>>, a \o b} : Then(w, q)
    BY <1>9, Zenon DEF ProbeAnswers, Judged, s
  <2>4. /\ Dead(t, o) \in L /\ Mismatch(t, o) \in L
        /\ NotFail(Dead(t, o)) /\ NotFail(Mismatch(t, o))
    BY <1>3, <1>4, <2>2, LaterStepsOf DEF L, NotFail, Dead, Mismatch
  <2>5. \A kind \in {"resource_attach", "reconcile_ok"} :
          Feed(t, kind) \in L /\ NotFail(Feed(t, kind))
    BY <1>4, <2>2, LaterSteps DEF L, NotFail, Feed, FeedKind
  <2>6. a \in Seq(L) /\ b \in Seq(L) /\ Calm(a) /\ Calm(b)
    BY <2>5, Short, Empty DEF When
  <2>7. a \o b \in Seq(L) /\ Calm(a \o b)
    BY <2>6, CalmConcat
  <2>. HIDE DEF a, b
  <2>8. Moves(w)
    <3>1. \E q \in Seq(L) : Calm(q) /\ Then(w, q)
      BY <2>3, <2>4, <2>7, Short
    <3>. QED
      BY <1>1, <3>1 DEF Moves, Runs, s, L
  <2>. QED
    BY <1>1, <2>1, <2>2, <2>8 DEF Runs, s
<1>10. CASE ProbeUnknown(w)
  <2>1. Steady
    BY <1>2, <1>10, SteadySame DEF ProbeUnknown
  <2>2. Moves(w) /\ s.op = "probe"
    BY <1>1, <1>10, Empty DEF ProbeUnknown, Moves, Runs, s
  <2>. QED
    BY <1>1, <2>1, <2>2 DEF Runs, s
<1>11. CASE DoMismatch(w)
  <2>1. s.op = "mismatch"
    BY <1>11 DEF DoMismatch, Runs, s
  <2>2. Record(t, "mismatch_terminate") \in L /\ NotFail(Record(t, "mismatch_terminate"))
    BY <1>3, <1>4, <2>1, LaterSteps DEF L, NotFail, Record
  <2>. DEFINE r == FedNext(row[t], "reconcile_mismatch")
  <2>3. r \in LegalRows /\ (row[t] # NoRow => r # NoRow)
    <3>1. "reconcile_mismatch" \in FeedKind
      BY DEF FeedKind
    <3>. QED
      BY <1>4, <2>1, <3>1, FedNextStays
  <2>4. /\ row' = [row EXCEPT ![t] = r]
        /\ UNCHANGED <<ledger, faults, phase, tracked, tab, said>>
        /\ Then(w, <<>>) \/ Then(w, <<Record(t, "mismatch_terminate")>>)
    BY <1>11, Zenon DEF DoMismatch, outside, When, s
  <2>. HIDE DEF r
  <2>5. Steady
    BY <1>2, <1>4, <2>1, <2>3, <2>4, SteadyRow
  <2>6. Moves(w)
    <3>1. \E q \in Seq(L) : Calm(q) /\ Then(w, q)
      BY <2>2, <2>4, Short, Empty
    <3>. QED
      BY <1>1, <3>1 DEF Moves, Runs, s, L
  <2>. QED
    BY <1>1, <2>1, <2>5, <2>6 DEF Runs, s
<1>. QED
  BY <1>6, <1>7, <1>8, <1>9, <1>10, <1>11 DEF PassStep, DoDead

\* The state of a task is written.
LEMMA SteadyState ==
    ASSUME Tables, NEW t \in Born, NEW s \in Settled \cup {"running"},
           t \in Work => s \in Settled, state' = [state EXCEPT ![t] = s],
           UNCHANGED <<cause, row, faults, phase, tracked, outside>>
    PROVE  Steady
<1>1. /\ state' \in [Task -> {"absent"} \cup Owed \cup Settled]
      /\ \A u \in Task : state'[u] = IF u = t THEN s ELSE state[u]
  BY DEF Tables, TypeOK, Born, Owed
<1>2. s # "absent"
  BY DEF Settled
<1>. QED
  BY <1>1, <1>2 DEF Tables, TypeOK, Steady, outside

\* What the end of a task asks for.
LEMMA EndSteps ==
    ASSUME NEW w, NEW B, NEW O, NEW n, NEW t \in B
    PROVE  LET L == Later(w, B, O, n) IN
           /\ <<SetState(t, "failed"), Feed(t, "fail"), CloseTab(t)>> \in Seq(L)
           /\ Calm(<<SetState(t, "failed"), Feed(t, "fail"), CloseTab(t)>>)
           /\ <<SetState(t, "done"), Feed(t, "complete"), Mirror(t, "done"),
                CloseTab(t), SetState(t, "closed")>> \in Seq(L)
           /\ Calm(<<SetState(t, "done"), Feed(t, "complete"), Mirror(t, "done"),
                     CloseTab(t), SetState(t, "closed")>>)
           /\ <<CloseTab(t)>> \in Seq(L) /\ Calm(<<CloseTab(t)>>)
           /\ <<SetState(t, "failed")>> \in Seq(L) /\ Calm(<<SetState(t, "failed")>>)
           /\ <<EarlyExit(t)>> \in Seq(L) /\ Calm(<<EarlyExit(t)>>)
<1>. DEFINE L == Later(w, B, O, n)
<1>1. \A s \in {"failed", "done", "closed"} :
        SetState(t, s) \in L /\ NotFail(SetState(t, s))
  BY LaterSteps DEF NotFail, SetState, Settled
<1>2. \A kind \in {"fail", "complete"} : Feed(t, kind) \in L
  BY LaterSteps DEF FeedKind
<1>3. Mirror(t, "done") \in L /\ NotFail(Mirror(t, "done"))
  BY LaterSteps DEF NotFail, Mirror, Outcome
<1>4. /\ CloseTab(t) \in L /\ NotFail(CloseTab(t))
      /\ EarlyExit(t) \in L /\ NotFail(EarlyExit(t))
  BY LaterSteps DEF NotFail, CloseTab, EarlyExit
<1>. HIDE DEF L
<1>5. NotFail(Feed(t, "complete")) /\ CloseTab(t).op # "feed"
  BY DEF NotFail, Feed, CloseTab
<1>6. \A a, b, c, d, e \in L :
        NotFail(a) /\ NotFail(b) /\ NotFail(c) /\ NotFail(d) /\ NotFail(e)
          => <<a, b, c, d, e>> \in Seq(L) /\ Calm(<<a, b, c, d, e>>)
  BY DEF Calm, NotFail
<1>7. /\ <<SetState(t, "failed"), Feed(t, "fail"), CloseTab(t)>> \in Seq(L)
      /\ Calm(<<SetState(t, "failed"), Feed(t, "fail"), CloseTab(t)>>)
  BY <1>1, <1>2, <1>4, <1>5, Short
<1>8. /\ <<SetState(t, "done"), Feed(t, "complete"), Mirror(t, "done"),
           CloseTab(t), SetState(t, "closed")>> \in Seq(L)
      /\ Calm(<<SetState(t, "done"), Feed(t, "complete"), Mirror(t, "done"),
                CloseTab(t), SetState(t, "closed")>>)
  BY <1>1, <1>2, <1>3, <1>4, <1>5, <1>6
<1>9. /\ <<CloseTab(t)>> \in Seq(L) /\ Calm(<<CloseTab(t)>>)
      /\ <<SetState(t, "failed")>> \in Seq(L) /\ Calm(<<SetState(t, "failed")>>)
      /\ <<EarlyExit(t)>> \in Seq(L) /\ Calm(<<EarlyExit(t)>>)
  BY <1>1, <1>4, Short
<1>. QED
  BY <1>7, <1>8, <1>9 DEF L

LEMMA TaskSteps ==
    ASSUME RecoveryInv, NEW w \in AllWorkers, TaskStep(w)
    PROVE  /\ Steady /\ Moves(w)
           /\ ~Runs(w, "record") /\ ~Runs(w, "insert") /\ ~Runs(w, "dead")
<1>. DEFINE s == Head(prog[w])
            t == s.task
            L == Later(w, Born, {}, Len(faults))
<1>1. /\ prog[w] # <<>>
      /\ s.op \in {"spawn", "set_state", "early_exit", "recycled", "close_tab", "out",
                   "reap", "reap_one", "sweep", "sweep_one"}
  BY DEF TaskStep, DoSpawn, DoSetState, DoEarlyExit, DoRecycled, DoCloseTab, DoOut,
         DoReap, DoReapOne, DoSweep, DoSweepOne, Runs
<1>2. /\ s \in Steps(w, Born, Own(w), Len(faults)) /\ Tables
      /\ Born \subseteq Task
  BY <1>1, Running1 DEF RecoveryInv
<1>3. Own(w) = {}
  BY <1>1 DEF Own, Runs
<1>4. s.op \notin {"reap", "sweep"} => t \in Born /\ t \in Task
  BY <1>1, <1>2, <1>3, StepFields
<1>. HIDE DEF s, L
<1>5. SUFFICES Steady /\ \E q \in Seq(L) : Calm(q) /\ Then(w, q)
  BY <1>1 DEF Moves, Runs, s, L
<1>6. CASE DoSpawn(w)
  <2>1. s.op = "spawn" /\ t \in Born \ Work
    BY <1>2, <1>3, <1>6, StepFields DEF DoSpawn, Runs, s
  <2>2. Steady
    BY <1>2, <1>4, <1>6, <2>1, SteadyRest DEF DoSpawn, s, Tables, TypeOK
  <2>3. /\ Feed(t, "created") \in L /\ Feed(t, "resource_attach") \in L
        /\ SetState(t, "running") \in L
    <3>1. "created" \in FeedKind /\ "resource_attach" \in FeedKind
      BY DEF FeedKind
    <3>. QED
      BY <2>1, <3>1, LaterSteps DEF L
  <2>4. /\ NotFail(Feed(t, "created")) /\ NotFail(Feed(t, "resource_attach"))
        /\ NotFail(SetState(t, "running"))
    BY DEF NotFail, Feed, SetState
  <2>5. \/ Then(w, <<>>)
        \/ Then(w, <<Feed(t, "created"), Feed(t, "resource_attach"),
                     SetState(t, "running")>>)
    BY <1>6, Zenon DEF DoSpawn, s
  <2>. QED
    BY <2>2, <2>3, <2>4, <2>5, Short, Empty
<1>7. CASE DoSetState(w)
  <2>1. s.op = "set_state"
    BY <1>7 DEF DoSetState, Runs, s
  <2>2. t \in Born /\ s.state \in Settled \cup {"running"} /\ (t \in Work => s.state \in Settled)
    BY <1>2, <1>4, <2>1, StepFields
  <2>3. Steady
    BY <1>2, <1>7, <2>2, SteadyState DEF DoSetState, s
  <2>. QED
    BY <1>7, <2>3, Empty DEF DoSetState
<1>8. CASE DoEarlyExit(w)
  <2>1. s.op = "early_exit"
    BY <1>8 DEF DoEarlyExit, Runs, s
  <2>2. \/ Then(w, <<>>)
        \/ Then(w, <<SetState(t, "failed"), Feed(t, "fail"), CloseTab(t)>>)
    BY <1>8, Zenon DEF DoEarlyExit, When, s
  <2>3. Steady
    BY <1>2, <1>8, SteadySame DEF DoEarlyExit
  <2>. QED
    BY <1>4, <2>1, <2>2, <2>3, EndSteps, Empty DEF L
<1>9. CASE DoRecycled(w)
  <2>1. s.op = "recycled"
    BY <1>9 DEF DoRecycled, Runs, s
  <2>2. PICK q \in {<<>>, <<SetState(t, "failed")>>} : Then(w, q \o <<CloseTab(t)>>)
    BY <1>9, Zenon DEF DoRecycled, When, s
  <2>3. q \in Seq(L) /\ Calm(q) /\ <<CloseTab(t)>> \in Seq(L) /\ Calm(<<CloseTab(t)>>)
    BY <1>4, <2>1, EndSteps, Empty DEF L
  <2>4. Steady
    BY <1>2, <1>9, SteadySame DEF DoRecycled
  <2>. QED
    BY <2>2, <2>3, <2>4, CalmConcat
<1>10. CASE DoCloseTab(w)
  <2>1. tracked' \subseteq Task /\ tab' \in [Task -> {"none", "open", "detached", "gone"}]
    BY <1>2, <1>10 DEF DoCloseTab, Tables, TypeOK
  <2>2. Steady
    BY <1>2, <1>10, <2>1, SteadyRest DEF DoCloseTab
  <2>. QED
    BY <1>10, <2>2, Empty DEF DoCloseTab
<1>11. CASE DoOut(w)
  <2>1. s.op = "out"
    BY <1>11 DEF DoOut, Runs, s
  <2>2. \/ Then(w, <<>>)
        \/ Then(w, <<SetState(t, "done"), Feed(t, "complete"), Mirror(t, "done"),
                     CloseTab(t), SetState(t, "closed")>>)
        \/ Then(w, <<SetState(t, "failed"), Feed(t, "fail"), CloseTab(t)>>)
    BY <1>11, Zenon DEF DoOut, When, s
  <2>3. Steady
    BY <1>2, <1>11, SteadySame DEF DoOut
  <2>. QED
    BY <1>4, <2>1, <2>2, <2>3, EndSteps, Empty DEF L
<1>12. CASE DoReap(w)
  <2>. DEFINE O == {u \in Task : state[u] \in Owed}
              v == [u \in O |-> ReapOne(u)]
  <2>1. w = "boot" /\ phase = "boot"
    BY <1>1, <1>2, <1>12, StepFields, OneRuns DEF DoReap, Runs, s, RecoveryInv
  <2>2. \A x \in AllWorkers : Own(x) = {}
    <3>1. \A x \in AllWorkers : x # "boot" => prog[x] = <<>>
      BY <1>2, <2>1 DEF AllWorkers, Tables, TypeOK
    <3>. QED
      BY <1>3, <2>1, <3>1 DEF Own, Runs
  <2>3. O \subseteq Born /\ O \subseteq Task
    BY <2>2 DEF Born, Owed
  <2>4. PICK order \in SetToSeqs(O) : Then(w, [i \in DOMAIN order |-> ReapOne(order[i])])
    BY <1>12 DEF DoReap, ThenEach
  <2>5. \A u \in O : v[u] \in L /\ NotFail(v[u])
    BY <2>3, LaterSteps DEF L, NotFail, ReapOne
  <2>. HIDE DEF O
  <2>6. \A i \in DOMAIN order : order[i] \in O
    BY <2>3, InAnyOrder, ElementOfSeq
  <2>7. [i \in DOMAIN order |-> ReapOne(order[i])] = [i \in DOMAIN order |-> v[order[i]]]
    BY <2>6
  <2>8. [i \in DOMAIN order |-> v[order[i]]] \in Seq(L)
        /\ Calm([i \in DOMAIN order |-> v[order[i]]])
    BY <2>3, <2>5, VisitsEach
  <2>9. Steady
    BY <1>2, <1>12, SteadySame DEF DoReap
  <2>. QED
    BY <2>4, <2>7, <2>8, <2>9
<1>13. CASE DoReapOne(w)
  <2>1. s.op = "reap_one"
    BY <1>13 DEF DoReapOne, Runs, s
  <2>2. Then(w, <<>>) \/ Then(w, <<EarlyExit(t)>>)
    BY <1>13 DEF DoReapOne, s
  <2>3. tracked' \subseteq Task /\ UNCHANGED <<ledger, row, faults, phase, outside>>
    BY <1>2, <1>4, <1>13, <2>1 DEF DoReapOne, Tables, TypeOK, s
  <2>4. tab' \in [Task -> {"none", "open", "detached", "gone"}] /\ said' = said
    BY <1>2, <2>3 DEF outside, Tables, TypeOK
  <2>5. Steady
    BY <1>2, <2>3, <2>4, SteadyRest
  <2>. QED
    BY <1>4, <2>1, <2>2, <2>5, EndSteps, Empty DEF L
<1>14. CASE DoSweep(w)
  <2>1. PICK O \in SUBSET {u \in tracked : state[u] = "running" /\ Bound(u)} :
          \E order \in SetToSeqs(O) : Then(w, [i \in DOMAIN order |-> SweepOne(order[i])])
    BY <1>14 DEF DoSweep, ThenEach
  <2>2. PICK order \in SetToSeqs(O) : Then(w, [i \in DOMAIN order |-> SweepOne(order[i])])
    BY <2>1
  <2>. DEFINE v == [u \in O |-> SweepOne(u)]
  <2>3. O \subseteq Born /\ O \subseteq Task
    <3>1. \A u \in O : u \in Task /\ state[u] = "running"
      BY <1>2 DEF Tables, TypeOK
    <3>. QED
      BY <3>1 DEF Born, RecoveryInv, Newborn
  <2>4. \A u \in O : v[u] \in L /\ NotFail(v[u])
    BY <2>3, LaterSteps DEF L, NotFail, SweepOne
  <2>5. \A i \in DOMAIN order : order[i] \in O
    BY <2>3, InAnyOrder, ElementOfSeq
  <2>6. [i \in DOMAIN order |-> SweepOne(order[i])] = [i \in DOMAIN order |-> v[order[i]]]
    BY <2>5
  <2>7. [i \in DOMAIN order |-> v[order[i]]] \in Seq(L)
        /\ Calm([i \in DOMAIN order |-> v[order[i]]])
    BY <2>3, <2>4, VisitsEach
  <2>8. Steady
    BY <1>2, <1>14, SteadySame DEF DoSweep
  <2>. QED
    BY <2>2, <2>6, <2>7, <2>8
<1>15. CASE DoSweepOne(w)
  <2>1. s.op = "sweep_one"
    BY <1>15 DEF DoSweepOne, Runs, s
  <2>2. Then(w, <<>>) \/ Then(w, <<EarlyExit(t)>>)
    BY <1>15 DEF DoSweepOne, s
  <2>3. Steady
    BY <1>2, <1>15, SteadySame DEF DoSweepOne
  <2>. QED
    BY <1>4, <2>1, <2>2, <2>3, EndSteps, Empty DEF L
<1>. QED
  BY <1>6, <1>7, <1>8, <1>9, <1>10, <1>11, <1>12, <1>13, <1>14, <1>15 DEF TaskStep

LEMMA RepairSteps ==
    ASSUME RecoveryInv, NEW w \in AllWorkers, RepairStep(w)
    PROVE  /\ Steady /\ Moves(w)
           /\ ~Runs(w, "record") /\ ~Runs(w, "insert") /\ ~Runs(w, "dead")
<1>. DEFINE s == Head(prog[w])
            t == s.task
            L == Later(w, Born, {}, Len(faults))
<1>1. prog[w] # <<>> /\ s.op \in {"repair", "adopt", "rebind"}
  BY DEF RepairStep, RepairRetry, RepairFail, RepairClose, RepairAck, RepairMove,
         DoAdopt, DoRebind, Asked, Runs
<1>2. /\ s \in Steps(w, Born, Own(w), Len(faults)) /\ Tables
      /\ Born \subseteq Task
  BY <1>1, Running1 DEF RecoveryInv
<1>3. /\ s.op = "repair" => w = "conn" /\ t \in Task /\ (row[t] # NoRow => t \in Born)
      /\ s.op \in {"adopt", "rebind"} => t \in Born /\ t \in Task /\ s.obs \in Observation
  BY <1>1, <1>2, StepFields DEF Tables
<1>4. \A u \in Task : row[u] # NoRow => u \in Born /\ row[u] \in Observation
  BY <1>2 DEF Tables, LegalRows, Row
<1>. HIDE DEF s, L
<1>5. SUFFICES Steady /\ \E q \in Seq(L) : Calm(q) /\ Then(w, q)
  BY <1>1 DEF Moves, Runs, s, L
<1>6. CASE RepairRetry(w)
  <2>1. Steady
    BY <1>2, <1>6, SteadySame DEF RepairRetry
  <2>2. \/ Then(w, <<>>)
        \/ \E f \in Unacked(t) :
             \/ Then(w, <<Recover(f, TRUE)>>)
             \/ faults[f].recovery # NoTask /\ Then(w, <<Spawn(faults[f].recovery)>>)
    BY <1>6, Zenon DEF RepairRetry, s
  <2>3. \A f \in Unacked(t) : f \in DOMAIN faults /\ f \in 1..Len(faults)
    BY <1>2, FaultsDomain DEF Unacked, Tables
  <2>4. \A f \in Unacked(t) : Recover(f, TRUE) \in L /\ NotFail(Recover(f, TRUE))
    BY <2>3, LaterSteps DEF L, NotFail, Recover
  <2>5. \A f \in Unacked(t) :
          faults[f].recovery # NoTask =>
            Spawn(faults[f].recovery) \in L /\ NotFail(Spawn(faults[f].recovery))
    <3>. SUFFICES ASSUME NEW f \in Unacked(t), faults[f].recovery # NoTask
                  PROVE  Spawn(faults[f].recovery) \in L /\ NotFail(Spawn(faults[f].recovery))
      OBVIOUS
    <3>1. faults[f].recovery \in Born \ Work
      BY <1>2, <2>3 DEF Tables
    <3>. QED
      BY <3>1, LaterSteps DEF L, NotFail, Spawn
  <2>. QED
    BY <2>1, <2>2, <2>4, <2>5, Short, Empty
<1>7. CASE RepairFail(w)
  <2>1. Steady
    BY <1>2, <1>7, SteadySame DEF RepairFail
  <2>2. s.op = "repair"
    BY <1>7 DEF RepairFail, Asked, Runs, s
  <2>3. \/ Then(w, <<>>)
        \/ /\ row[t] # NoRow
           /\ Then(w, <<Feed(t, "fail"), EarlyExit(t), Record(t, "operator_fail")>>)
    BY <1>7, Zenon DEF RepairFail, When, s
  <2>4. t \in Born =>
          /\ Feed(t, "fail") \in L /\ EarlyExit(t) \in L /\ Record(t, "operator_fail") \in L
    <3>1. "fail" \in FeedKind /\ "operator_fail" \in KindsOf(w)
      BY <1>3, <2>2 DEF FeedKind, KindsOf
    <3>. QED
      BY <3>1, LaterSteps DEF L
  <2>5. /\ EarlyExit(t).op # "feed" /\ NotFail(EarlyExit(t))
        /\ NotFail(Record(t, "operator_fail"))
    BY DEF NotFail, EarlyExit, Record
  <2>6. t \in Born =>
          /\ <<Feed(t, "fail"), EarlyExit(t), Record(t, "operator_fail")>> \in Seq(L)
          /\ Calm(<<Feed(t, "fail"), EarlyExit(t), Record(t, "operator_fail")>>)
    BY <2>4, <2>5, Short
  <2>. QED
    BY <1>3, <2>1, <2>2, <2>3, <2>6, Empty
<1>8. CASE RepairClose(w)
  <2>1. Steady
    BY <1>2, <1>8, SteadySame DEF RepairClose
  <2>2. s.op = "repair"
    BY <1>8 DEF RepairClose, Asked, Runs, s
  <2>3. \/ Then(w, <<>>)
        \/ row[t] # NoRow /\ Then(w, <<Feed(t, "resource_closed"), Recycled(t)>>)
    BY <1>8, Zenon DEF RepairClose, When, s
  <2>4. t \in Born =>
          /\ Feed(t, "resource_closed") \in L /\ Recycled(t) \in L
          /\ NotFail(Feed(t, "resource_closed")) /\ NotFail(Recycled(t))
    BY LaterSteps DEF L, FeedKind, NotFail, Feed, Recycled
  <2>5. t \in Born =>
          /\ <<Feed(t, "resource_closed"), Recycled(t)>> \in Seq(L)
          /\ Calm(<<Feed(t, "resource_closed"), Recycled(t)>>)
    BY <2>4, Short
  <2>. QED
    BY <1>3, <2>1, <2>2, <2>3, <2>5, Empty
<1>9. CASE RepairAck(w)
  <2>1. /\ UNCHANGED <<ledger, row, phase, tracked, outside>> /\ Then(w, <<>>)
        /\ \/ faults' = faults
           \/ \E f \in DOMAIN faults : faults' = [faults EXCEPT ![f].state = "acked"]
    BY <1>9 DEF RepairAck, Unacked
  <2>2. CASE faults' = faults
    <3>1. Steady
      BY <1>2, <2>1, <2>2, SteadySame
    <3>. QED
      BY <2>1, <3>1, Empty
  <2>3. ASSUME NEW f \in DOMAIN faults, faults' = [faults EXCEPT ![f].state = "acked"]
        PROVE  Steady
    <3>1. faults \in Seq(Fault) /\ DOMAIN faults = 1..Len(faults) /\ Len(faults) \in Nat
      BY <1>2, FaultsDomain DEF Tables, TypeOK
    <3>2. \A g \in DOMAIN faults :
            /\ faults[g] \in Fault /\ faults'[g] \in Fault
            /\ faults'[g].task = faults[g].task
            /\ faults'[g].kind = faults[g].kind
            /\ faults'[g].gen = faults[g].gen
            /\ faults'[g].recovery = faults[g].recovery
      <4>. SUFFICES ASSUME NEW g \in DOMAIN faults
                    PROVE  /\ faults[g] \in Fault /\ faults'[g] \in Fault
                           /\ faults'[g].task = faults[g].task
                           /\ faults'[g].kind = faults[g].kind
                           /\ faults'[g].gen = faults[g].gen
                           /\ faults'[g].recovery = faults[g].recovery
        OBVIOUS
      <4>1. faults[g] \in Fault
        BY <3>1, ElementOfSeq
      <4>2. faults'[g] = IF g = f THEN [faults[g] EXCEPT !.state = "acked"] ELSE faults[g]
        BY <2>3
      <4>. QED
        BY <4>1, <4>2 DEF Fault
    <3>3. faults' \in [1..Len(faults) -> Fault]
      BY <2>3, <3>1, <3>2
    <3>4. faults' \in Seq(Fault) /\ Len(faults') = Len(faults)
      BY <3>1, <3>3, SeqDef, LenProperties
    <3>5. tab' = tab /\ said' = said
      BY <2>1 DEF outside
    <3>. QED
      BY <1>2, <2>1, <3>2, <3>4, <3>5 DEF Steady, Tables, TypeOK, ledger
  <2>. QED
    BY <2>1, <2>2, <2>3, Empty
<1>10. CASE RepairMove(w)
  <2>1. Steady
    BY <1>2, <1>10, SteadySame DEF RepairMove
  <2>2. s.op = "repair"
    BY <1>10 DEF RepairMove, Asked, Runs, s
  <2>3. \/ Then(w, <<>>)
        \/ /\ row[t] # NoRow
           /\ Then(w, <<Adopt(t, row[t])>>) \/ Then(w, <<Rebind(t, row[t])>>)
    BY <1>10, Zenon DEF RepairMove, When, s
  <2>4. row[t] # NoRow =>
          /\ Adopt(t, row[t]) \in L /\ Rebind(t, row[t]) \in L
    BY <1>3, <1>4, <2>2, LaterSteps DEF L
  <2>5. NotFail(Adopt(t, row[t])) /\ NotFail(Rebind(t, row[t]))
    BY DEF NotFail, Adopt, Rebind
  <2>. QED
    BY <2>1, <2>3, <2>4, <2>5, Short, Empty
<1>11. CASE DoAdopt(w)
  <2>1. Steady
    BY <1>2, <1>11, SteadySame DEF DoAdopt
  <2>2. s.op = "adopt"
    BY <1>11 DEF DoAdopt, Runs, s
  <2>3. \/ Then(w, <<>>) \/ Then(w, <<AdoptGone(t, s.obs)>>)
        \/ Then(w, <<AdoptNext(t, s.obs)>>)
    BY <1>11, Zenon DEF DoAdopt, When, s
  <2>4. AdoptGone(t, s.obs) \in L /\ AdoptNext(t, s.obs) \in L
    BY <1>3, <2>2, LaterSteps DEF L
  <2>5. NotFail(AdoptGone(t, s.obs)) /\ NotFail(AdoptNext(t, s.obs))
    BY DEF NotFail, AdoptGone, AdoptNext
  <2>. QED
    BY <2>1, <2>3, <2>4, <2>5, Short, Empty
<1>12. CASE DoRebind(w)
  <2>1. s.op = "rebind"
    BY <1>12 DEF DoRebind, Runs, s
  <2>2. tracked' \subseteq Task /\ tab' \in [Task -> {"none", "open", "detached", "gone"}]
    BY <1>2, <1>3, <1>12, <2>1 DEF DoRebind, Tables, TypeOK, s
  <2>3. Steady
    BY <1>2, <1>12, <2>2, SteadyRest DEF DoRebind
  <2>4. Then(w, <<>>) \/ Then(w, <<RebindNext(t, s.obs)>>)
    BY <1>12 DEF DoRebind, s
  <2>5. RebindNext(t, s.obs) \in L /\ NotFail(RebindNext(t, s.obs))
    BY <1>3, <2>1, LaterSteps DEF L, NotFail, RebindNext
  <2>. QED
    BY <2>3, <2>4, <2>5, Short, Empty
<1>. QED
  BY <1>6, <1>7, <1>8, <1>9, <1>10, <1>11, <1>12 DEF RepairStep

\* The concatenations of short programs.
LEMMA Glue ==
    ASSUME NEW a, NEW b, NEW c
    PROVE  /\ <<>> \o <<a>> = <<a>> /\ <<a>> \o <<>> = <<a>>
           /\ <<a>> \o <<b>> = <<a, b>>
           /\ <<a, b>> \o <<>> = <<a, b>> /\ <<a, b>> \o <<c>> = <<a, b, c>>
<1>. DEFINE S == {a, b, c}
<1>1. /\ <<>> \in Seq(S) /\ <<a>> \in Seq(S) /\ <<b>> \in Seq(S) /\ <<c>> \in Seq(S)
      /\ <<a, b>> \in Seq(S) /\ <<a, b, c>> \in Seq(S)
  OBVIOUS
<1>. HIDE DEF S
<1>2. <<>> \o <<a>> = <<a>> /\ <<a>> \o <<>> = <<a>> /\ <<a, b>> \o <<>> = <<a, b>>
  BY <1>1, ConcatEmptySeq
<1>3. <<a>> \o <<b>> = <<a, b>>
  <2>1. /\ <<a>> \o <<b>> \in Seq(S) /\ Len(<<a>> \o <<b>>) = 2
        /\ \A i \in 1..2 : (<<a>> \o <<b>>)[i] = IF i <= 1 THEN <<a>>[i] ELSE <<b>>[i - 1]
    BY <1>1, ConcatProperties
  <2>2. \A i \in 1..2 : (<<a>> \o <<b>>)[i] = <<a, b>>[i]
    BY <2>1
  <2>. QED
    BY <1>1, <2>1, <2>2, SeqEqual
<1>4. <<a, b>> \o <<c>> = <<a, b, c>>
  <2>1. /\ <<a, b>> \o <<c>> \in Seq(S) /\ Len(<<a, b>> \o <<c>>) = 3
        /\ \A i \in 1..3 :
             (<<a, b>> \o <<c>>)[i] = IF i <= 2 THEN <<a, b>>[i] ELSE <<c>>[i - 2]
    BY <1>1, ConcatProperties
  <2>2. \A i \in 1..3 : (<<a, b>> \o <<c>>)[i] = <<a, b, c>>[i]
    BY <2>1
  <2>. QED
    BY <1>1, <2>1, <2>2, SeqEqual
<1>. QED
  BY <1>2, <1>3, <1>4

\* reconcile_dead settles nothing by itself: it lines up the steps.
LEMMA DeadStep ==
    ASSUME RecoveryInv, LossInv, NEW w \in AllWorkers, DoDead(w)
    PROVE  RecoveryInv' /\ LossInv'
<1>. DEFINE s == Head(prog[w])
            t == s.task
            L == Later(w, Born, {}, Len(faults))
            rec == Record(t, "probe_dead")
            fail == Feed(t, "fail")
            gone == Feed(t, "agent_gone")
<1>1. prog[w] # <<>> /\ s.op = "dead" /\ ~Runs(w, "link")
  BY DEF DoDead, Runs
<1>2. s \in Steps(w, Born, Own(w), Len(faults)) /\ Tables /\ Born \subseteq Task
  BY <1>1, Running1 DEF RecoveryInv
<1>3. t \in Born /\ w \in Keepers
  BY <1>1, <1>2, StepFields
<1>. HIDE DEF s, L
<1>4. rec \in L /\ fail \in L /\ gone \in L
  <2>1. "probe_dead" \in KindsOf(w)
    BY <1>3 DEF Keepers, KindsOf
  <2>2. "fail" \in FeedKind /\ "agent_gone" \in FeedKind
    BY DEF FeedKind
  <2>. QED
    BY <1>3, <2>1, <2>2, LaterSteps DEF L
<1>5. \/ Then(w, <<gone>>)
      \/ state[t] \in Settled /\ Then(w, <<fail, gone>>)
      \/ Then(w, <<rec, fail, gone>>)
  <2>1. PICK a \in {<<>>, <<rec>>}, b \in {<<>>, <<fail>>} :
          /\ Then(w, a \o b \o <<gone>>)
          /\ a = <<>> /\ b = <<fail>> => state[t] \in Settled
          /\ a = <<rec>> => b = <<fail>>
    BY <1>1, Zenon DEF DoDead, When, s
  <2>. HIDE DEF rec, fail, gone
  <2>2. <<>> \o <<>> = <<>>
    OBVIOUS
  <2>3. /\ <<>> \o <<>> \o <<gone>> = <<gone>>
        /\ <<>> \o <<fail>> \o <<gone>> = <<fail, gone>>
        /\ <<rec>> \o <<fail>> \o <<gone>> = <<rec, fail, gone>>
    BY <2>2, Glue
  <2>. QED
    BY <2>1, <2>3
<1>6. Steady
  BY <1>2, SteadySame DEF DoDead
<1>7. RecoveryInv'
  <2>. HIDE DEF rec, fail, gone
  <2>1. PICK q \in Seq(L) : Then(w, q)
    BY <1>4, <1>5, Short
  <2>2. DOMAIN prog' = AllWorkers /\ \A v \in AllWorkers : prog'[v] = prog[v] \/ Renewed(v)
    BY <1>1, <2>1, MovesProgram DEF L, RecoveryInv
  <2>. QED
    BY <1>6, <2>2, Ordinary DEF RecoveryInv
<1>8. \A u \in Work : Told(u) => Told(u)'
  BY <1>6, ToldStays DEF RecoveryInv
<1>9. prog[w] \in Seq(StepsOf(w)) /\ L \subseteq StepsOf(w)
  BY <1>1 DEF RecoveryInv, Running, Programs, StepsOf, Steps, Own, L
<1>10. ASSUME NEW q \in Seq(L), Then(w, q),
              \A i \in DOMAIN q, u \in Work :
                i + 1 \in DOMAIN q /\ FailsAt(q, i, u) =>
                  \/ Told(u)
                  \/ i = 2 /\ Tells(q, u),
              q # <<>>, q[Len(q)].kind # "fail"
       PROVE  LossInv'
  <2>. DEFINE S == StepsOf(w)
              r == prog'[w]
  <2>1. /\ r = q \o Tail(prog[w])
        /\ \A v \in AllWorkers : v # w => prog'[v] = prog[v]
    BY <1>1, <1>10, MovesProgram DEF L, RecoveryInv
  <2>2. q \in Seq(S) /\ prog[w] \in Seq(S)
    BY <1>9, SeqMonotonic
  <2>3. /\ r \in Seq(S) /\ Len(r) = Len(q) + Len(prog[w]) - 1
        /\ \A i \in 1..Len(r) :
             r[i] = IF i <= Len(q) THEN q[i] ELSE prog[w][i - Len(q) + 1]
    BY <1>1, <2>1, <2>2, Splice
  <2>4. Len(q) \in Nat \ {0} /\ Len(prog[w]) \in Nat \ {0} /\ DOMAIN q = 1..Len(q)
    BY <1>1, <1>10, <2>2, EmptySeq, LenProperties
  <2>. HIDE DEF S
  <2>5. Head(r) = q[1]
    <3>1. r # <<>>
      BY <2>3, <2>4
    <3>2. Head(r) = r[1]
      BY <2>3, <3>1, HeadTailProperties
    <3>. QED
      BY <2>3, <2>4, <3>2
  <2>6. Head(q) = q[1]
    BY <1>10, HeadTailProperties
  <2>. SUFFICES ASSUME NEW x \in Keepers, NEW u \in Work,
                       NEW i \in 1..(Len(prog'[x]) - 1), FailsAt(prog'[x], i, u), ~Told(u)'
                PROVE  i = 2 /\ Tells(prog'[x], u)
    BY DEF LossInv
  <2>7. x \in AllWorkers /\ ~Told(u)
    BY <1>8 DEF Keepers, AllWorkers, AllThreads
  <2>8. CASE x # w
    <3>1. prog'[x] = prog[x]
      BY <2>1, <2>7, <2>8
    <3>. QED
      BY <2>7, <3>1 DEF LossInv
  <2>9. CASE x = w /\ i > Len(q)
    <3>. DEFINE j == i - Len(q) + 1
    <3>1. j \in 2..(Len(prog[w]) - 1) /\ FailsAt(prog[w], j, u)
      BY <1>1, <2>1, <2>2, <2>9, FailsBehind
    <3>2. j \in 1..(Len(prog[w]) - 1)
      BY <2>4, <3>1
    <3>. HIDE DEF j
    <3>3. Tells(prog[w], u)
      BY <1>3, <2>7, <3>1, <3>2 DEF LossInv
    <3>. QED
      BY <1>1, <3>3 DEF Tells, s
  <2>10. CASE x = w /\ i <= Len(q)
    <3>1. r[i] = q[i] /\ i \in DOMAIN q
      BY <2>3, <2>4, <2>10
    <3>2. i # Len(q)
      BY <1>10, <2>10, <3>1 DEF FailsAt, Feed
    <3>3. i + 1 \in DOMAIN q /\ r[i + 1] = q[i + 1]
      BY <2>3, <2>4, <2>10, <3>1, <3>2
    <3>4. FailsAt(q, i, u)
      BY <2>10, <3>1, <3>3 DEF FailsAt
    <3>5. i = 2 /\ Tells(q, u)
      BY <1>10, <2>7, <3>1, <3>3, <3>4
    <3>. QED
      BY <2>5, <2>6, <2>10, <3>5 DEF Tells
  <2>. QED
    BY <2>4, <2>7, <2>8, <2>9, <2>10
<1>11. CASE Then(w, <<gone>>)
  <2>. DEFINE q == <<gone>>
  <2>1. q \in Seq(L) /\ q # <<>> /\ Len(q) = 1 /\ DOMAIN q = 1..1
    BY <1>4
  <2>2. q[Len(q)].kind # "fail"
    BY <2>1 DEF Feed
  <2>3. \A i \in DOMAIN q : i + 1 \notin DOMAIN q
    BY <2>1
  <2>. HIDE DEF q
  <2>4. Then(w, q)
    BY <1>11 DEF q
  <2>. QED
    BY <1>7, <1>10, <2>1, <2>2, <2>3, <2>4
<1>12. CASE state[t] \in Settled /\ Then(w, <<fail, gone>>)
  <2>. DEFINE q == <<fail, gone>>
  <2>1. q \in Seq(L) /\ q # <<>> /\ Len(q) = 2 /\ DOMAIN q = 1..2
    BY <1>4
  <2>2. q[Len(q)].kind # "fail"
    BY <2>1 DEF Feed
  <2>3. ASSUME NEW i \in DOMAIN q, NEW u \in Work, i + 1 \in DOMAIN q, FailsAt(q, i, u)
        PROVE  Told(u)
    <3>1. i = 1 /\ q[1] = Feed(u, "fail")
      BY <2>1, <2>3 DEF FailsAt
    <3>2. u = t
      BY <3>1 DEF Feed
    <3>. QED
      BY <1>12, <3>2 DEF Told
  <2>. HIDE DEF q
  <2>4. Then(w, q)
    BY <1>12 DEF q
  <2>. QED
    BY <1>7, <1>10, <2>1, <2>2, <2>3, <2>4
<1>13. CASE Then(w, <<rec, fail, gone>>)
  <2>. DEFINE q == <<rec, fail, gone>>
  <2>1. q \in Seq(L) /\ q # <<>> /\ Len(q) = 3 /\ DOMAIN q = 1..3
    BY <1>4
  <2>2. q[Len(q)].kind # "fail"
    BY <2>1 DEF Feed
  <2>3. ASSUME NEW i \in DOMAIN q, NEW u \in Work, i + 1 \in DOMAIN q, FailsAt(q, i, u)
        PROVE  i = 2 /\ Tells(q, u)
    <3>1. (i = 1 \/ i = 2) /\ q[i] = Feed(u, "fail")
      BY <2>1, <2>3 DEF FailsAt
    <3>2. i # 1
      BY <3>1 DEF Feed, Record
    <3>3. u = t
      BY <3>1, <3>2 DEF Feed
    <3>4. Head(q) = rec
      BY HeadTailProperties, <2>1
    <3>. QED
      BY <3>1, <3>2, <3>3, <3>4 DEF Tells, Record
  <2>. HIDE DEF q
  <2>4. Then(w, q)
    BY <1>13 DEF q
  <2>. QED
    BY <1>7, <1>10, <2>1, <2>2, <2>3, <2>4
<1>. QED
  BY <1>5, <1>7, <1>11, <1>12, <1>13

\* A lookup that lines up the step that follows it.
LEMMA LooksUp ==
    ASSUME RecoveryInv, NEW w \in AllWorkers, prog[w] # <<>>, ~Runs(w, "link"),
           NEW x \in First(w, Born, {}, Len(faults)), x.op \in {"insert", "create"},
           Then(w, <<x>>), UNCHANGED <<ledger, row, faults, phase, tracked, outside>>,
           x.op = "create" => cause[faults[x.fault].task] = 0,
           x.op = "insert" /\ x.kind \in RecoveryKind => ~Queued(x.task, x.kind, x.gen)
    PROVE  RecoveryInv'
<1>1. /\ DOMAIN prog' = AllWorkers /\ prog'[w] = <<x>> \o Tail(prog[w])
      /\ \A v \in AllWorkers : v # w => prog'[v] = prog[v]
  BY DEF Then, RecoveryInv, Running
<1>2. Own(w) = {}
  BY DEF Own
<1>3. prog[w] \in Programs(StepsOf(w), LaterOf(w)) /\ x \in StepsOf(w)
      /\ LaterOf(w) \subseteq StepsOf(w)
  BY <1>2 DEF RecoveryInv, Running, StepsOf, LaterOf, Steps
<1>4. prog'[w] \in Programs(StepsOf(w), LaterOf(w)) /\ prog'[w] # <<>> /\ Head(prog'[w]) = x
  <2>. DEFINE S == StepsOf(w)
              p == prog[w]
  <2>1. <<x>> \in Seq(S) /\ Len(<<x>>) = 1 /\ <<x>>[1] = x
    BY <1>3
  <2>2. <<x>> \in Programs(S, LaterOf(w))
    BY <2>1 DEF Programs
  <2>3. p \in Seq(S) /\ Len(p) \in Nat \ {0}
    BY <1>3, ProgramHead DEF Programs
  <2>. HIDE DEF S, p
  <2>4. <<x>> \o Tail(p) \in Programs(S, LaterOf(w))
    BY <1>3, <2>2, ProgramGoesOn DEF S, p
  <2>5. /\ <<x>> \o Tail(p) \in Seq(S) /\ Len(<<x>> \o Tail(p)) = Len(p)
        /\ (<<x>> \o Tail(p))[1] = x
    BY <2>1, <2>3, Splice DEF p
  <2>6. <<x>> \o Tail(p) # <<>>
    BY <2>3, <2>5
  <2>7. Head(<<x>> \o Tail(p)) = x
    BY <2>5, <2>6, HeadTailProperties
  <2>. QED
    BY <1>1, <2>4, <2>6, <2>7 DEF S, p
<1>5. \A v \in AllWorkers : Own(v)' = Own(v)
  BY <1>1, <1>2, <1>4 DEF Own, Runs
<1>6. Born' = Born
  BY <1>5 DEF Born, ledger
<1>7. Tables'
  <2>1. phase = "boot" => \A v \in AllThreads : prog'[v] = <<>>
    BY <1>1, Running1 DEF RecoveryInv, Tables, TypeOK, AllThreads, AllWorkers
  <2>2. TypeOK'
    BY <2>1 DEF RecoveryInv, Tables, TypeOK, ledger, outside
  <2>. QED
    BY <1>6, <2>2 DEF RecoveryInv, Tables, ledger, outside
<1>8. Running'
  <2>1. \A v \in AllWorkers : StepsOf(v)' = StepsOf(v) /\ LaterOf(v)' = LaterOf(v)
    BY <1>5, <1>6 DEF StepsOf, LaterOf
  <2>. QED
    BY <1>1, <1>4, <2>1, Running1 DEF RecoveryInv, Running, AllWorkers
<1>9. Newborn'
  BY <1>5 DEF RecoveryInv, Newborn, ledger
<1>10. Layered'
  <2>1. SingleLayer'
    BY DEF RecoveryInv, Layered, SingleLayer, ledger
  <2>2. \A v \in AllWorkers : (Runs(v, "create") \/ Runs(v, "link"))'
          => cause[faults[Head(prog'[v]).fault].task] = 0
    BY <1>1, <1>4 DEF RecoveryInv, Layered, Runs
  <2>. QED
    BY <2>1, <2>2 DEF Layered, ledger
<1>11. Once'
  <2>1. \A t, kind, g : Queued(t, kind, g)' <=> Queued(t, kind, g)
    BY DEF Queued
  <2>2. FaultOnce'
    BY DEF RecoveryInv, Once, FaultOnce
  <2>3. ASSUME NEW v \in AllWorkers, Runs(v, "insert")', Head(prog'[v]).kind \in RecoveryKind
        PROVE  ~Queued(Head(prog'[v]).task, Head(prog'[v]).kind, Head(prog'[v]).gen)
    <3>1. CASE v = w
      BY <1>4, <2>3, <3>1 DEF Runs
    <3>2. CASE v # w
      BY <1>1, <2>3, <3>2 DEF RecoveryInv, Once, Twice, Runs
    <3>. QED
      BY <3>1, <3>2
  <2>. QED
    BY <2>1, <2>2, <2>3 DEF Once, Twice
<1>. QED
  BY <1>7, <1>8, <1>9, <1>10, <1>11 DEF RecoveryInv

LEMMA RecoverStep ==
    ASSUME RecoveryInv, LossInv, NEW w \in AllWorkers, DoRecover(w)
    PROVE  RecoveryInv' /\ LossInv'
<1>. DEFINE s == Head(prog[w])
            x == Create(s.fault, s.twice)
<1>1. prog[w] # <<>> /\ s.op = "recover" /\ ~Runs(w, "link")
  BY DEF DoRecover, Runs
<1>2. s \in Steps(w, Born, Own(w), Len(faults)) /\ Tables
  BY <1>1, Running1 DEF RecoveryInv
<1>3. x \in First(w, Born, {}, Len(faults)) /\ x.op = "create" /\ x.fault = s.fault
  <2>1. s.fault \in 1..Len(faults) /\ s.twice \in BOOLEAN
    BY <1>1, <1>2, StepFields
  <2>. QED
    BY <2>1 DEF First, Create
<1>4. Steady
  BY <1>2, SteadySame DEF DoRecover
<1>. HIDE DEF s
<1>5. Then(w, <<>>) \/ (Recoverable(s.fault) /\ Then(w, <<x>>))
  BY Zenon DEF DoRecover, When, s
<1>6. CASE Then(w, <<>>)
  <2>1. Moves(w)
    BY <1>1, <1>6, Empty DEF Moves
  <2>2. ~Runs(w, "record") /\ ~Runs(w, "insert")
    BY <1>1 DEF Runs, s
  <2>. QED
    BY <1>4, <2>1, <2>2, OrdinaryStep, LossStep
<1>7. CASE Recoverable(s.fault) /\ Then(w, <<x>>)
  <2>. HIDE DEF x
  <2>1. UNCHANGED <<ledger, row, faults, phase, tracked, outside>>
    BY DEF DoRecover
  <2>2. RecoveryInv'
    BY <1>1, <1>3, <1>7, <2>1, LooksUp DEF Recoverable
  <2>3. /\ prog'[w] = <<x>> \o Tail(prog[w])
        /\ \A v \in AllWorkers : v # w => prog'[v] = prog[v]
    BY <1>7 DEF Then, RecoveryInv, Running
  <2>4. \A u \in Work : Told(u) => Told(u)'
    BY <1>4, ToldStays DEF RecoveryInv
  <2>. DEFINE S == StepsOf(w) \cup {x}
  <2>5. prog[w] \in Seq(S)
    <3>1. prog[w] \in Seq(StepsOf(w))
      BY DEF RecoveryInv, Running, Programs
    <3>. QED
      BY <3>1, SeqMonotonic
  <2>6. <<x>> \in Seq(S) /\ Calm(<<x>>)
    <3>1. NotFail(x)
      BY <1>3 DEF NotFail
    <3>. QED
      BY <3>1, Short
  <2>. HIDE DEF S
  <2>7. \A u : ~Tells(prog[w], u)
    BY <1>1 DEF Tells, s
  <2>8. \A v \in AllWorkers :
          \/ prog'[v] = prog[v]
          \/ /\ prog[v] # <<>>
             /\ \E SS : \E q \in Seq(SS) :
                  /\ prog[v] \in Seq(SS) /\ Calm(q) /\ prog'[v] = q \o Tail(prog[v])
                  /\ \A u \in Work : ~Tells(prog[v], u)
    BY <1>1, <2>3, <2>5, <2>6, <2>7
  <2>9. LossInv'
    BY <2>4, <2>8, LossGoesOn DEF RecoveryInv
  <2>. QED
    BY <2>2, <2>9
<1>. QED
  BY <1>5, <1>6, <1>7

LEMMA RecordStep ==
    ASSUME RecoveryInv, LossInv, NEW w \in AllWorkers, DoRecord(w)
    PROVE  RecoveryInv' /\ LossInv'
<1>. DEFINE s == Head(prog[w])
            g == GenOf(s.task)
            x == Insert(s.task, s.kind, g)
<1>1. prog[w] # <<>> /\ s.op = "record" /\ ~Runs(w, "link")
  BY DEF DoRecord, Runs
<1>2. s \in Steps(w, Born, Own(w), Len(faults)) /\ Tables /\ Born \subseteq Task
  BY <1>1, Running1 DEF RecoveryInv
<1>3. s.task \in Born /\ s.kind \in KindsOf(w)
  BY <1>1, <1>2, StepFields
<1>4. g \in Nat
  BY <1>2, <1>3 DEF GenOf, Tables, LegalRows, Row, Observation
<1>5. Steady
  BY <1>2, SteadySame DEF DoRecord
<1>6. \A u \in Work : Told(u) => Told(u)'
  BY <1>5, ToldStays DEF RecoveryInv
<1>. HIDE DEF s, g
<1>7. x \in First(w, Born, {}, Len(faults)) /\ x.op = "insert"
      /\ x.task = s.task /\ x.kind = s.kind /\ x.gen = g
  BY <1>3, <1>4 DEF First, Insert
<1>8. \/ Queued(s.task, s.kind, g) /\ Then(w, <<>>)
      \/ ~Queued(s.task, s.kind, g) /\ Then(w, <<x>>)
  BY Zenon DEF DoRecord, When, s, g
<1>. HIDE DEF x
<1>9. ASSUME NEW q, Then(w, q), q \in Seq(StepsOf(w) \cup {x}), Calm(q),
             \A u \in Work : Tells(prog[w], u) => Told(u)' \/ (Len(q) = 1 /\ Tells(q, u))
      PROVE  LossInv'
  <2>. DEFINE S == StepsOf(w) \cup {x}
  <2>1. /\ prog'[w] = q \o Tail(prog[w])
        /\ \A v \in AllWorkers : v # w => prog'[v] = prog[v]
    BY <1>9 DEF Then, RecoveryInv, Running
  <2>2. prog[w] \in Seq(S)
    <3>1. prog[w] \in Seq(StepsOf(w))
      BY DEF RecoveryInv, Running, Programs
    <3>. QED
      BY <3>1, SeqMonotonic
  <2>3. q \in Seq(S)
    BY <1>9
  <2>. HIDE DEF S
  <2>4. \A v \in AllWorkers :
          \/ prog'[v] = prog[v]
          \/ /\ prog[v] # <<>>
             /\ \E SS : \E p \in Seq(SS) :
                  /\ prog[v] \in Seq(SS) /\ Calm(p) /\ prog'[v] = p \o Tail(prog[v])
                  /\ \A u \in Work :
                       Tells(prog[v], u) => Told(u)' \/ (Len(p) = 1 /\ Tells(p, u))
    BY <1>1, <1>9, <2>1, <2>2, <2>3
  <2>. QED
    BY <1>6, <2>4, LossGoesOn DEF RecoveryInv
<1>10. CASE Queued(s.task, s.kind, g) /\ Then(w, <<>>)
  <2>1. Moves(w)
    BY <1>1, <1>10, Empty DEF Moves
  <2>2. RecoveryInv'
    BY <1>5, <2>1, OrdinaryStep
  <2>3. \A u \in Work : Tells(prog[w], u) => Told(u)
    BY <1>10 DEF Tells, Told, Queued, RecoveryKind, s
  <2>4. LossInv'
    BY <1>6, <1>9, <1>10, <2>3, Empty
  <2>. QED
    BY <2>2, <2>4
<1>11. CASE ~Queued(s.task, s.kind, g) /\ Then(w, <<x>>)
  <2>1. UNCHANGED <<ledger, row, faults, phase, tracked, outside>>
    BY DEF DoRecord
  <2>2. RecoveryInv'
    BY <1>1, <1>7, <1>11, <2>1, LooksUp
  <2>3. NotFail(x)
    BY <1>7 DEF NotFail
  <2>4. <<x>> \in Seq(StepsOf(w) \cup {x}) /\ Calm(<<x>>) /\ Len(<<x>>) = 1
    BY <2>3, Short
  <2>5. Head(<<x>>) = x
    OBVIOUS
  <2>6. \A u \in Work : Tells(prog[w], u) => Tells(<<x>>, u)
    BY <1>7, <2>5 DEF Tells, s
  <2>7. LossInv'
    BY <1>9, <1>11, <2>4, <2>6
  <2>. QED
    BY <2>2, <2>7
<1>. QED
  BY <1>8, <1>10, <1>11

LEMMA InsertStep ==
    ASSUME RecoveryInv, LossInv, NEW w \in AllWorkers, DoInsert(w)
    PROVE  RecoveryInv' /\ LossInv'
<1>. DEFINE s == Head(prog[w])
            n == Len(faults)
            x == [task |-> s.task, kind |-> s.kind, gen |-> s.gen,
                  state |-> "open", recovery |-> NoTask]
            q == <<Recover(n + 1, FALSE)>>
            L == Later(w, Born, {}, n + 1)
<1>1. prog[w] # <<>> /\ s.op = "insert" /\ ~Runs(w, "link")
  BY DEF DoInsert, Runs
<1>2. /\ s \in Steps(w, Born, Own(w), n) /\ Tables /\ Born \subseteq Task /\ n \in Nat
      /\ phase = "boot" <=> w = "boot"
  BY <1>1, Running1 DEF RecoveryInv
<1>3. s.task \in Born /\ s.kind \in KindsOf(w) /\ s.gen \in Nat
  BY <1>1, <1>2, StepFields
<1>4. faults \in Seq(Fault) /\ DOMAIN faults = 1..n
  BY <1>2, FaultsDomain DEF Tables, TypeOK
<1>5. x \in Fault
  <2>1. s.kind \in FaultKind
    BY <1>3 DEF KindsOf, FaultKind
  <2>. QED
    BY <1>2, <1>3, <2>1 DEF Fault
<1>6. x.task = s.task /\ x.kind = s.kind /\ x.gen = s.gen /\ x.recovery = NoTask
  OBVIOUS
<1>. HIDE DEF s
<1>7. faults' = Append(faults, x) /\ UNCHANGED <<ledger, row, phase, tracked, outside>>
  BY DEF DoInsert, s
<1>. HIDE DEF x
<1>8. /\ faults' \in Seq(Fault) /\ Len(faults') = n + 1
      /\ DOMAIN faults' = 1..(n + 1)
      /\ \A f \in DOMAIN faults : faults'[f] = faults[f] /\ f \in DOMAIN faults'
      /\ faults'[n + 1] = x
  <2>1. /\ faults' \in Seq(Fault) /\ Len(faults') = n + 1
        /\ \A f \in 1..n : faults'[f] = faults[f]
        /\ faults'[n + 1] = x
    BY <1>4, <1>5, <1>7, AppendProperties
  <2>2. DOMAIN faults' = 1..(n + 1)
    BY <2>1, LenProperties
  <2>. QED
    BY <1>2, <1>4, <2>1, <2>2
<1>9. Then(w, q)
  BY <1>8 DEF DoInsert
<1>10. /\ DOMAIN prog' = AllWorkers /\ prog'[w] = q \o Tail(prog[w])
       /\ \A v \in AllWorkers : v # w => prog'[v] = prog[v]
  BY <1>9 DEF Then, RecoveryInv, Running
<1>. HIDE DEF n, q, L
<1>11. Recover(n + 1, FALSE) \in L
  <2>1. n + 1 \in 1..(n + 1) /\ FALSE \in BOOLEAN
    BY <1>2 DEF n
  <2>. QED
    BY <2>1, LaterSteps DEF L
<1>12. Own(w) = {} /\ LaterOf(w) \subseteq L /\ StepsOf(w) = Steps(w, Born, {}, n)
  BY <1>1, <1>2, StepsGrow DEF Own, LaterOf, StepsOf, L, n
<1>13. prog'[w] \in Programs(L, L)
  <2>1. q \in Seq(L)
    BY <1>11, Short DEF q
  <2>2. q \in Programs(L, L)
    BY <2>1, SeqIsProgram
  <2>3. prog[w] \in Programs(StepsOf(w), LaterOf(w))
    BY DEF RecoveryInv, Running
  <2>. QED
    BY <1>1, <1>10, <1>12, <2>2, <2>3, ProgramGoesOn
<1>14. ~Runs(w, "insert")' /\ ~Runs(w, "create")' /\ ~Runs(w, "link")'
  BY <1>13, ProgramHead, LaterOps DEF Runs, L
<1>15. \A v \in AllWorkers : Own(v)' = Own(v)
  BY <1>10, <1>12, <1>14 DEF Own, Runs
<1>16. Born' = Born
  BY <1>7, <1>15 DEF Born, ledger
<1>17. Running'
  <2>1. ASSUME NEW v \in AllWorkers PROVE (prog[v] \in Programs(StepsOf(v), LaterOf(v)) =>
          prog[v] \in Programs(StepsOf(v)', LaterOf(v)'))
    <3>1. Later(v, Born, Own(v), n) \subseteq Later(v, Born, Own(v), n + 1)
          /\ First(v, Born, Own(v), n) \subseteq First(v, Born, Own(v), n + 1)
      BY <1>2, StepsGrow
    <3>2. StepsOf(v) \subseteq StepsOf(v)' /\ LaterOf(v) \subseteq LaterOf(v)'
      BY <1>8, <1>15, <1>16, <3>1 DEF StepsOf, LaterOf, Steps, n
    <3>. QED
      BY <3>2, ProgramsGrow
  <2>2. prog'[w] \in Programs(StepsOf(w)', LaterOf(w)')
    <3>1. LaterOf(w)' = L /\ L \subseteq StepsOf(w)'
      BY <1>8, <1>12, <1>15, <1>16 DEF StepsOf, LaterOf, Steps, L, n
    <3>. QED
      BY <1>13, <3>1, ProgramsGrow
  <2>3. \A v \in AllWorkers : prog'[v] \in Programs(StepsOf(v)', LaterOf(v)')
    BY <1>10, <2>1, <2>2 DEF RecoveryInv, Running
  <2>4. phase' \in {"boot", "up"} /\ (phase' = "up" => prog'["boot"] = <<>>)
    BY <1>2, <1>7, <1>10 DEF RecoveryInv, Running, AllWorkers
  <2>. QED
    BY <1>10, <2>3, <2>4 DEF Running
<1>18. Tables'
  <2>1. phase = "boot" => \A v \in AllThreads : prog'[v] = <<>>
    BY <1>2, <1>10 DEF Tables, TypeOK, AllThreads, AllWorkers
  <2>2. cause \in [Task -> 0..(n + 1)]
    <3>1. 0..n \subseteq 0..(n + 1)
      BY <1>2
    <3>. QED
      BY <1>2, <3>1 DEF Tables, TypeOK, n
  <2>3. TypeOK'
    BY <1>2, <1>7, <1>8, <2>1, <2>2 DEF Tables, TypeOK, ledger, outside
  <2>4. ASSUME NEW f \in DOMAIN faults'
        PROVE  /\ faults'[f].task \in Born
               /\ faults'[f].recovery # NoTask => faults'[f].recovery \in Born \ Work
    BY <1>2, <1>3, <1>4, <1>6, <1>8 DEF Tables
  <2>. QED
    BY <1>2, <1>7, <1>16, <2>3, <2>4 DEF Tables, ledger, outside
<1>19. Newborn'
  BY <1>7, <1>15 DEF RecoveryInv, Newborn, ledger
<1>20. Layered'
  <2>1. \A r \in Task : cause[r] # 0 => cause[r] \in DOMAIN faults
    BY <1>2, <1>4 DEF Tables, TypeOK, n
  <2>2. SingleLayer'
    BY <1>7, <1>8, <2>1 DEF RecoveryInv, Layered, SingleLayer, ledger
  <2>3. ASSUME NEW v \in AllWorkers, (Runs(v, "create") \/ Runs(v, "link"))'
        PROVE  cause[faults'[Head(prog'[v]).fault].task] = 0
    <3>1. v # w /\ prog'[v] = prog[v] /\ (Runs(v, "create") \/ Runs(v, "link"))
      BY <1>10, <1>14, <2>3 DEF Runs
    <3>2. Head(prog[v]).fault \in DOMAIN faults
      BY <1>4, <3>1, Running1, StepFields DEF Runs, n
    <3>. QED
      BY <1>8, <3>1, <3>2 DEF RecoveryInv, Layered
  <2>. QED
    BY <1>7, <2>2, <2>3 DEF Layered, ledger
<1>21. Once'
  <2>1. x.kind \in RecoveryKind => ~Queued(x.task, x.kind, x.gen)
    BY <1>1, <1>6 DEF RecoveryInv, Once, Twice, Runs, s
  <2>2. FaultOnce'
    <3>. SUFFICES ASSUME NEW f \in DOMAIN faults', NEW h \in DOMAIN faults',
                         faults'[f].kind \in RecoveryKind,
                         faults'[f].kind = faults'[h].kind,
                         faults'[f].task = faults'[h].task,
                         faults'[f].gen = faults'[h].gen
                  PROVE  f = h
      BY DEF FaultOnce
    <3>1. CASE f \in DOMAIN faults /\ h \in DOMAIN faults
      BY <1>8, <3>1 DEF RecoveryInv, Once, FaultOnce
    <3>2. CASE f = n + 1 /\ h \in DOMAIN faults
      BY <1>8, <2>1, <3>2 DEF Queued
    <3>3. CASE h = n + 1 /\ f \in DOMAIN faults
      BY <1>8, <2>1, <3>3 DEF Queued
    <3>. QED
      BY <1>2, <1>4, <1>8, <3>1, <3>2, <3>3
  <2>3. ASSUME NEW v \in AllWorkers, Runs(v, "insert")', Head(prog'[v]).kind \in RecoveryKind
        PROVE  ~Twice(v)'
    <3>. DEFINE z == Head(prog[v])
    <3>1. v # w /\ prog'[v] = prog[v] /\ Runs(v, "insert")
      BY <1>10, <1>14, <2>3 DEF Runs
    <3>2. ~Queued(z.task, z.kind, z.gen)
      BY <2>3, <3>1 DEF RecoveryInv, Once, Twice
    <3>3. z.kind \in KindsOf(v) /\ (phase = "boot" <=> v = "boot")
      BY <3>1, Running1, StepFields DEF Runs
    <3>4. z.kind # x.kind
      BY <1>2, <1>3, <1>6, <2>3, <3>1, <3>3
         DEF KindsOf, RecoveryKind, AllWorkers, AllThreads
    <3>. HIDE DEF z
    <3>5. \A f \in DOMAIN faults' :
            ~(faults'[f].task = z.task /\ faults'[f].kind = z.kind /\ faults'[f].gen = z.gen)
      BY <1>2, <1>4, <1>8, <3>2, <3>4 DEF Queued
    <3>. QED
      BY <3>1, <3>5 DEF Twice, Queued, z
  <2>. QED
    BY <2>2, <2>3 DEF Once
<1>22. LossInv'
  <2>1. \A u \in Work : Told(u) => Told(u)'
    BY <1>7, <1>8 DEF Told, ledger
  <2>2. \A u \in Work : Tells(prog[w], u) => Told(u)'
    <3>1. n + 1 \in DOMAIN faults'
      BY <1>2, <1>8
    <3>. QED
      BY <1>6, <1>8, <3>1 DEF Tells, Told, RecoveryKind, s
  <2>. DEFINE S == StepsOf(w) \cup L
  <2>3. prog[w] \in Seq(S)
    <3>1. prog[w] \in Seq(StepsOf(w))
      BY DEF RecoveryInv, Running, Programs
    <3>. QED
      BY <3>1, SeqMonotonic
  <2>4. q \in Seq(S) /\ Calm(q)
    <3>1. NotFail(Recover(n + 1, FALSE))
      BY DEF NotFail, Recover
    <3>. QED
      BY <1>11, <3>1, Short DEF q
  <2>. HIDE DEF S
  <2>5. \A v \in AllWorkers :
          \/ prog'[v] = prog[v]
          \/ /\ prog[v] # <<>>
             /\ \E SS : \E p \in Seq(SS) :
                  /\ prog[v] \in Seq(SS) /\ Calm(p) /\ prog'[v] = p \o Tail(prog[v])
                  /\ \A u \in Work : Tells(prog[v], u) => Told(u)'
    BY <1>1, <1>10, <2>2, <2>3, <2>4
  <2>. QED
    BY <2>1, <2>5, LossGoesOn DEF RecoveryInv
<1>. QED
  BY <1>17, <1>18, <1>19, <1>20, <1>21, <1>22 DEF RecoveryInv

\* A step that tells of no loss itself.
LEMMA LossOne ==
    ASSUME Running, LossInv, NEW w \in AllWorkers, prog[w] # <<>>,
           ~Runs(w, "record"), ~Runs(w, "insert"),
           \A u \in Work : Told(u) => Told(u)',
           NEW S, NEW q \in Seq(S), Calm(q), prog[w] \in Seq(S),
           prog'[w] = q \o Tail(prog[w]),
           \A v \in AllWorkers : v # w => prog'[v] = prog[v]
    PROVE  LossInv'
<1>1. \A u : ~Tells(prog[w], u)
  BY DEF Tells, Runs
<1>2. \A v \in AllWorkers :
        \/ prog'[v] = prog[v]
        \/ /\ prog[v] # <<>>
           /\ \E SS : \E p \in Seq(SS) :
                /\ prog[v] \in Seq(SS) /\ Calm(p) /\ prog'[v] = p \o Tail(prog[v])
                /\ \A u \in Work : ~Tells(prog[v], u)
  BY <1>1
<1>. QED
  BY <1>2, LossGoesOn

LEMMA CreateStep ==
    ASSUME RecoveryInv, LossInv, NEW w \in AllWorkers, DoCreate(w)
    PROVE  RecoveryInv' /\ LossInv'
<1>. DEFINE s == Head(prog[w])
            n == Len(faults)
<1>1. /\ prog[w] # <<>> /\ s.op = "create"
      /\ ~Runs(w, "link") /\ ~Runs(w, "record") /\ ~Runs(w, "insert")
  BY DEF DoCreate, Runs
<1>2. /\ s \in Steps(w, Born, Own(w), n) /\ Tables /\ Born \subseteq Task /\ n \in Nat
      /\ phase = "boot" <=> w = "boot"
  BY <1>1, Running1 DEF RecoveryInv
<1>3. s.fault \in 1..n
  BY <1>1, <1>2, StepFields
<1>. HIDE DEF s, n
<1>4. \/ Then(w, <<>>) /\ UNCHANGED state
      \/ \E r \in {t \in Task : state[t] = "absent"} :
           /\ state' = [state EXCEPT ![r] = "pending"]
           /\ \E a \in {<<>>, <<Spawn(r)>>} : Then(w, <<Link(s.fault, r), Spawn(r)>> \o a)
  BY Zenon DEF DoCreate, When, s
<1>5. CASE Then(w, <<>>) /\ UNCHANGED state
  <2>1. Steady
    BY <1>2, <1>5, SteadySame DEF DoCreate, ledger
  <2>2. Moves(w)
    BY <1>1, <1>5, Empty DEF Moves
  <2>. QED
    BY <1>1, <2>1, <2>2, OrdinaryStep, LossStep
<1>6. ASSUME NEW r \in {t \in Task : state[t] = "absent"},
             state' = [state EXCEPT ![r] = "pending"],
             NEW a \in {<<>>, <<Spawn(r)>>}, Then(w, <<Link(s.fault, r), Spawn(r)>> \o a)
      PROVE  RecoveryInv' /\ LossInv'
  <2>. DEFINE x == Link(s.fault, r)
              q == <<x, Spawn(r)>> \o a
              L == Later(w, Born, {r}, n)
              F == First(w, Born, {r}, n)
  <2>1. /\ r \in Task \ Work /\ r \notin Born /\ row[r] = NoRow /\ cause[r] = 0
        /\ \A v \in AllWorkers : r \notin Own(v)
    BY <1>2 DEF Tables, Born, RecoveryInv, Newborn
  <2>2. /\ UNCHANGED <<cause, row, faults, phase, tracked, outside>>
        /\ state' \in [Task -> {"absent"} \cup Owed \cup Settled]
        /\ \A t \in Task : state'[t] = IF t = r THEN "pending" ELSE state[t]
    BY <1>2, <1>6 DEF DoCreate, Tables, TypeOK, Owed
  <2>3. x \in F /\ Spawn(r) \in L /\ L \subseteq L \cup F
    BY <1>3, <2>1, LaterSteps DEF First, Link
  <2>4. x.op = "link" /\ x.task = r /\ x.fault = s.fault
    BY DEF Link
  <2>. HIDE DEF x, L, F
  <2>5. /\ q \in Seq(L \cup F) /\ q # <<>> /\ Head(q) = x /\ Calm(q)
        /\ q \in Programs(L \cup F, L)
    <3>. DEFINE y == Spawn(r)
    <3>1. q = <<x, y>> \/ q = <<x, y, y>>
      BY Glue
    <3>2. NotFail(x) /\ NotFail(y)
      BY <2>4 DEF NotFail, Spawn
    <3>3. x \in L \cup F /\ y \in L \cup F /\ y \in L
      BY <2>3
    <3>. HIDE DEF y, q
    <3>4. q \in Seq(L \cup F) /\ Calm(q)
      <4>. DEFINE S == L \cup F
      <4>1. x \in S /\ y \in S
        BY <3>3
      <4>. HIDE DEF S
      <4>2. <<x, y>> \in Seq(S) /\ Calm(<<x, y>>)
        BY <3>2, <4>1, Short
      <4>3. <<x, y, y>> \in Seq(S) /\ Calm(<<x, y, y>>)
        BY <3>2, <4>1, Short
      <4>. QED
        BY <3>1, <4>2, <4>3 DEF S
    <3>5. q # <<>> /\ Head(q) = x
      BY <3>1
    <3>6. \A i \in 2..Len(q) : q[i] = y
      BY <3>1
    <3>. QED
      BY <3>3, <3>4, <3>5, <3>6 DEF Programs
  <2>6. /\ DOMAIN prog' = AllWorkers /\ prog'[w] = q \o Tail(prog[w])
        /\ \A v \in AllWorkers : v # w => prog'[v] = prog[v]
    <3>1. Then(w, q)
      BY <1>6 DEF x
    <3>. HIDE DEF q
    <3>. QED
      BY <3>1 DEF Then, RecoveryInv, Running
  <2>. HIDE DEF q
  <2>7. Own(w) = {} /\ prog[w] \in Programs(StepsOf(w), LaterOf(w))
        /\ LaterOf(w) \subseteq L
    <3>1. Own(w) = {}
      BY <1>1 DEF Own
    <3>2. Later(w, Born, {}, n) \subseteq L
      BY <1>2, StepsGrow DEF L
    <3>. QED
      BY <3>1, <3>2 DEF LaterOf, n, RecoveryInv, Running
  <2>8. prog'[w] \in Programs(L \cup F, L)
    BY <1>1, <2>3, <2>5, <2>6, <2>7, ProgramGoesOn
  <2>9. prog'[w] # <<>> /\ Head(prog'[w]) = x
    <3>. DEFINE T == StepsOf(w) \cup L \cup F
    <3>1. prog[w] \in Seq(T) /\ q \in Seq(T)
      <4>1. prog[w] \in Seq(StepsOf(w))
        BY <2>7 DEF Programs
      <4>. QED
        BY <2>5, <4>1, SeqMonotonic
    <3>. HIDE DEF T
    <3>2. Len(q) \in Nat \ {0} /\ Len(prog[w]) \in Nat \ {0}
      BY <1>1, <2>5, <3>1, EmptySeq
    <3>3. prog'[w] \in Seq(T) /\ Len(prog'[w]) > 0 /\ prog'[w][1] = q[1]
      BY <1>1, <2>6, <3>1, <3>2, Splice
    <3>4. prog'[w] # <<>>
      BY <3>3
    <3>. QED
      BY <2>5, <3>1, <3>3, <3>4, HeadTailProperties
  <2>10. /\ Own(w)' = {r}
         /\ \A v \in AllWorkers : v # w => Own(v)' = Own(v)
    BY <2>4, <2>6, <2>9 DEF Own, Runs
  <2>11. Born' = Born
    BY <2>1, <2>2, <2>7, <2>10 DEF Born
  <2>12. Running'
    <3>1. \A v \in AllWorkers : v # w => StepsOf(v)' = StepsOf(v) /\ LaterOf(v)' = LaterOf(v)
      BY <2>2, <2>10, <2>11 DEF StepsOf, LaterOf
    <3>2. StepsOf(w)' = L \cup F /\ LaterOf(w)' = L
      BY <2>2, <2>10, <2>11 DEF StepsOf, LaterOf, Steps, L, F, n
    <3>3. \A v \in AllWorkers : prog'[v] \in Programs(StepsOf(v)', LaterOf(v)')
      BY <2>6, <2>8, <3>1, <3>2 DEF RecoveryInv, Running
    <3>4. phase' \in {"boot", "up"} /\ (phase' = "up" => prog'["boot"] = <<>>)
      BY <1>2, <2>2, <2>6 DEF RecoveryInv, Running, AllWorkers
    <3>. QED
      BY <2>6, <3>3, <3>4 DEF Running
  <2>13. Tables'
    <3>1. phase = "boot" => \A v \in AllThreads : prog'[v] = <<>>
      BY <1>2, <2>6 DEF Tables, TypeOK, AllThreads, AllWorkers
    <3>2. TypeOK'
      BY <1>2, <2>2, <3>1 DEF Tables, TypeOK, outside
    <3>3. \A t \in Work : state'[t] # "absent"
      BY <1>2, <2>1, <2>2, RecoveryAssumption DEF Tables
    <3>. QED
      BY <1>2, <2>2, <2>11, <3>2, <3>3 DEF Tables, outside
  <2>14. Newborn'
    <3>1. \A v \in AllWorkers : Own(v) \subseteq Task
      <4>. SUFFICES ASSUME NEW v \in AllWorkers, Runs(v, "link")
                    PROVE  Head(prog[v]).task \in Task
        BY DEF Own
      <4>. QED
        BY Running1, StepFields DEF Runs
    <3>. QED
      BY <2>1, <2>2, <2>10, <3>1 DEF RecoveryInv, Newborn
  <2>15. Layered'
    <3>1. SingleLayer'
      BY <2>2 DEF RecoveryInv, Layered, SingleLayer
    <3>2. cause[faults[s.fault].task] = 0
      BY <1>1 DEF RecoveryInv, Layered, Runs, s
    <3>3. \A v \in AllWorkers : (Runs(v, "create") \/ Runs(v, "link"))'
            => cause[faults[Head(prog'[v]).fault].task] = 0
      BY <2>4, <2>6, <2>9, <3>2 DEF RecoveryInv, Layered, Runs
    <3>. QED
      BY <2>2, <3>1, <3>3 DEF Layered
  <2>16. Once'
    <3>1. \A t, kind, g : Queued(t, kind, g)' <=> Queued(t, kind, g)
      BY <2>2 DEF Queued
    <3>2. FaultOnce'
      BY <2>2 DEF RecoveryInv, Once, FaultOnce
    <3>3. ASSUME NEW v \in AllWorkers, Runs(v, "insert")', Head(prog'[v]).kind \in RecoveryKind
          PROVE  ~Twice(v)'
      <4>1. v # w /\ prog'[v] = prog[v] /\ Runs(v, "insert")
        BY <2>4, <2>6, <2>9, <3>3 DEF Runs
      <4>2. ~Twice(v)
        BY <3>3, <4>1 DEF RecoveryInv, Once
      <4>. QED
        BY <3>1, <4>1, <4>2 DEF Twice
    <3>. QED
      BY <3>2, <3>3 DEF Once
  <2>17. LossInv'
    <3>1. \A u \in Work : Told(u) => Told(u)'
      BY <2>1, <2>2, RecoveryAssumption DEF Told
    <3>. DEFINE T == StepsOf(w) \cup L \cup F
    <3>2. prog[w] \in Seq(T) /\ q \in Seq(T)
      <4>1. prog[w] \in Seq(StepsOf(w))
        BY <2>7 DEF Programs
      <4>. QED
        BY <2>5, <4>1, SeqMonotonic
    <3>. HIDE DEF T
    <3>. QED
      BY <1>1, <2>5, <2>6, <3>1, <3>2, LossOne DEF RecoveryInv
  <2>. QED
    BY <2>12, <2>13, <2>14, <2>15, <2>16, <2>17 DEF RecoveryInv
<1>. QED
  BY <1>4, <1>5, <1>6

LEMMA LinkStep ==
    ASSUME RecoveryInv, LossInv, NEW w \in AllWorkers, DoLink(w)
    PROVE  RecoveryInv' /\ LossInv'
<1>. DEFINE s == Head(prog[w])
            n == Len(faults)
            f == s.fault
            r == s.task
            L == Later(w, Born \cup {r}, {}, n)
<1>1. /\ prog[w] # <<>> /\ s.op = "link" /\ Own(w) = {r}
      /\ ~Runs(w, "record") /\ ~Runs(w, "insert")
  BY DEF DoLink, Runs, Own
<1>2. /\ s \in Steps(w, Born, Own(w), n) /\ Tables /\ Born \subseteq Task /\ n \in Nat
      /\ phase = "boot" <=> w = "boot"
  BY <1>1, Running1 DEF RecoveryInv
<1>3. f \in 1..n /\ r \in Task \ Work /\ r \notin Born
  BY <1>1, <1>2, StepFields DEF Born
<1>4. state[r] = "pending" /\ \A v \in AllWorkers : v # w => r \notin Own(v)
  BY <1>1 DEF RecoveryInv, Newborn
<1>5. faults \in Seq(Fault) /\ DOMAIN faults = 1..n /\ \A h \in 1..n : faults[h] \in Fault
  BY <1>2, FaultsDomain DEF Tables, TypeOK
<1>6. cause[faults[f].task] = 0
  BY <1>1 DEF RecoveryInv, Layered, Runs
<1>. HIDE DEF s, n
<1>7. /\ faults' = [faults EXCEPT ![f].recovery = r, ![f].state = "recovery_created"]
      /\ cause' = [cause EXCEPT ![r] = f] /\ Then(w, <<>>)
      /\ UNCHANGED <<state, row, phase, tracked, outside>>
  BY DEF DoLink, s
<1>8. /\ \A h \in 1..n :
           /\ faults'[h] \in Fault
           /\ faults'[h].task = faults[h].task
           /\ faults'[h].kind = faults[h].kind
           /\ faults'[h].gen = faults[h].gen
           /\ faults'[h].recovery = IF h = f THEN r ELSE faults[h].recovery
      /\ DOMAIN faults' = 1..n
  <2>. SUFFICES ASSUME NEW h \in 1..n
                PROVE  /\ faults'[h] \in Fault
                       /\ faults'[h].task = faults[h].task
                       /\ faults'[h].kind = faults[h].kind
                       /\ faults'[h].gen = faults[h].gen
                       /\ faults'[h].recovery = IF h = f THEN r ELSE faults[h].recovery
    BY <1>5, <1>7
  <2>1. faults'[h] = IF h = f THEN [faults[h] EXCEPT !.recovery = r,
                                                   !.state = "recovery_created"]
                     ELSE faults[h]
    BY <1>5, <1>7
  <2>2. faults[h] \in Fault /\ r \in Task
    BY <1>3, <1>5
  <2>. HIDE DEF r, f
  <2>3. CASE h = f
    BY <2>1, <2>2, <2>3 DEF Fault
  <2>4. CASE h # f
    BY <2>1, <2>2, <2>4
  <2>. QED
    BY <2>3, <2>4
<1>9. faults' \in Seq(Fault) /\ Len(faults') = n
  <2>1. faults' \in [1..n -> Fault]
    BY <1>5, <1>7, <1>8
  <2>2. faults' \in Seq(Fault)
    BY <1>2, <2>1, SeqDef
  <2>. QED
    BY <1>2, <1>8, <2>2, LenProperties
<1>10. /\ DOMAIN prog' = AllWorkers /\ prog'[w] = <<>> \o Tail(prog[w])
       /\ \A v \in AllWorkers : v # w => prog'[v] = prog[v]
  BY <1>7 DEF Then, RecoveryInv, Running
<1>11. prog[w] \in Programs(StepsOf(w), LaterOf(w)) /\ LaterOf(w) \subseteq L
  <2>1. Later(w, Born, {r}, n) \subseteq L
    BY <1>2, StepsGrow DEF L
  <2>. QED
    BY <1>1, <2>1 DEF LaterOf, RecoveryInv, Running, n
<1>. HIDE DEF L
<1>12. prog'[w] \in Programs(L, L)
  <2>. DEFINE q == <<>>
  <2>1. q \in Programs(L, L)
    BY DEF Programs
  <2>2. prog'[w] = q \o Tail(prog[w])
    BY <1>10
  <2>. HIDE DEF q
  <2>. QED
    BY <1>1, <1>11, <2>1, <2>2, ProgramGoesOn
<1>13. ~Runs(w, "insert")' /\ ~Runs(w, "create")' /\ ~Runs(w, "link")'
  BY <1>12, ProgramHead, LaterOps DEF Runs, L
<1>14. /\ Own(w)' = {}
       /\ \A v \in AllWorkers : v # w => Own(v)' = Own(v)
  BY <1>10, <1>13 DEF Own, Runs
<1>15. Born' = Born \cup {r}
  BY <1>1, <1>3, <1>4, <1>7, <1>14 DEF Born
<1>16. Running'
  <2>1. ASSUME NEW v \in AllWorkers, v # w, prog[v] \in Programs(StepsOf(v), LaterOf(v))
        PROVE  prog'[v] \in Programs(StepsOf(v)', LaterOf(v)')
    <3>. DEFINE O == Own(v)
    <3>1. /\ Later(v, Born, O, n) \subseteq Later(v, Born \cup {r}, O, n)
          /\ First(v, Born, O, n) \subseteq First(v, Born \cup {r}, O, n)
      BY <1>2, StepsGrow
    <3>2. StepsOf(v) \subseteq StepsOf(v)' /\ LaterOf(v) \subseteq LaterOf(v)'
      BY <1>9, <1>14, <1>15, <2>1, <3>1 DEF StepsOf, LaterOf, Steps, n
    <3>3. prog'[v] = prog[v]
      BY <1>10, <2>1
    <3>. QED
      BY <2>1, <3>2, <3>3, ProgramsGrow
  <2>2. prog'[w] \in Programs(StepsOf(w)', LaterOf(w)')
    <3>1. LaterOf(w)' = L /\ L \subseteq StepsOf(w)'
      BY <1>9, <1>14, <1>15 DEF StepsOf, LaterOf, Steps, L, n
    <3>. QED
      BY <1>12, <3>1, ProgramsGrow
  <2>3. \A v \in AllWorkers : prog'[v] \in Programs(StepsOf(v)', LaterOf(v)')
    BY <2>1, <2>2 DEF RecoveryInv, Running
  <2>4. phase' \in {"boot", "up"} /\ (phase' = "up" => prog'["boot"] = <<>>)
    BY <1>2, <1>7, <1>10 DEF RecoveryInv, Running, AllWorkers
  <2>. QED
    BY <1>10, <2>3, <2>4 DEF Running
<1>17. \A t \in Task : cause'[t] = IF t = r THEN f ELSE cause[t]
  BY <1>2, <1>7 DEF Tables, TypeOK
<1>18. \A h \in 1..n : faults[h].task \in Born /\ faults[h].task # r
  BY <1>2, <1>3, <1>5 DEF Tables
<1>19. Tables'
  <2>1. phase = "boot" => \A v \in AllThreads : prog'[v] = <<>>
    BY <1>2, <1>10 DEF Tables, TypeOK, AllThreads, AllWorkers
  <2>2. cause' \in [Task -> 0..n]
    BY <1>2, <1>3, <1>7 DEF Tables, TypeOK, n
  <2>3. TypeOK'
    BY <1>2, <1>7, <1>9, <2>1, <2>2 DEF Tables, TypeOK, outside
  <2>4. ASSUME NEW h \in DOMAIN faults'
        PROVE  /\ faults'[h].task \in Born'
               /\ faults'[h].recovery # NoTask => faults'[h].recovery \in Born' \ Work
    BY <1>2, <1>3, <1>5, <1>8, <1>15, <1>18 DEF Tables
  <2>5. \A t \in Task : row'[t] # NoRow \/ cause'[t] # 0 => t \in Born'
    BY <1>2, <1>7, <1>15, <1>17 DEF Tables
  <2>. QED
    BY <1>2, <1>7, <2>3, <2>4, <2>5 DEF Tables, outside
<1>20. Newborn'
  BY <1>7, <1>14 DEF RecoveryInv, Newborn
<1>21. Layered'
  <2>1. \A t \in Task : cause[t] # 0 => cause[t] \in 1..n
    BY <1>2 DEF Tables, TypeOK, n
  <2>2. \A h \in 1..n : cause'[faults'[h].task] = cause[faults[h].task]
    BY <1>2, <1>8, <1>17, <1>18
  <2>3. SingleLayer'
    BY <1>3, <1>6, <1>17, <2>1, <2>2 DEF RecoveryInv, Layered, SingleLayer
  <2>4. ASSUME NEW v \in AllWorkers, (Runs(v, "create") \/ Runs(v, "link"))'
        PROVE  cause'[faults'[Head(prog'[v]).fault].task] = 0
    <3>1. v # w /\ prog'[v] = prog[v] /\ (Runs(v, "create") \/ Runs(v, "link"))
      BY <1>10, <1>13, <2>4 DEF Runs
    <3>2. Head(prog[v]).fault \in 1..n
      BY <3>1, Running1, StepFields DEF Runs, n
    <3>. QED
      BY <2>2, <3>1, <3>2 DEF RecoveryInv, Layered
  <2>. QED
    BY <2>3, <2>4 DEF Layered
<1>22. Once'
  <2>1. \A t, kind, g : Queued(t, kind, g)' <=> Queued(t, kind, g)
    BY <1>5, <1>8 DEF Queued
  <2>2. FaultOnce'
    BY <1>5, <1>8 DEF RecoveryInv, Once, FaultOnce
  <2>3. ASSUME NEW v \in AllWorkers, Runs(v, "insert")', Head(prog'[v]).kind \in RecoveryKind
        PROVE  ~Twice(v)'
    <3>1. v # w /\ prog'[v] = prog[v] /\ Runs(v, "insert")
      BY <1>10, <1>13, <2>3 DEF Runs
    <3>2. ~Twice(v)
      BY <2>3, <3>1 DEF RecoveryInv, Once
    <3>. QED
      BY <2>1, <3>1, <3>2 DEF Twice
  <2>. QED
    BY <2>2, <2>3 DEF Once
<1>23. LossInv'
  <2>1. \A u \in Work : Told(u) => Told(u)'
    BY <1>5, <1>7, <1>8 DEF Told
  <2>2. prog[w] \in Seq(StepsOf(w))
    BY <1>11 DEF Programs
  <2>. QED
    BY <1>1, <1>10, <2>1, <2>2, Empty, LossOne DEF RecoveryInv
<1>. QED
  BY <1>16, <1>19, <1>20, <1>21, <1>22, <1>23 DEF RecoveryInv

-----------------------------------------------------------------------------
(***************************************************************************)
(* Threads that begin, the world, and the lives of the scheduler.          *)
(***************************************************************************)

LEMMA BeginSteps ==
    ASSUME RecoveryInv, LossInv, NEW w \in Threads, StartPass(w) \/ Hear(w) \/ Ask(w)
    PROVE  RecoveryInv' /\ LossInv'
<1>. DEFINE L == Later(w, Born, {}, Len(faults))
<1>1. /\ prog[w] = <<>> /\ phase = "up" /\ w \in AllWorkers /\ w # "boot"
      /\ Tables /\ Running
  BY RecoveryAssumption
     DEF StartPass, Hear, Ask, Idle, AllWorkers, AllThreads, RecoveryInv
<1>2. Steady
  <2>1. tab' = tab /\ said' = said /\ UNCHANGED <<ledger, row, faults, phase, tracked>>
    BY DEF StartPass, Hear, Ask, outside
  <2>. QED
    BY <1>1, <2>1, SteadyRest DEF Tables, TypeOK
<1>3. \E p \in Seq(L) : /\ prog' = [prog EXCEPT ![w] = p] /\ NotFail(p[1])
                        /\ Len(p) = 1 \/ (Len(p) = 2 /\ NotFail(p[2]))
  <2>1. CASE StartPass(w)
    <3>1. List \in L /\ Sweep \in L
      BY <2>1, LaterStepsOf DEF StartPass, Keepers
    <3>2. <<Sweep, List>> \in Seq(L)
      BY <3>1, Short
    <3>3. NotFail(Sweep) /\ NotFail(List)
      BY DEF NotFail, Sweep, List
    <3>4. prog' = [prog EXCEPT ![w] = <<Sweep, List>>]
      BY <2>1 DEF StartPass, Begin
    <3>. HIDE DEF L
    <3>. QED
      BY <3>2, <3>3, <3>4
  <2>2. CASE Hear(w)
    <3>1. PICK m \in said : Begin(w, IF m.kind \in Results THEN <<Out(m)>> ELSE <<Report(m)>>)
      BY <2>2 DEF Hear
    <3>2. /\ m \in Frame(Frames \cup Results) /\ m.task \in Born
      BY <1>1, <3>1 DEF Tables, Frame
    <3>3. Out(m).task = m.task
      BY DEF Out
    <3>4. m.kind \in Results => Out(m) \in L
      <4>1. m.kind \in Results => m \in Frame(Results)
        BY <3>2 DEF Frame
      <4>. QED
        BY <3>2, <3>3, <4>1, LaterSteps
    <3>5. m.kind \notin Results => Report(m) \in L
      <4>1. m.kind \notin Results => m \in Frame(ReportKind)
        BY <3>2, RecoveryAssumption DEF Frame
      <4>2. w = "pump"
        BY <2>2 DEF Hear
      <4>. QED
        BY <3>2, <4>1, <4>2, LaterStepsOf
    <3>6. NotFail(Out(m)) /\ NotFail(Report(m))
      BY DEF NotFail, Out, Report
    <3>. HIDE DEF L
    <3>7. PICK x \in L : NotFail(x) /\ prog' = [prog EXCEPT ![w] = <<x>>]
      BY <3>1, <3>4, <3>5, <3>6 DEF Begin
    <3>8. <<x>> \in Seq(L) /\ Len(<<x>>) = 1 /\ <<x>>[1] = x
      BY Short
    <3>. QED
      BY <3>7, <3>8
  <2>3. CASE Ask(w)
    <3>1. PICK t \in Task, order \in Orders : Begin(w, <<Repair(t, order)>>)
      BY <2>3 DEF Ask
    <3>. DEFINE x == Repair(t, order)
    <3>2. x \in L
      BY <2>3, LaterStepsOf DEF Ask
    <3>3. NotFail(x)
      BY DEF NotFail, Repair
    <3>4. prog' = [prog EXCEPT ![w] = <<x>>]
      BY <3>1 DEF Begin
    <3>. HIDE DEF x, L
    <3>5. <<x>> \in Seq(L) /\ Len(<<x>>) = 1 /\ <<x>>[1] = x
      BY <3>2, Short
    <3>. QED
      BY <3>3, <3>4, <3>5
  <2>. QED
    BY <2>1, <2>2, <2>3
<1>4. PICK p \in Seq(L) : /\ prog' = [prog EXCEPT ![w] = p] /\ NotFail(p[1])
                          /\ Len(p) = 1 \/ (Len(p) = 2 /\ NotFail(p[2]))
  BY <1>3
<1>5. /\ DOMAIN prog' = AllWorkers /\ prog'[w] = p
      /\ \A v \in AllWorkers : v # w => prog'[v] = prog[v]
  BY <1>1, <1>4 DEF Running
<1>6. ~Runs(w, "link")
  BY <1>1 DEF Runs
<1>7. Renewed(w)
  BY <1>1, <1>4, <1>5, <1>6 DEF Renewed
<1>8. RecoveryInv'
  BY <1>2, <1>5, <1>7, Ordinary DEF RecoveryInv
<1>9. LossInv'
  <2>1. \A u \in Work : Told(u) => Told(u)'
    BY <1>1, <1>2, ToldStays
  <2>. SUFFICES ASSUME NEW v \in Keepers, NEW t \in Work,
                       NEW i \in 1..(Len(prog'[v]) - 1), FailsAt(prog'[v], i, t)
                PROVE  Told(t)' \/ (i = 2 /\ Tells(prog'[v], t))
    BY DEF LossInv
  <2>2. CASE v = w
    <3>1. i = 1 /\ p[1] = Feed(t, "fail")
      BY <1>4, <1>5, <2>2 DEF FailsAt
    <3>. QED
      BY <1>4, <3>1 DEF NotFail, Feed
  <2>3. CASE v # w
    <3>1. prog'[v] = prog[v]
      BY <1>5, <2>3 DEF Keepers, AllWorkers, AllThreads
    <3>. QED
      BY <2>1, <3>1 DEF LossInv
  <2>. QED
    BY <2>2, <2>3
<1>. QED
  BY <1>8, <1>9

LEMMA WorldSteps ==
    ASSUME RecoveryInv, LossInv, NEW t \in Task, Speak(t) \/ TabDies(t) \/ TabFlips(t)
    PROVE  RecoveryInv' /\ LossInv'
<1>1. UNCHANGED <<ledger, row, faults, prog, phase, tracked>>
  BY DEF Speak, TabDies, TabFlips
<1>2. Tables /\ Running
  BY DEF RecoveryInv
<1>3. tab' \in [Task -> {"none", "open", "detached", "gone"}]
  BY <1>2 DEF Speak, TabDies, TabFlips, Tables, TypeOK
<1>4. said' \subseteq {m \in Frame(Frames \cup Results) : row[m.task] # NoRow}
  <2>1. CASE Speak(t)
    <3>1. row[t] # NoRow /\ row[t].gen \in Nat
      BY <1>2, <2>1 DEF Speak, Tables, LegalRows, Row, Observation
    <3>2. \A kind \in Frames, s \in FrameSeq :
            [task |-> t, kind |-> kind, gen |-> row[t].gen, seq |-> s]
              \in Frame(Frames \cup Results)
      BY <3>1, RecoveryAssumption DEF Frame
    <3>3. \A kind \in Results :
            [task |-> t, kind |-> kind, gen |-> 0, seq |-> 0] \in Frame(Frames \cup Results)
      BY DEF Frame
    <3>4. PICK m : /\ m \in Frame(Frames \cup Results) /\ m.task = t
                   /\ said' = said \cup {m}
      BY <2>1, <3>2, <3>3 DEF Speak
    <3>. QED
      BY <1>2, <3>1, <3>4 DEF Tables
  <2>2. CASE TabDies(t) \/ TabFlips(t)
    <3>1. said' = said
      BY <2>2 DEF TabDies, TabFlips
    <3>. QED
      BY <1>2, <3>1 DEF Tables
  <2>. QED
    BY <2>1, <2>2
<1>5. Steady
  BY <1>1, <1>2, <1>3, <1>4 DEF Tables, TypeOK, Steady, ledger
<1>6. RecoveryInv'
  BY <1>1, <1>5, Ordinary DEF RecoveryInv, Running
<1>7. \A u \in Work : Told(u) => Told(u)'
  BY <1>2, <1>5, ToldStays
<1>8. LossInv'
  BY <1>1, <1>2, <1>7, LossGoesOn
<1>. QED
  BY <1>6, <1>8

\* Programs and maps are lost: what a thread was about to do is not done, and
\* the recovery it was about to link stays a task like any other.
LEMMA CrashStep ==
    ASSUME RecoveryInv, LossInv, Crash
    PROVE  RecoveryInv' /\ LossInv'
<1>. DEFINE p == <<List, Reap>>
            B == {t \in Task : state[t] # "absent"}
            L == Later("boot", B, {}, Len(faults))
<1>1. /\ UNCHANGED <<state, cause, row, faults, tab, said>>
      /\ phase' = "boot" /\ tracked' = {}
      /\ DOMAIN prog' = AllWorkers /\ prog'["boot"] = p
      /\ \A w \in AllWorkers : w # "boot" => prog'[w] = <<>>
  BY DEF Crash, ledger, AllWorkers
<1>2. List.op = "list" /\ Reap.op = "reap" /\ Head(p) = List /\ Len(p) = 2 /\ p[1] = List
  BY DEF List, Reap
<1>3. p \in Seq(L)
  <2>1. List \in L /\ Reap \in L
    BY LaterStepsOf DEF Keepers
  <2>. QED
    BY <2>1, Short
<1>. HIDE DEF p
<1>4. \A w \in AllWorkers : \A op \in {"insert", "create", "link"} : ~Runs(w, op)'
  BY <1>1, <1>2 DEF Runs
<1>5. \A w \in AllWorkers : Own(w)' = {}
  BY <1>4 DEF Own
<1>6. Born' = B /\ Born \subseteq B
  BY <1>1, <1>5 DEF Born
<1>. HIDE DEF B
<1>7. Tables'
  <2>1. TypeOK'
    BY <1>1 DEF RecoveryInv, Tables, TypeOK, AllThreads, AllWorkers
  <2>. QED
    BY <1>1, <1>6, <2>1 DEF RecoveryInv, Tables
<1>8. Running'
  <2>1. prog'["boot"] \in Programs(StepsOf("boot")', LaterOf("boot")')
    <3>1. LaterOf("boot")' = L /\ L \subseteq StepsOf("boot")'
      BY <1>1, <1>5, <1>6 DEF StepsOf, LaterOf, Steps, L, AllWorkers
    <3>. HIDE DEF L
    <3>. QED
      BY <1>1, <1>3, <3>1, SeqIsProgram
  <2>2. \A S, M : <<>> \in Programs(S, M)
    BY DEF Programs
  <2>3. \A w \in AllWorkers : prog'[w] \in Programs(StepsOf(w)', LaterOf(w)')
    BY <1>1, <2>1, <2>2
  <2>. QED
    BY <1>1, <2>3 DEF Running
<1>9. Newborn' /\ Layered' /\ Once'
  <2>1. SingleLayer' /\ FaultOnce'
    BY <1>1 DEF RecoveryInv, Layered, Once, SingleLayer, FaultOnce
  <2>. QED
    BY <1>4, <1>5, <2>1 DEF Newborn, Layered, Once
<1>10. LossInv'
  <2>. SUFFICES ASSUME NEW w \in Keepers, NEW t \in Work,
                       NEW i \in 1..(Len(prog'[w]) - 1), FailsAt(prog'[w], i, t)
                PROVE  FALSE
    BY DEF LossInv
  <2>1. w \in AllWorkers
    BY DEF Keepers, AllWorkers, AllThreads
  <2>2. CASE w = "boot"
    <3>1. i = 1 /\ prog'[w][i] = List
      <4>1. prog'[w] = p
        BY <1>1, <2>2
      <4>2. i \in 1..(2 - 1)
        BY <1>2, <4>1
      <4>3. i = 1
        BY <4>2
      <4>. QED
        BY <1>2, <4>1, <4>3
    <3>2. prog'[w][i].op = "feed"
      BY DEF FailsAt, Feed
    <3>. QED
      BY <1>2, <3>1, <3>2
  <2>3. CASE w # "boot"
    <3>1. Len(prog'[w]) = 0
      BY <1>1, <2>1, <2>3
    <3>. QED
      BY <3>1
  <2>. QED
    BY <2>2, <2>3
<1>. QED
  BY <1>7, <1>8, <1>9, <1>10 DEF RecoveryInv

\* Nothing the invariants speak of but the phase.
LEMMA SameStep ==
    ASSUME RecoveryInv, LossInv, Booted \/ UNCHANGED vars
    PROVE  RecoveryInv' /\ LossInv'
<1>1. /\ UNCHANGED <<state, cause, row, faults, prog, tracked, tab, said>>
      /\ phase' = phase \/ (phase' = "up" /\ prog["boot"] = <<>>)
  BY DEF Booted, vars, ledger, outside
<1>2. \A w \in AllWorkers : Own(w)' = Own(w)
  BY <1>1 DEF Own, Runs
<1>3. Born' = Born
  BY <1>1, <1>2 DEF Born
<1>4. Tables'
  <2>1. TypeOK'
    BY <1>1 DEF RecoveryInv, Tables, TypeOK
  <2>. QED
    BY <1>1, <1>3, <2>1 DEF RecoveryInv, Tables
<1>5. Running'
  <2>1. \A w \in AllWorkers : StepsOf(w)' = StepsOf(w) /\ LaterOf(w)' = LaterOf(w)
    BY <1>1, <1>2, <1>3 DEF StepsOf, LaterOf
  <2>. QED
    BY <1>1, <2>1 DEF RecoveryInv, Running
<1>6. Newborn'
  BY <1>1, <1>2 DEF RecoveryInv, Newborn
<1>7. Layered' /\ Once'
  BY <1>1 DEF RecoveryInv, Layered, Once, SingleLayer, FaultOnce, Runs, Twice, Queued
<1>8. LossInv'
  BY <1>1 DEF LossInv, Told, FailsAt, Tells
<1>. QED
  BY <1>4, <1>5, <1>6, <1>7, <1>8 DEF RecoveryInv

LEMMA RecoveryInit == Init => RecoveryInv /\ LossInv
<1>. SUFFICES ASSUME Init PROVE RecoveryInv /\ LossInv
  OBVIOUS
<1>1. /\ DOMAIN prog = AllWorkers /\ \A w \in AllWorkers : prog[w] = <<>>
      /\ Work \subseteq Task
  BY RecoveryAssumption DEF Init
<1>2. \A w, op : w \in AllWorkers => ~Runs(w, op)
  BY <1>1 DEF Runs
<1>3. \A w \in AllWorkers : Own(w) = {}
  BY <1>2 DEF Own
<1>4. Born = Work
  BY <1>1, <1>3 DEF Born, Init
<1>5. Dispatched \in LegalRows /\ NoRow \in LegalRows
  <2>1. NoRow \in LegalRows
    BY DEF LegalRows, Row
  <2>2. "created" \in FeedKind /\ "resource_attach" \in FeedKind
    BY DEF FeedKind
  <2>3. FedNext(NoRow, "created") \in LegalRows
    BY <2>1, <2>2, FedNextStays
  <2>. QED
    BY <2>1, <2>2, <2>3, FedNextStays DEF Dispatched
<1>6. row \in [Task -> LegalRows]
  BY <1>5 DEF Init
<1>7. faults = <<>> /\ faults \in Seq(Fault) /\ DOMAIN faults = {} /\ Len(faults) = 0
  BY DEF Init
<1>8. Tables
  <2>1. TypeOK
    <3>1. row \in [Task -> Row]
      BY <1>6 DEF LegalRows
    <3>2. cause \in [Task -> 0..Len(faults)]
      BY <1>7 DEF Init
    <3>3. /\ state \in [Task -> {"absent"} \cup Owed \cup Settled]
          /\ tracked \subseteq Task
          /\ tab \in [Task -> {"none", "open", "detached", "gone"}]
          /\ phase = "up"
      BY <1>1 DEF Init, Owed
    <3>. QED
      BY <1>7, <3>1, <3>2, <3>3 DEF TypeOK
  <2>2. /\ \A t \in Work : state[t] # "absent"
        /\ \A t \in Task : row[t] # NoRow \/ cause[t] # 0 => t \in Born
    BY <1>1, <1>4 DEF Init
  <2>3. said = {}
    BY DEF Init
  <2>. QED
    BY <1>6, <1>7, <2>1, <2>2, <2>3 DEF Tables
<1>9. Running
  <2>1. \A S, M : <<>> \in Programs(S, M)
    BY DEF Programs
  <2>. QED
    BY <1>1, <2>1 DEF Running, Init, AllWorkers
<1>10. Newborn /\ Layered /\ Once
  <2>1. SingleLayer /\ FaultOnce
    BY <1>7 DEF SingleLayer, FaultOnce, Init
  <2>. QED
    BY <1>2, <1>3, <2>1 DEF Newborn, Layered, Once
<1>11. LossInv
  <2>1. \A w \in Keepers : Len(prog[w]) = 0
    BY <1>1 DEF Keepers, AllWorkers, AllThreads
  <2>2. \A w \in Keepers : 1..(Len(prog[w]) - 1) = {}
    BY <2>1
  <2>. QED
    BY <2>2 DEF LossInv
<1>. QED
  BY <1>8, <1>9, <1>10, <1>11 DEF RecoveryInv

LEMMA RecoveryNext == RecoveryInv /\ LossInv /\ [Next]_vars => RecoveryInv' /\ LossInv'
<1>. SUFFICES ASSUME RecoveryInv, LossInv, [Next]_vars PROVE RecoveryInv' /\ LossInv'
  OBVIOUS
<1>1. ASSUME NEW w \in AllWorkers, Goes(w) PROVE RecoveryInv' /\ LossInv'
  <2>1. CASE DoDead(w)
    BY <2>1, DeadStep
  <2>2. CASE FaultStep(w)
    BY <2>2, RecordStep, InsertStep, RecoverStep, CreateStep, LinkStep DEF FaultStep
  <2>3. CASE SessionStep(w) \/ (PassStep(w) /\ ~DoDead(w)) \/ TaskStep(w)
               \/ RepairStep(w) \/ ProbeAnswers(w) \/ ProbeUnknown(w)
    <3>1. PassStep(w) /\ ~DoDead(w) => ~Runs(w, "dead")
      BY DEF PassStep, DoList, DoLook, DoReread, DoMismatch, Runs
    <3>2. Steady /\ Moves(w) /\ ~Runs(w, "record") /\ ~Runs(w, "insert")
      BY <2>3, <3>1, SessionSteps, PassSteps, TaskSteps, RepairSteps
    <3>. QED
      BY <3>2, OrdinaryStep, LossStep
  <2>. QED
    BY <1>1, <2>1, <2>2, <2>3 DEF Goes
<1>2. ASSUME NEW w \in Threads, StartPass(w) \/ Hear(w) \/ Ask(w)
      PROVE  RecoveryInv' /\ LossInv'
  BY <1>2, BeginSteps
<1>3. ASSUME NEW t \in Task, Speak(t) \/ TabDies(t) \/ TabFlips(t)
      PROVE  RecoveryInv' /\ LossInv'
  BY <1>3, WorldSteps
<1>. QED
  BY <1>1, <1>2, <1>3, CrashStep, SameStep DEF Next

-----------------------------------------------------------------------------
(***************************************************************************)
(* What holds of every behaviour.                                          *)
(***************************************************************************)

\* The invariants of the tables and the programs (record_fault,
\* open_recovery_task, link_fault_recovery, reconcile_dead).
THEOREM RecoveryHolds == Spec => [](RecoveryInv /\ LossInv)
BY RecoveryInit, RecoveryNext, PTL DEF Spec

\* Rows, faults and links stay what the tables can hold, with every thread,
\* every repair and every crash in between.
THEOREM RecoveryTypes == Spec => []TypeOK
<1>1. RecoveryInv /\ LossInv => TypeOK
  BY DEF RecoveryInv, Tables
<1>. QED
  BY <1>1, RecoveryHolds, PTL

\* No recovery is ever recovered: the fault a recovery answers for is about
\* work that is none, although the gate and the link are steps apart
\* (open_recovery_task, link_fault_recovery).
THEOREM RecoveriesStayOneLayer == Spec => []SingleLayer
<1>1. RecoveryInv /\ LossInv => SingleLayer
  BY DEF RecoveryInv, Layered
<1>. QED
  BY <1>1, RecoveryHolds, PTL

\* record_fault queues no generation twice for one kind of lost work, although
\* it looks and inserts in two statements.
THEOREM FaultsQueuedOnce == Spec => []FaultOnce
<1>1. RecoveryInv /\ LossInv => FaultOnce
  BY DEF RecoveryInv, Once
<1>. QED
  BY <1>1, RecoveryHolds, PTL

\* reconcile_dead never fails a session whose loss is neither in the queue nor
\* settled, wherever another thread or a crash comes in between.
THEOREM NoSilentLoss == Spec => LossIsQueued
<1>1. ASSUME RecoveryInv, LossInv, NEW w \in AllWorkers, NEW t \in Work, FailsLost(w, t)
      PROVE  Told(t)
  <2>1. w \in Keepers /\ Len(prog[w]) > 1
        /\ SubSeq(prog[w], 1, 2) = <<Feed(t, "fail"), Feed(t, "agent_gone")>>
    BY <1>1 DEF FailsLost, Keepers
  <2>2. prog[w] \in Seq(StepsOf(w)) /\ Len(prog[w]) \in Nat
    BY <1>1, LenProperties DEF RecoveryInv, Running, Programs
  <2>3. SubSeq(prog[w], 1, 2)[1] = prog[w][1] /\ SubSeq(prog[w], 1, 2)[2] = prog[w][2]
    BY <2>1, <2>2, SubSeqProperties
  <2>4. FailsAt(prog[w], 1, t) /\ 1 \in 1..(Len(prog[w]) - 1)
    <3>. DEFINE a == Feed(t, "fail")
                b == Feed(t, "agent_gone")
                c == SubSeq(prog[w], 1, 2)
    <3>1. c = <<a, b>> /\ prog[w][1] = c[1] /\ prog[w][2] = c[2]
      BY <2>1, <2>3
    <3>. HIDE DEF a, b, c
    <3>2. prog[w][1] = a /\ prog[w][2] = b
      BY <3>1
    <3>3. 1 \in 1..(Len(prog[w]) - 1) /\ 1 + 1 = 2
      BY <2>1, <2>2
    <3>. QED
      BY <3>2, <3>3 DEF FailsAt, a, b
  <2>. QED
    BY <1>1, <2>1, <2>4 DEF LossInv
<1>2. RecoveryInv /\ LossInv =>
        \A w \in AllWorkers, t \in Work :
          Fails(w, t) =>
            \/ state[t] \in Settled
            \/ \E f \in DOMAIN faults :
                 faults[f].task = t /\ faults[f].kind \in RecoveryKind
  BY <1>1 DEF Fails, Told
<1>. QED
  BY <1>2, RecoveryHolds, PTL DEF LossIsQueued

=============================================================================
