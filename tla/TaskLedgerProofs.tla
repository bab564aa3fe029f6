-------------------------- MODULE TaskLedgerProofs --------------------------
(***************************************************************************)
(* Proofs about TaskLedger: its types and that a busy hop has its payload, *)
(* for any threads; and, for the pump by itself, that settled tasks stay   *)
(* settled, that no owed task is forgotten, that one tab works for one     *)
(* task, and that a result is told once and as its row has it.             *)
(***************************************************************************)
EXTENDS TaskLedger, TLAPS, SequenceTheorems, FiniteSetTheorems

\* The tasks with a row, and those whose payload arrived.
Born == {t \in Task : state[t] # "absent"}
Delivered == {t \in Task : holder[t] # NoHandle}

\* The handles that stand for a tab.
Used == {h \in Handle : tab[h] # "unused"}

Origins == {"inbound", "submit", "retry", "ready"}

\* The hops a session may tell of.
Hops == {"idle"} \cup (IF "busy" \in Speech THEN {"busy"} ELSE {})
Pendings == {FALSE} \cup (IF "idle_pending_exit" \in Speech THEN {TRUE} ELSE {})

Steps(B, D, U) ==
    [op : {"reserve", "pop_idle", "spawn"}, task : B, origin : Origins]
      \cup [op : {"bind", "claim"}, task : B, handle : U]
      \cup [op : {"send"}, task : B, handle : U, origin : Origins]
      \cup [op : {"land"}, task : D, handle : U]
      \cup [op : {"replay", "scan"}, handle : U]
      \cup [op : {"match"}, handle : U, owed : SUBSET B, fresh : SUBSET Task]
      \cup [op : {"set_state"}, task : B, state : Settled \cup {"running"}]
      \cup [op : {"record"}, task : B, state : Result]
      \cup [op : {"unbind", "early_exit", "handshake", "stalled"}, task : B]
      \cup [op : {"close_tab", "reap", "busy_probe"}, task : B,
            handle : U \cup {NoHandle, Blob}]
      \cup [op : {"probe"}, task : B, handle : U, attempt : Nat]
      \cup [op : {"retry"}, task : B, attempt : Nat]
      \cup [op : {"set_hop"}, task : D, state : Hops, pending : Pendings]
      \cup [op : {"sweep", "replay_waiting", "busy", "timeouts"}]

Events(D, U) ==
    [kind : {"ready"}, handle : U] \cup [kind : Speech \ {"ready"}, task : D]

StepsNow == Steps(Born, Delivered, Used)
EventsNow == Events(Delivered, Used)

\* The columns, the maps and the sessions are about tasks with a row and about
\* real tabs.
Rows ==
    /\ state \in [Task -> Owed \cup Settled \cup {"absent"}]
    /\ hop \in [Task -> HopState]
    /\ bound \in [Task -> [handle : Used \cup {NoHandle}, json : BOOLEAN]]
    /\ attempt \in [Task -> Nat]
    /\ lines \in [Task -> Seq(Result \cup {"adopted"})]
    /\ \A t \in Task : bound[t].handle # NoHandle => t \in Born

Maps ==
    /\ clock \in [Task -> HopState]
    /\ terminals \in [Task -> Used \cup {NoHandle, Blob}]
    /\ sessions \in [Task -> Used \cup {NoHandle}]
    /\ awaiting \subseteq Born /\ running \subseteq Born /\ pending_exit \subseteq Task
    /\ pool \in Seq(Used)
    /\ \A t \in Task : clock[t] # "" => t \in Born

World ==
    /\ tab \in [Handle -> {"unused", "open", "gone"}]
    /\ holder \in [Task -> Used \cup {NoHandle}]
    /\ Delivered \subseteq Born
    /\ history \subseteq Used /\ replays \subseteq Used
    /\ mail \in Seq(EventsNow)
    /\ said \subseteq EventsNow

Tables == Rows /\ Maps /\ World

Programs ==
    /\ DOMAIN prog = AllThreads
    /\ \A w \in AllThreads : prog[w] \in Seq(StepsNow)

\* A busy hop has its payload, or a restart took it for busy.
BusyInv == \A t \in Task : hop[t] = "busy" => t \in Delivered \/ Adopted(t)

TaskInv == Tables /\ Programs /\ BusyInv

-----------------------------------------------------------------------------
(***************************************************************************)
(* Steps and programs.                                                     *)
(***************************************************************************)

LEMMA StepFields ==
    ASSUME NEW B, NEW D, NEW U, NEW x \in Steps(B, D, U)
    PROVE  /\ x.op \in {"reserve", "pop_idle", "spawn", "bind", "claim", "send",
                        "set_state", "record", "unbind", "early_exit", "handshake",
                        "stalled", "close_tab", "reap", "busy_probe", "probe", "retry"}
                => x.task \in B
           /\ x.op \in {"land", "set_hop"} => x.task \in D
           /\ x.op \in {"bind", "claim", "send", "land", "replay", "scan", "match", "probe"}
                => x.handle \in U
           /\ x.op \in {"close_tab", "reap", "busy_probe"}
                => x.handle \in U \cup {NoHandle, Blob}
           /\ x.op \in {"reserve", "pop_idle", "spawn", "send"} => x.origin \in Origins
           /\ x.op = "match" => x.owed \subseteq B /\ x.fresh \subseteq Task
           /\ x.op = "set_state" => x.state \in Settled \cup {"running"}
           /\ x.op = "record" => x.state \in Result
           /\ x.op \in {"probe", "retry"} => x.attempt \in Nat
           /\ x.op = "set_hop" => x.state \in Hops /\ x.pending \in Pendings
BY DEF Steps

LEMMA NewSteps ==
    ASSUME NEW B, NEW D, NEW U
    PROVE  LET S == Steps(B, D, U) IN
           /\ \A t \in B, o \in Origins :
                /\ Reserve(t, o) \in S /\ PopIdle(t, o) \in S /\ Spawn(t, o) \in S
           /\ \A t \in B, h \in U : Bind(t, h) \in S /\ Claim(t, h) \in S
           /\ \A t \in B, h \in U, o \in Origins : Send(t, h, o) \in S
           /\ \A t \in D, h \in U : Land(t, h) \in S
           /\ \A h \in U : Replay(h) \in S /\ Scan(h) \in S
           /\ \A h \in U, owed \in SUBSET B, fresh \in SUBSET Task :
                Match(h, owed, fresh) \in S
           /\ \A t \in B, s \in Settled \cup {"running"} : SetState(t, s) \in S
           /\ \A t \in B, s \in Result : Record(t, s) \in S
           /\ \A t \in B : /\ Unbind(t) \in S /\ EarlyExit(t) \in S
                           /\ Handshake(t) \in S /\ Stalled(t) \in S
           /\ \A t \in B, h \in U \cup {NoHandle, Blob} :
                /\ CloseTab(t, h) \in S /\ Reap(t, h) \in S /\ BusyProbe(t, h) \in S
           /\ \A t \in B, h \in U, n \in Nat : Probe(t, h, n) \in S
           /\ \A t \in B, n \in Nat : Retry(t, n) \in S
           /\ \A t \in D, s \in Hops, p \in Pendings : SetHop(t, s, p) \in S
           /\ \A part \in {"sweep", "replay_waiting", "busy", "timeouts"} :
                Tick(part) \in S
<1>. DEFINE S == Steps(B, D, U)
<1>1. /\ \A t \in B, o \in Origins :
           /\ Reserve(t, o) \in S /\ PopIdle(t, o) \in S /\ Spawn(t, o) \in S
      /\ \A t \in B, h \in U : Bind(t, h) \in S /\ Claim(t, h) \in S
      /\ \A t \in B, h \in U, o \in Origins : Send(t, h, o) \in S
  BY DEF Steps, Reserve, PopIdle, Spawn, Bind, Claim, Send
<1>2. /\ \A t \in D, h \in U : Land(t, h) \in S
      /\ \A h \in U : Replay(h) \in S /\ Scan(h) \in S
      /\ \A h \in U, owed \in SUBSET B, fresh \in SUBSET Task :
           Match(h, owed, fresh) \in S
  BY DEF Steps, Land, Replay, Scan, Match
<1>3. /\ \A t \in B, s \in Settled \cup {"running"} : SetState(t, s) \in S
      /\ \A t \in B, s \in Result : Record(t, s) \in S
      /\ \A t \in B : /\ Unbind(t) \in S /\ EarlyExit(t) \in S
                      /\ Handshake(t) \in S /\ Stalled(t) \in S
  BY DEF Steps, SetState, Record, Unbind, EarlyExit, Handshake, Stalled
<1>4. /\ \A t \in B, h \in U \cup {NoHandle, Blob} :
           /\ CloseTab(t, h) \in S /\ Reap(t, h) \in S /\ BusyProbe(t, h) \in S
      /\ \A t \in B, h \in U, n \in Nat : Probe(t, h, n) \in S
      /\ \A t \in B, n \in Nat : Retry(t, n) \in S
  BY DEF Steps, CloseTab, Reap, BusyProbe, Probe, Retry
<1>5. /\ \A t \in D, s \in Hops, p \in Pendings : SetHop(t, s, p) \in S
      /\ \A part \in {"sweep", "replay_waiting", "busy", "timeouts"} : Tick(part) \in S
  BY DEF Steps, SetHop, Tick
<1>. QED
  BY <1>1, <1>2, <1>3, <1>4, <1>5

\* More rows, payloads and tabs allow more steps and events.
LEMMA StepsGrow ==
    ASSUME NEW B, NEW D, NEW U, NEW B2, NEW D2, NEW U2,
           B \subseteq B2, D \subseteq D2, U \subseteq U2
    PROVE  Steps(B, D, U) \subseteq Steps(B2, D2, U2) /\ Events(D, U) \subseteq Events(D2, U2)
<1>1. Steps(B, D, U) \subseteq Steps(B2, D2, U2)
  BY DEF Steps
<1>2. Events(D, U) \subseteq Events(D2, U2)
  BY DEF Events
<1>. QED
  BY <1>1, <1>2

\* The program that replaces its first step by q.
LEMMA Splice ==
    ASSUME NEW S, NEW p \in Seq(S), p # <<>>, NEW q \in Seq(S)
    PROVE  LET r == q \o Tail(p) IN
           /\ r \in Seq(S) /\ Len(r) = Len(q) + Len(p) - 1
           /\ \A i \in 1..Len(r) :
                r[i] = IF i <= Len(q) THEN q[i] ELSE p[i - Len(q) + 1]
<1>1. /\ Tail(p) \in Seq(S) /\ Len(Tail(p)) = Len(p) - 1
      /\ \A i \in 1..Len(Tail(p)) : Tail(p)[i] = p[i + 1]
  BY HeadTailProperties
<1>2. Len(q) \in Nat /\ Len(p) \in Nat \ {0}
  BY EmptySeq, LenProperties
<1>3. /\ q \o Tail(p) \in Seq(S)
      /\ Len(q \o Tail(p)) = Len(q) + Len(Tail(p))
      /\ \A i \in 1..Len(q) + Len(Tail(p)) :
           (q \o Tail(p))[i] = IF i <= Len(q) THEN q[i] ELSE Tail(p)[i - Len(q)]
  BY <1>1, ConcatProperties
<1>. QED
  BY <1>1, <1>2, <1>3

\* The first step of a program that has one.
LEMMA ProgramHead ==
    ASSUME NEW S, NEW p \in Seq(S), p # <<>>
    PROVE  Head(p) \in S /\ Head(p) = p[1] /\ Len(p) \in Nat \ {0}
BY HeadTailProperties, EmptySeq, LenProperties

\* A set in some order.
LEMMA InAnyOrder ==
    ASSUME NEW S, IsFiniteSet(S), NEW order \in SetToSeqs(S)
    PROVE  order \in Seq(S) /\ Len(order) \in Nat /\ DOMAIN order = 1..Len(order)
<1>1. Cardinality(S) \in Nat
  BY FS_CardinalityType
<1>2. order \in [1..Cardinality(S) -> S]
  BY DEF SetToSeqs
<1>3. order \in Seq(S)
  BY <1>1, <1>2, SeqDef
<1>. QED
  BY <1>3, LenProperties

\* Every element of the set has its place.
LEMMA EachInOrder ==
    ASSUME NEW S, IsFiniteSet(S), NEW order \in SetToSeqs(S), NEW t \in S
    PROVE  \E i \in DOMAIN order : order[i] = t
<1>. DEFINE n == Cardinality(S)
<1>1. n \in Nat
  BY FS_CardinalityType
<1>2. /\ order \in [1..n -> S]
      /\ \A i, j \in 1..n : i # j => order[i] # order[j]
  BY DEF SetToSeqs
<1>3. order \in Injection(1..n, S)
  BY <1>2 DEF Injection, IsInjective
<1>4. Cardinality(1..n) = n
  BY <1>1, FS_Interval
<1>. HIDE DEF n
<1>5. order \in Surjection(1..n, S)
  BY <1>3, <1>4, FS_Injection DEF n
<1>6. DOMAIN order = 1..n
  BY <1>2
<1>. QED
  BY <1>5, <1>6 DEF Surjection

-----------------------------------------------------------------------------
(***************************************************************************)
(* Types, whatever threads run.                                            *)
(***************************************************************************)

\* Rows, deliveries and tabs only become more.
Grows == Born \subseteq Born' /\ Delivered \subseteq Delivered' /\ Used \subseteq Used'

LEMMA TablesType ==
    ASSUME Tables PROVE TypeOK
<1>1. Used \subseteq Handle /\ Born \subseteq Task
  BY DEF Used, Born
<1>2. /\ state \in [Task -> Owed \cup Settled \cup {"absent"}]
      /\ hop \in [Task -> HopState] /\ clock \in [Task -> HopState]
      /\ bound \in [Task -> [handle : Handle \cup {NoHandle}, json : BOOLEAN]]
      /\ attempt \in [Task -> Nat]
      /\ lines \in [Task -> Seq(Result \cup {"adopted"})]
  BY <1>1 DEF Tables, Rows, Maps
<1>3. /\ terminals \in [Task -> Handle \cup {NoHandle, Blob}]
      /\ sessions \in [Task -> Handle \cup {NoHandle}]
      /\ awaiting \cup running \cup pending_exit \subseteq Task
      /\ pool \in Seq(Handle)
  BY <1>1, SeqMonotonic DEF Tables, Maps
<1>4. /\ tab \in [Handle -> {"unused", "open", "gone"}]
      /\ holder \in [Task -> Handle \cup {NoHandle}]
      /\ history \subseteq Handle /\ replays \subseteq Handle
  BY <1>1 DEF Tables, World
<1>. QED
  BY <1>2, <1>3, <1>4 DEF TypeOK

LEMMA MoreSteps ==
    ASSUME Grows
    PROVE  /\ StepsNow \subseteq StepsNow' /\ EventsNow \subseteq EventsNow'
           /\ Seq(StepsNow) \subseteq Seq(StepsNow')
           /\ Seq(EventsNow) \subseteq Seq(EventsNow')
           /\ Seq(Used) \subseteq Seq(Used')
<1>1. StepsNow \subseteq StepsNow' /\ EventsNow \subseteq EventsNow'
  BY StepsGrow DEF Grows, StepsNow, EventsNow
<1>. QED
  BY <1>1, SeqMonotonic DEF Grows

LEMMA RowsKept ==
    ASSUME Rows, Grows, UNCHANGED db
    PROVE  Rows'
BY DEF Rows, Grows, db

LEMMA MapsKept ==
    ASSUME Maps, Grows, UNCHANGED memory
    PROVE  Maps'
BY MoreSteps DEF Maps, Grows, memory

LEMMA WorldKept ==
    ASSUME World, Grows, UNCHANGED <<agents, replays>>
    PROVE  World'
BY MoreSteps DEF World, Grows, agents, Delivered, Used, Born, EventsNow

LEMMA BusyKept ==
    ASSUME BusyInv, Grows, UNCHANGED <<hop, lines>>
    PROVE  BusyInv'
BY DEF BusyInv, Grows, Adopted

LEMMA SameGrows ==
    ASSUME UNCHANGED <<state, tab, holder>>
    PROVE  Grows
BY DEF Grows, Born, Delivered, Used

\* A thread goes on with q.
LEMMA Continues ==
    ASSUME Programs, Grows, NEW w \in AllThreads, prog[w] # <<>>,
           NEW q \in Seq(StepsNow'), Then(w, q)
    PROVE  /\ Programs'
           /\ prog'[w] = q \o Tail(prog[w])
           /\ \A v \in AllThreads \ {w} : prog'[v] = prog[v]
<1>1. \A v \in AllThreads : prog[v] \in Seq(StepsNow')
  BY MoreSteps DEF Programs
<1>2. q \o Tail(prog[w]) \in Seq(StepsNow')
  BY <1>1, Splice
<1>3. /\ DOMAIN prog' = AllThreads
      /\ prog'[w] = q \o Tail(prog[w])
      /\ \A v \in AllThreads \ {w} : prog'[v] = prog[v]
  BY DEF Then, Programs
<1>4. \A v \in AllThreads : prog'[v] \in Seq(StepsNow')
  BY <1>1, <1>2, <1>3
<1>. QED
  BY <1>3, <1>4 DEF Programs

\* An idle thread begins with q.
LEMMA Begins ==
    ASSUME Programs, Grows, NEW w \in AllThreads, NEW q \in Seq(StepsNow'), Begin(w, q)
    PROVE  /\ Programs'
           /\ prog'[w] = q
           /\ \A v \in AllThreads \ {w} : prog'[v] = prog[v]
BY MoreSteps DEF Begin, Programs

LEMMA ProgramsKept ==
    ASSUME Programs, Grows, UNCHANGED prog
    PROVE  Programs'
BY MoreSteps DEF Programs

\* What the step of a thread carries.
LEMMA StepOf ==
    ASSUME TaskInv, NEW w \in AllThreads, NEW op, Runs(w, op)
    PROVE  /\ prog[w] \in Seq(StepsNow) /\ prog[w] # <<>>
           /\ Head(prog[w]) \in Steps(Born, Delivered, Used) /\ Head(prog[w]).op = op
BY ProgramHead DEF TaskInv, Programs, Runs, StepsNow

\* The step of a thread is over, and q comes next.
LEMMA Goes ==
    ASSUME TaskInv, Grows, NEW w \in AllThreads, NEW op, Runs(w, op),
           NEW q \in Seq(StepsNow), Then(w, q)
    PROVE  Programs'
<1>1. q \in Seq(StepsNow') /\ Programs /\ prog[w] # <<>>
  BY MoreSteps DEF TaskInv, Runs
<1>. QED
  BY <1>1, Continues

\* Nothing but the program and the maps changes.
LEMMA OnlyMaps ==
    ASSUME TaskInv, UNCHANGED <<db, agents, replays>>, Maps', Programs'
    PROVE  TaskInv'
<1>1. Grows
  BY SameGrows DEF db, agents
<1>2. Rows' /\ World' /\ BusyInv'
  BY <1>1, RowsKept, WorldKept, BusyKept DEF TaskInv, Tables, db
<1>. QED
  BY <1>2 DEF TaskInv, Tables

LEMMA SettleSteps ==
    ASSUME NEW t \in Born, NEW s \in Result
    PROVE  Settle(t, s) \in Seq(StepsNow)
<1>1. s \in Settled \cup {"running"}
  BY DEF Settled
<1>2. SetState(t, s) \in StepsNow /\ Record(t, s) \in StepsNow /\ Unbind(t) \in StepsNow
  BY <1>1, NewSteps DEF StepsNow
<1>. QED
  BY <1>2 DEF Settle

LEMMA ErrorSteps ==
    ASSUME NEW t \in Born, NEW origin
    PROVE  OnError(t, origin) \in Seq(StepsNow)
<1>1. EarlyExit(t) \in StepsNow
  BY NewSteps DEF StepsNow
<1>. QED
  BY <1>1 DEF OnError

LEMMA DispatchTypes ==
    ASSUME TaskInv, NEW w \in AllThreads,
           DoReserve(w) \/ DoPopIdle(w) \/ DoSpawn(w) \/ DoBind(w) \/ DoReplay(w)
    PROVE  TaskInv'
<1>. DEFINE x == Head(prog[w])
            t == x.task
<1>. USE DEF TaskInv
<1>1. Born \subseteq Task /\ Used \subseteq Handle
  BY DEF Born, Used
<1>2. CASE DoReserve(w)
  <2>1. t \in Born /\ t \in Task /\ x.origin \in Origins
    BY <1>1, <1>2, StepOf, StepFields DEF DoReserve
  <2>2. Grows
    BY <1>2, SameGrows DEF DoReserve, agents
  <2>3. <<PopIdle(t, x.origin)>> \in Seq(StepsNow)
    BY <2>1, NewSteps DEF StepsNow
  <2>4. Programs'
    BY <1>2, <2>2, <2>3, Goes DEF DoReserve
  <2>5. Rows' /\ Maps'
    BY <1>1, <1>2, <2>1, <2>2 DEF DoReserve, Tables, Rows, Maps, HopState, Grows, agents, Used, Born
  <2>6. World'
    BY <1>2, <2>2, WorldKept DEF DoReserve, Tables, process
  <2>7. BusyInv'
    BY <1>2, <2>1 DEF DoReserve, BusyInv, Adopted, Delivered, agents, Tables, Rows
  <2>. QED
    BY <2>4, <2>5, <2>6, <2>7 DEF Tables
<1>3. CASE DoPopIdle(w)
  <2>1. t \in Born /\ x.origin \in Origins
    BY <1>3, StepOf, StepFields DEF DoPopIdle
  <2>2. Grows
    BY <1>3, SameGrows DEF DoPopIdle, agents, db
  <2>3. CASE pool = <<>>
    <3>1. <<Spawn(t, x.origin)>> \in Seq(StepsNow)
      BY <2>1, NewSteps DEF StepsNow
    <3>2. Programs'
      BY <1>3, <2>2, <2>3, <3>1, Goes DEF DoPopIdle
    <3>3. UNCHANGED <<db, memory, agents, replays>>
      BY <1>3, <2>3 DEF DoPopIdle, memory, process
    <3>. QED
      BY <2>2, <3>2, <3>3, MapsKept, OnlyMaps DEF Tables
  <2>4. CASE pool # <<>>
    <3>1. /\ Last(pool) \in Used /\ Front(pool) \in Seq(Used)
      <4>1. pool \in Seq(Used)
        BY DEF Tables, Maps
      <4>. QED
        BY <2>4, <4>1, EmptySeq, LenProperties, ElementOfSeq, SubSeqProperties DEF Last, Front
    <3>2. <<Send(t, Last(pool), x.origin)>> \in Seq(StepsNow)
      BY <2>1, <3>1, NewSteps DEF StepsNow
    <3>3. Programs'
      BY <1>3, <2>2, <2>4, <3>2, Goes DEF DoPopIdle
    <3>4. /\ UNCHANGED <<db, agents, replays, clock, terminals, sessions, pending_exit, running>>
          /\ awaiting' \subseteq awaiting /\ pool' = Front(pool)
      BY <1>3, <2>4 DEF DoPopIdle, process
    <3>5. Born' = Born /\ Used' = Used
      BY <3>4 DEF Born, Used, db, agents
    <3>6. Maps'
      BY <3>1, <3>4, <3>5 DEF Maps, Tables
    <3>. QED
      BY <3>3, <3>4, <3>6, OnlyMaps
  <2>. QED
    BY <2>3, <2>4
<1>4. CASE DoSpawn(w)
  <2>1. t \in Born /\ x.origin \in Origins /\ Runs(w, "spawn")
    BY <1>4, StepOf, StepFields DEF DoSpawn
  <2>2. UNCHANGED <<db, memory, holder, history, mail, said, replays>>
    BY <1>4 DEF DoSpawn, process
  <2>3. CASE \E h \in Handle :
               /\ tab[h] = "unused" /\ tab' = [tab EXCEPT ![h] = "open"]
               /\ Then(w, <<Bind(t, h), Replay(h), SetState(t, "running")>>)
    <3>1. PICK h \in Handle :
               /\ tab[h] = "unused" /\ tab' = [tab EXCEPT ![h] = "open"]
               /\ Then(w, <<Bind(t, h), Replay(h), SetState(t, "running")>>)
      BY <2>3
    <3>2. /\ tab' \in [Handle -> {"unused", "open", "gone"}]
          /\ Grows /\ h \in Used' /\ Born' = Born
      BY <2>2, <3>1 DEF Tables, World, Used, Grows, Born, Delivered, db
    <3>3. Bind(t, h) \in StepsNow' /\ Replay(h) \in StepsNow' /\ SetState(t, "running") \in StepsNow'
      <4>. DEFINE B == Born'  D == Delivered'  U == Used'
      <4>1. StepsNow' = Steps(B, D, U)
        BY DEF StepsNow, Steps
      <4>2. t \in B /\ h \in U
        BY <2>1, <3>2
      <4>. HIDE DEF B, D, U
      <4>. QED
        BY <4>1, <4>2, NewSteps
    <3>4. <<Bind(t, h), Replay(h), SetState(t, "running")>> \in Seq(StepsNow')
      BY <3>3
    <3>5. Programs'
      BY <2>1, <3>1, <3>2, <3>4, Continues DEF Runs
    <3>6. Rows' /\ Maps' /\ BusyInv'
      BY <2>2, <3>2, RowsKept, MapsKept, BusyKept DEF Tables, db
    <3>7. World'
      BY <2>2, <3>2, MoreSteps DEF World, Tables, Grows, Delivered
    <3>. QED
      BY <3>5, <3>6, <3>7 DEF Tables
  <2>4. CASE Then(w, OnError(t, x.origin)) /\ UNCHANGED tab
    <3>1. UNCHANGED agents /\ Grows
      BY <2>2, <2>4, SameGrows DEF agents, db
    <3>2. Programs'
      BY <2>1, <2>4, <3>1, ErrorSteps, Goes
    <3>. QED
      BY <2>2, <3>1, <3>2, MapsKept, OnlyMaps DEF Tables
  <2>. QED
    BY <1>4, <2>3, <2>4 DEF DoSpawn
<1>5. CASE DoBind(w)
  <2>1. t \in Born /\ t \in Task /\ x.handle \in Used
    BY <1>1, <1>5, StepOf, StepFields DEF DoBind
  <2>2. Grows /\ Born' = Born /\ Used' = Used
    BY <1>5, SameGrows DEF DoBind, agents, Born, Used
  <2>3. <<>> \in Seq(StepsNow)
    OBVIOUS
  <2>4. Programs'
    BY <1>5, <2>2, <2>3, Goes DEF DoBind
  <2>5. Rows' /\ Maps'
    BY <1>5, <2>1, <2>2 DEF DoBind, Tables, Rows, Maps
  <2>6. World' /\ BusyInv'
    BY <1>5, <2>2, WorldKept, BusyKept DEF DoBind, Tables, process
  <2>. QED
    BY <2>4, <2>5, <2>6 DEF Tables
<1>6. CASE DoReplay(w)
  <2>1. x.handle \in Used
    BY <1>6, StepOf, StepFields DEF DoReplay
  <2>2. Grows /\ UNCHANGED <<db, memory, agents, replays>>
    BY <1>6, SameGrows DEF DoReplay, agents, db, process
  <2>3. <<Scan(x.handle)>> \in Seq(StepsNow) /\ <<>> \in Seq(StepsNow)
    BY <2>1, NewSteps DEF StepsNow
  <2>4. Programs'
    BY <1>6, <2>2, <2>3, Goes DEF DoReplay
  <2>. QED
    BY <2>2, <2>4, MapsKept, OnlyMaps DEF Tables
<1>. QED
  BY <1>2, <1>3, <1>4, <1>5, <1>6

LEMMA HandshakeTypes ==
    ASSUME TaskInv, NEW w \in AllThreads,
           DoScan(w) \/ DoMatch(w) \/ DoClaim(w) \/ DoSend(w) \/ DoLand(w)
    PROVE  TaskInv'
<1>. DEFINE x == Head(prog[w])
            t == x.task
            h == x.handle
<1>. USE DEF TaskInv
<1>1. Born \subseteq Task /\ Used \subseteq Handle /\ Delivered \subseteq Born
  BY DEF Born, Used, Tables, World
<1>2. CASE DoScan(w)
  <2>. DEFINE O == {u \in Task : state[u] \in Owed}
              F == {u \in Task : hop[u] \in {"", "dispatched", "ready"}}
  <2>1. h \in Used
    BY <1>2, StepOf, StepFields DEF DoScan
  <2>2. O \in SUBSET Born /\ F \in SUBSET Task
    BY DEF Born, Owed
  <2>3. Then(w, <<Match(h, O, F)>>)
    BY <1>2 DEF DoScan
  <2>. HIDE DEF O, F
  <2>4. <<Match(h, O, F)>> \in Seq(StepsNow)
    BY <2>1, <2>2, NewSteps DEF StepsNow
  <2>5. Grows /\ UNCHANGED <<db, memory, agents, replays>>
    BY <1>2, SameGrows DEF DoScan, agents, db, process
  <2>6. Programs'
    BY <1>2, <2>3, <2>4, <2>5, Goes DEF DoScan
  <2>. QED
    BY <2>5, <2>6, MapsKept, OnlyMaps DEF Tables
<1>3. CASE DoMatch(w)
  <2>1. h \in Used /\ x.owed \subseteq Born
    BY <1>3, StepOf, StepFields DEF DoMatch
  <2>2. Grows /\ Used' = Used /\ Born' = Born
        /\ UNCHANGED <<db, agents, replays, awaiting, terminals, sessions, running, clock, pending_exit>>
    BY <1>3, SameGrows DEF DoMatch, agents, db, process, Used, Born
  <2>3. Candidates(h, x.owed, x.fresh) \subseteq Born
    BY <2>1 DEF Candidates
  <2>4. \/ \E q \in Seq(StepsNow) : Then(w, q) /\ UNCHANGED pool
        \/ Then(w, <<>>) /\ pool' = Append(pool, h)
    <3>1. <<>> \in Seq(StepsNow) /\ \A u \in Born : <<Claim(u, h)>> \in Seq(StepsNow)
      BY <2>1, NewSteps DEF StepsNow
    <3>. QED
      BY <1>3, <2>3, <3>1 DEF DoMatch
  <2>5. Programs'
    <3>1. <<>> \in Seq(StepsNow)
      OBVIOUS
    <3>. QED
      BY <1>3, <2>2, <2>4, <3>1, Goes DEF DoMatch
  <2>6. pool' \in Seq(Used)
    <3>1. pool \in Seq(Used)
      BY DEF Tables, Maps
    <3>. QED
      BY <2>1, <2>4, <3>1, AppendProperties
  <2>7. Maps'
    BY <2>2, <2>6 DEF Tables, Maps
  <2>. QED
    BY <2>2, <2>5, <2>7, OnlyMaps
<1>4. CASE DoClaim(w)
  <2>1. t \in Born /\ t \in Task /\ h \in Used
    BY <1>1, <1>4, StepOf, StepFields DEF DoClaim
  <2>2. Grows /\ Born' = Born /\ Used' = Used
    BY <1>4, SameGrows DEF DoClaim, agents, Born, Used
  <2>3. <<Send(t, h, "ready")>> \in Seq(StepsNow)
    BY <2>1, NewSteps DEF StepsNow, Origins
  <2>4. Programs'
    BY <1>4, <2>2, <2>3, Goes DEF DoClaim
  <2>5. Rows' /\ Maps'
    BY <1>4, <2>1, <2>2 DEF DoClaim, Tables, Rows, Maps, HopState
  <2>6. World'
    BY <1>4, <2>2, WorldKept DEF DoClaim, Tables, process
  <2>7. BusyInv'
    BY <1>4, <2>1 DEF DoClaim, BusyInv, Adopted, Delivered, agents, Tables, Rows
  <2>. QED
    BY <2>4, <2>5, <2>6, <2>7 DEF Tables
<1>5. CASE DoSend(w)
  <2>1. t \in Born /\ h \in Used /\ x.origin \in Origins /\ Runs(w, "send")
    BY <1>5, StepOf, StepFields DEF DoSend
  <2>2. UNCHANGED <<db, memory, tab, history, mail, said, replays>>
    BY <1>5 DEF DoSend, process
  <2>3. h # NoHandle
    BY <1>1, <2>1, TaskAssumption
  <2>4. \/ holder' = [holder EXCEPT ![t] = h] /\ Then(w, <<Land(t, h)>>)
        \/ holder' \in {holder, [holder EXCEPT ![t] = h]} /\ Then(w, OnError(t, x.origin))
    BY <1>5 DEF DoSend
  <2>5. Grows /\ Used' = Used /\ Born' = Born
    <3>1. Used' = Used /\ Born' = Born
      BY <2>2 DEF Used, Born, db
    <3>2. holder' \in {holder, [holder EXCEPT ![t] = h]}
      BY <2>4
    <3>3. Delivered \subseteq Delivered'
      BY <2>3, <3>2 DEF Delivered, Tables, World
    <3>. QED
      BY <3>1, <3>3 DEF Grows
  <2>6. Programs'
    <3>1. CASE holder' = [holder EXCEPT ![t] = h] /\ Then(w, <<Land(t, h)>>)
      <4>1. t \in Delivered'
        BY <1>1, <2>1, <2>3, <3>1 DEF Delivered, Tables, World
      <4>2. Land(t, h) \in StepsNow'
        <5>. DEFINE B == Born'  D == Delivered'  U == Used'
        <5>1. StepsNow' = Steps(B, D, U)
          BY DEF StepsNow, Steps
        <5>2. t \in D /\ h \in U
          BY <2>1, <2>5, <4>1
        <5>. HIDE DEF B, D, U
        <5>. QED
          BY <5>1, <5>2, NewSteps
      <4>3. <<Land(t, h)>> \in Seq(StepsNow')
        BY <4>2
      <4>. QED
        BY <2>1, <2>5, <3>1, <4>3, Continues DEF Runs
    <3>2. CASE Then(w, OnError(t, x.origin))
      BY <2>1, <2>5, <3>2, ErrorSteps, Goes
    <3>. QED
      BY <2>4, <3>1, <3>2
  <2>7. Rows' /\ Maps' /\ BusyInv'
    BY <2>2, <2>5, RowsKept, MapsKept, BusyKept DEF Tables, db
  <2>8. World'
    <3>1. holder' \in [Task -> Used \cup {NoHandle}] /\ Delivered' \subseteq Born
      BY <1>1, <2>1, <2>4 DEF Tables, World, Delivered
    <3>. QED
      BY <2>2, <2>5, <3>1, MoreSteps DEF Tables, World
  <2>. QED
    BY <2>6, <2>7, <2>8 DEF Tables
<1>6. CASE DoLand(w)
  <2>1. t \in Delivered /\ t \in Task /\ h \in Used /\ t \in Born
    BY <1>1, <1>6, StepOf, StepFields DEF DoLand
  <2>2. Born' = Born /\ Used' = Used /\ Delivered' = Delivered /\ Grows
    BY <1>6, <2>1 DEF DoLand, agents, Born, Used, Delivered, Grows, Tables, Rows
  <2>3. <<>> \in Seq(StepsNow)
    OBVIOUS
  <2>4. Programs'
    BY <1>6, <2>2, <2>3, Goes DEF DoLand
  <2>5. Rows' /\ Maps'
    BY <1>6, <2>1, <2>2 DEF DoLand, Tables, Rows, Maps, HopState, Owed
  <2>6. World'
    BY <1>6, <2>2, WorldKept DEF DoLand, Tables, process
  <2>7. BusyInv'
    BY <1>6, <2>1, <2>2 DEF DoLand, BusyInv, Adopted, Tables, Rows
  <2>. QED
    BY <2>4, <2>5, <2>6, <2>7 DEF Tables
<1>. QED
  BY <1>2, <1>3, <1>4, <1>5, <1>6

LEMMA EndTypes ==
    ASSUME TaskInv, NEW w \in AllThreads,
           \/ DoSetState(w) \/ DoRecord(w) \/ DoUnbind(w) \/ DoCloseTab(w)
           \/ DoEarlyExit(w) \/ DoRetry(w) \/ DoSetHop(w)
    PROVE  TaskInv'
<1>. DEFINE x == Head(prog[w])
            t == x.task
            h == x.handle
<1>. USE DEF TaskInv
<1>1. Born \subseteq Task /\ Used \subseteq Handle /\ Delivered \subseteq Born
  BY DEF Born, Used, Tables, World
<1>2. <<>> \in Seq(StepsNow)
  OBVIOUS
<1>3. CASE DoSetState(w)
  <2>1. t \in Born /\ t \in Task /\ x.state \in Settled \cup {"running"}
    BY <1>1, <1>3, StepOf, StepFields DEF DoSetState
  <2>2. Born' = Born /\ Used' = Used /\ Delivered' = Delivered /\ Grows
    BY <1>3, <2>1 DEF DoSetState, agents, Born, Used, Delivered, Grows, Tables, Rows,
                      Settled, Result
  <2>3. Programs'
    BY <1>2, <1>3, <2>2, Goes DEF DoSetState
  <2>4. Rows'
    BY <1>3, <2>1, <2>2 DEF DoSetState, Tables, Rows, Owed
  <2>5. Maps' /\ World' /\ BusyInv'
    BY <1>3, <2>2, MapsKept, WorldKept, BusyKept DEF DoSetState, Tables, process
  <2>. QED
    BY <2>3, <2>4, <2>5 DEF Tables
<1>4. CASE DoRecord(w)
  <2>1. t \in Born /\ t \in Task /\ x.state \in Result
    BY <1>1, <1>4, StepOf, StepFields DEF DoRecord
  <2>2. Born' = Born /\ Used' = Used /\ Delivered' = Delivered /\ Grows
    BY <1>4 DEF DoRecord, agents, Born, Used, Delivered, Grows
  <2>3. Programs'
    BY <1>2, <1>4, <2>2, Goes DEF DoRecord
  <2>. DEFINE L == Result \cup {"adopted"}
  <2>4. /\ lines \in [Task -> Seq(L)]
        /\ lines' = [lines EXCEPT ![t] = Append(@, x.state)]
        /\ x.state \in L /\ UNCHANGED <<state, hop, bound, attempt>>
    BY <1>4, <2>1 DEF DoRecord, Tables, Rows
  <2>. HIDE DEF L
  <2>5. Append(lines[t], x.state) \in Seq(L) /\ Len(lines[t]) \in Nat
        /\ \A i \in 1..Len(lines[t]) : Append(lines[t], x.state)[i] = lines[t][i]
        /\ Len(Append(lines[t], x.state)) = Len(lines[t]) + 1
    BY <2>1, <2>4, AppendProperties, LenProperties
  <2>6. lines' \in [Task -> Seq(L)]
    BY <2>1, <2>4, <2>5
  <2>7. Rows'
    BY <2>2, <2>4, <2>6 DEF Tables, Rows, L
  <2>8. \A u \in Task : Adopted(u) => Adopted(u)'
    <3>. SUFFICES ASSUME NEW u \in Task, Adopted(u) PROVE "adopted" \in ToSet(lines'[u])
      BY DEF Adopted
    <3>1. CASE u = t
      <4>1. PICK i \in 1..Len(lines[t]) : lines[t][i] = "adopted"
        BY <2>1, <2>4, <3>1, LenProperties DEF Adopted, ToSet
      <4>2. i \in 1..Len(lines'[t]) /\ lines'[t][i] = "adopted"
        BY <2>1, <2>4, <2>5, <4>1
      <4>. QED
        BY <2>1, <2>6, <3>1, <4>2, LenProperties DEF ToSet
    <3>2. CASE u # t
      BY <2>4, <3>2 DEF Adopted
    <3>. QED
      BY <3>1, <3>2
  <2>9. BusyInv'
    BY <2>2, <2>4, <2>8 DEF BusyInv
  <2>10. Maps' /\ World'
    BY <1>4, <2>2, MapsKept, WorldKept DEF DoRecord, Tables, process
  <2>. QED
    BY <2>3, <2>7, <2>9, <2>10 DEF Tables
<1>5. CASE DoUnbind(w)
  <2>1. t \in Born /\ t \in Task
    <3>1. Runs(w, "unbind")
      BY <1>5 DEF DoUnbind
    <3>. QED
      BY <1>1, <3>1, StepOf, StepFields
  <2>2. Grows /\ Born' = Born /\ Used' = Used
    BY <1>5, SameGrows DEF DoUnbind, agents, Born, Used
  <2>3. <<CloseTab(t, terminals[t])>> \in Seq(StepsNow)
    <3>1. terminals[t] \in Used \cup {NoHandle, Blob}
      BY <2>1 DEF Tables, Maps
    <3>. QED
      BY <2>1, <3>1, NewSteps DEF StepsNow
  <2>4. Programs'
    BY <1>2, <1>5, <2>2, <2>3, Goes DEF DoUnbind
  <2>5. Rows' /\ Maps'
    BY <1>5, <2>1, <2>2 DEF DoUnbind, Tables, Rows, Maps, HopState
  <2>6. World'
    BY <1>5, <2>2, WorldKept DEF DoUnbind, Tables, process
  <2>7. BusyInv'
    BY <1>5, <2>1 DEF DoUnbind, BusyInv, Adopted, Delivered, agents, Tables, Rows
  <2>. QED
    BY <2>4, <2>5, <2>6, <2>7 DEF Tables
<1>6. CASE DoCloseTab(w)
  <2>1. t \in Born
    BY <1>6, StepOf, StepFields DEF DoCloseTab
  <2>2. UNCHANGED <<db, memory, holder, history, mail, said, replays>> /\ Then(w, <<>>)
    BY <1>6 DEF DoCloseTab, process
  <2>3. /\ tab' \in [Handle -> {"unused", "open", "gone"}]
        /\ \A u \in Handle : tab[u] # "unused" => tab'[u] # "unused"
    BY <1>6 DEF DoCloseTab, Tables, World
  <2>4. Grows /\ Born' = Born
    BY <2>2, <2>3 DEF Grows, Born, Used, Delivered, db
  <2>5. Programs'
    BY <1>2, <1>6, <2>2, <2>4, Goes DEF DoCloseTab
  <2>6. Rows' /\ Maps' /\ BusyInv'
    BY <2>2, <2>4, RowsKept, MapsKept, BusyKept DEF Tables, db
  <2>7. World'
    BY <2>2, <2>3, <2>4, MoreSteps DEF World, Tables, Grows, Delivered
  <2>. QED
    BY <2>5, <2>6, <2>7 DEF Tables
<1>7. CASE DoEarlyExit(w)
  <2>1. t \in Born
    BY <1>7, StepOf, StepFields DEF DoEarlyExit
  <2>2. Settle(t, "failed") \in Seq(StepsNow)
    BY <2>1, SettleSteps DEF Result
  <2>3. Grows /\ UNCHANGED <<db, memory, agents, replays>>
    BY <1>7, SameGrows DEF DoEarlyExit, agents, db, process
  <2>4. Programs'
    BY <1>2, <1>7, <2>2, <2>3, Goes DEF DoEarlyExit
  <2>. QED
    BY <2>3, <2>4, MapsKept, OnlyMaps DEF Tables
<1>8. CASE DoRetry(w)
  <2>1. x.attempt \in Nat /\ Runs(w, "retry")
    BY <1>8, StepOf, StepFields DEF DoRetry
  <2>2. UNCHANGED <<memory, agents, replays>>
    BY <1>8 DEF DoRetry, process
  <2>3. CASE UNCHANGED db /\ Then(w, <<>>)
    <3>1. Grows
      BY <2>2, <2>3, SameGrows DEF agents, db
    <3>2. Programs'
      BY <1>2, <2>1, <2>3, <3>1, Goes
    <3>. QED
      BY <2>2, <2>3, <3>1, <3>2, MapsKept, OnlyMaps DEF Tables
  <2>4. CASE \E u \in Task : InsertRow(u, x.attempt + 1) /\ Then(w, <<Reserve(u, "retry")>>)
    <3>1. PICK u \in Task : InsertRow(u, x.attempt + 1) /\ Then(w, <<Reserve(u, "retry")>>)
      BY <2>4
    <3>2. Grows /\ u \in Born' /\ Used' = Used
      BY <2>2, <3>1 DEF InsertRow, Grows, Born, Used, Delivered, agents, Tables, Rows
    <3>3. Reserve(u, "retry") \in StepsNow'
      <4>. DEFINE B == Born'  D == Delivered'  U == Used'
      <4>1. StepsNow' = Steps(B, D, U)
        BY DEF StepsNow, Steps
      <4>2. u \in B /\ "retry" \in Origins
        BY <3>2 DEF Origins
      <4>. HIDE DEF B, D, U
      <4>. QED
        BY <4>1, <4>2, NewSteps
    <3>4. <<Reserve(u, "retry")>> \in Seq(StepsNow')
      BY <3>3
    <3>5. Programs'
      BY <2>1, <3>1, <3>2, <3>4, Continues DEF Runs
    <3>6. Rows'
      BY <2>1, <3>1, <3>2 DEF InsertRow, Rows, Tables, Grows, Owed
    <3>7. Maps' /\ World' /\ BusyInv'
      BY <2>2, <3>1, <3>2, MapsKept, WorldKept, BusyKept DEF Tables, InsertRow
    <3>. QED
      BY <3>5, <3>6, <3>7 DEF Tables
  <2>. QED
    BY <1>8, <2>3, <2>4 DEF DoRetry
<1>9. CASE DoSetHop(w)
  <2>1. t \in Delivered /\ t \in Task /\ t \in Born /\ x.state \in Hops
    BY <1>1, <1>9, StepOf, StepFields DEF DoSetHop
  <2>2. Born' = Born /\ Used' = Used /\ Delivered' = Delivered /\ Grows
    BY <1>9 DEF DoSetHop, agents, Born, Used, Delivered, Grows
  <2>3. Programs'
    BY <1>2, <1>9, <2>2, Goes DEF DoSetHop
  <2>4. x.state \in HopState
    BY <2>1 DEF Hops, HopState
  <2>5. running' \subseteq Born /\ pending_exit' \subseteq Task
    BY <1>9, <2>1 DEF DoSetHop, Tables, Maps
  <2>6. Rows' /\ Maps'
    BY <1>9, <2>1, <2>2, <2>4, <2>5 DEF DoSetHop, Tables, Rows, Maps
  <2>7. World'
    BY <1>9, <2>2, WorldKept DEF DoSetHop, Tables, process
  <2>8. BusyInv'
    BY <1>9, <2>1, <2>2 DEF DoSetHop, BusyInv, Adopted, Tables, Rows
  <2>. QED
    BY <2>3, <2>6, <2>7, <2>8 DEF Tables
<1>. QED
  BY <1>3, <1>4, <1>5, <1>6, <1>7, <1>8, <1>9

\* A step for each element of a finite set.
LEMMA VisitSteps ==
    ASSUME NEW L, NEW S, IsFiniteSet(S), NEW order \in SetToSeqs(S), NEW v \in [S -> L]
    PROVE  /\ [i \in DOMAIN order |-> v[order[i]]] \in Seq(L)
           /\ DOMAIN order = 1..Len(order) /\ Len(order) \in Nat
           /\ \A i \in DOMAIN order : order[i] \in S
<1>. DEFINE n == Len(order)
<1>1. /\ n \in Nat /\ DOMAIN order = 1..n
      /\ \A i \in 1..n : order[i] \in S
  BY InAnyOrder, ElementOfSeq
<1>. HIDE DEF n
<1>2. [i \in 1..n |-> v[order[i]]] \in [1..n -> L]
  BY <1>1
<1>3. [i \in 1..n |-> v[order[i]]] \in Seq(L)
  BY <1>1, <1>2, SeqDef
<1>. QED
  BY <1>1, <1>3 DEF n

LEMMA FiniteTasks ==
    ASSUME NEW S, S \subseteq Task PROVE IsFiniteSet(S)
BY TaskAssumption, FS_Subset

LEMMA WatchTypes ==
    ASSUME TaskInv, NEW w \in AllThreads,
           \/ DoSweep(w) \/ DoProbe(w) \/ DoReplayWaiting(w) \/ DoBusy(w)
           \/ DoBusyProbe(w) \/ DoTimeouts(w) \/ DoHandshake(w) \/ DoStalled(w)
    PROVE  TaskInv'
<1>. DEFINE x == Head(prog[w])
            t == x.task
            h == x.handle
<1>. USE DEF TaskInv
<1>1. Born \subseteq Task /\ Used \subseteq Handle /\ Delivered \subseteq Born
  BY DEF Born, Used, Tables, World
<1>2. <<>> \in Seq(StepsNow)
  OBVIOUS
<1>3. ASSUME UNCHANGED <<db, memory, agents, replays>>,
             NEW op, Runs(w, op), NEW q \in Seq(StepsNow), Then(w, q)
      PROVE  TaskInv'
  <2>1. Grows
    BY <1>3, SameGrows DEF agents, db
  <2>. QED
    BY <1>3, <2>1, Goes, MapsKept, OnlyMaps DEF Tables
<1>4. CASE DoSweep(w)
  <2>. DEFINE S == {u \in running : /\ Expired(u) /\ state[u] = "running"
                                    /\ bound[u].handle # NoHandle}
              v == [u \in S |-> Probe(u, bound[u].handle, attempt[u])]
  <2>1. S \subseteq Task /\ IsFiniteSet(S)
    BY <1>1, FiniteTasks DEF Tables, Maps
  <2>2. PICK order \in SetToSeqs(S) :
          Then(w, [i \in DOMAIN order |-> Probe(order[i], bound[order[i]].handle, attempt[order[i]])])
    BY <1>4 DEF DoSweep, ThenEach
  <2>3. v \in [S -> StepsNow]
    <3>. SUFFICES ASSUME NEW u \in S PROVE Probe(u, bound[u].handle, attempt[u]) \in StepsNow
      OBVIOUS
    <3>1. u \in Born /\ bound[u].handle \in Used /\ attempt[u] \in Nat
      BY <1>1 DEF Tables, Maps, Rows
    <3>. QED
      BY <3>1, NewSteps DEF StepsNow
  <2>4. \A u \in S : v[u] = Probe(u, bound[u].handle, attempt[u])
    OBVIOUS
  <2>. HIDE DEF S, v
  <2>5. /\ [i \in DOMAIN order |-> v[order[i]]] \in Seq(StepsNow)
        /\ \A i \in DOMAIN order : order[i] \in S
    BY <2>1, <2>3, VisitSteps
  <2>6. [i \in DOMAIN order |-> v[order[i]]] =
          [i \in DOMAIN order |-> Probe(order[i], bound[order[i]].handle, attempt[order[i]])]
    BY <2>4, <2>5
  <2>. QED
    BY <1>3, <1>4, <2>2, <2>5, <2>6 DEF DoSweep, process
<1>5. CASE DoProbe(w)
  <2>1. t \in Born /\ x.attempt \in Nat
    BY <1>5, StepOf, StepFields DEF DoProbe
  <2>2. EarlyExit(t) \in StepsNow /\ Retry(t, x.attempt) \in StepsNow
    BY <2>1, NewSteps DEF StepsNow
  <2>3. <<EarlyExit(t)>> \o <<>> \in Seq(StepsNow)
        /\ <<EarlyExit(t)>> \o <<Retry(t, x.attempt)>> \in Seq(StepsNow)
    BY <1>2, <2>2, ConcatProperties
  <2>4. \E q \in Seq(StepsNow) : Then(w, q)
    BY <1>2, <1>5, <2>3 DEF DoProbe
  <2>. QED
    BY <1>3, <1>5, <2>4 DEF DoProbe, process
<1>6. CASE DoReplayWaiting(w)
  <2>1. UNCHANGED <<db, memory, agents>> /\ Then(w, <<>>)
        /\ replays' = replays \cup ({terminals[u] : u \in awaiting} \cap Handle)
    BY <1>6 DEF DoReplayWaiting
  <2>2. Grows /\ Used' = Used
    BY <2>1, SameGrows DEF agents, db, Used
  <2>3. Programs'
    BY <1>2, <1>6, <2>1, <2>2, Goes DEF DoReplayWaiting
  <2>4. replays' \subseteq Used
    <3>1. \A u \in awaiting : terminals[u] \in Used \cup {NoHandle, Blob}
      BY <1>1 DEF Tables, Maps
    <3>. QED
      BY <2>1, <3>1, TaskAssumption DEF Tables, World
  <2>5. Rows' /\ Maps' /\ BusyInv'
    BY <2>1, <2>2, RowsKept, MapsKept, BusyKept DEF Tables, db
  <2>6. World'
    BY <2>1, <2>2, <2>4, MoreSteps DEF World, Tables, Grows, agents, Delivered, Born, db
  <2>. QED
    BY <2>3, <2>5, <2>6 DEF Tables
<1>7. CASE DoBusy(w)
  <2>. DEFINE S == {u \in Task : /\ state[u] = "running" /\ hop[u] = "busy"
                                 /\ bound[u].handle # NoHandle}
              v == [u \in S |-> BusyProbe(u, Text(bound[u]))]
  <2>1. S \subseteq Task /\ IsFiniteSet(S)
    BY FiniteTasks
  <2>2. PICK order \in SetToSeqs(S) :
          Then(w, [i \in DOMAIN order |-> BusyProbe(order[i], Text(bound[order[i]]))])
    BY <1>7 DEF DoBusy, ThenEach
  <2>3. v \in [S -> StepsNow]
    <3>. SUFFICES ASSUME NEW u \in S PROVE BusyProbe(u, Text(bound[u])) \in StepsNow
      OBVIOUS
    <3>1. u \in Born /\ Text(bound[u]) \in Used \cup {NoHandle, Blob}
      BY DEF Tables, Rows, Born, Text
    <3>. QED
      BY <3>1, NewSteps DEF StepsNow
  <2>4. \A u \in S : v[u] = BusyProbe(u, Text(bound[u]))
    OBVIOUS
  <2>. HIDE DEF S, v
  <2>5. /\ [i \in DOMAIN order |-> v[order[i]]] \in Seq(StepsNow)
        /\ \A i \in DOMAIN order : order[i] \in S
    BY <2>1, <2>3, VisitSteps
  <2>6. [i \in DOMAIN order |-> v[order[i]]] =
          [i \in DOMAIN order |-> BusyProbe(order[i], Text(bound[order[i]]))]
    BY <2>4, <2>5
  <2>. QED
    BY <1>3, <1>7, <2>2, <2>5, <2>6 DEF DoBusy, process
<1>8. CASE DoBusyProbe(w)
  <2>1. t \in Born /\ t \in Task /\ h \in Used \cup {NoHandle, Blob}
    BY <1>1, <1>8, StepOf, StepFields DEF DoBusyProbe
  <2>2. <<EarlyExit(t)>> \in Seq(StepsNow)
    BY <2>1, NewSteps DEF StepsNow
  <2>3. UNCHANGED <<db, agents, replays>> /\ Grows /\ Used' = Used /\ Born' = Born
    BY <1>8, SameGrows DEF DoBusyProbe, agents, db, process, Used, Born
  <2>4. \E q \in Seq(StepsNow) : Then(w, q)
    BY <1>2, <1>8, <2>2 DEF DoBusyProbe
  <2>5. Programs'
    BY <1>8, <2>3, <2>4, Goes DEF DoBusyProbe
  <2>6. terminals' \in {terminals, [terminals EXCEPT ![t] = h]}
    BY <1>8 DEF DoBusyProbe
  <2>7. Maps'
    BY <1>8, <2>1, <2>3, <2>6 DEF DoBusyProbe, Tables, Maps
  <2>. QED
    BY <2>3, <2>5, <2>7, OnlyMaps
<1>9. CASE DoTimeouts(w)
  <2>. DEFINE One(u) == CASE clock[u] = "dispatched" -> Handshake(u)
                          [] clock[u] = "ready" -> EarlyExit(u)
                          [] OTHER -> Stalled(u)
              S == {u \in Task : /\ Expired(u) /\ ~Unheard(u)
                                 /\ clock[u] \in {"dispatched", "ready", "idle"}}
              v == [u \in S |-> One(u)]
  <2>1. S \subseteq Task /\ IsFiniteSet(S)
    BY FiniteTasks
  <2>2. PICK order \in SetToSeqs(S) : Then(w, [i \in DOMAIN order |-> One(order[i])])
    BY <1>9 DEF DoTimeouts, ThenEach
  <2>3. v \in [S -> StepsNow]
    <3>. SUFFICES ASSUME NEW u \in S PROVE One(u) \in StepsNow
      OBVIOUS
    <3>1. u \in Born
      BY DEF Tables, Maps
    <3>. QED
      BY <3>1, NewSteps DEF StepsNow
  <2>4. \A u \in S : v[u] = One(u)
    OBVIOUS
  <2>. HIDE DEF S, v, One
  <2>5. /\ [i \in DOMAIN order |-> v[order[i]]] \in Seq(StepsNow)
        /\ \A i \in DOMAIN order : order[i] \in S
    BY <2>1, <2>3, VisitSteps
  <2>6. [i \in DOMAIN order |-> v[order[i]]] = [i \in DOMAIN order |-> One(order[i])]
    BY <2>4, <2>5
  <2>. QED
    BY <1>3, <1>9, <2>2, <2>5, <2>6 DEF DoTimeouts, process
<1>10. CASE DoHandshake(w)
  <2>1. t \in Born /\ t \in Task
    <3>1. Runs(w, "handshake")
      BY <1>10 DEF DoHandshake
    <3>. QED
      BY <1>1, <3>1, StepOf, StepFields
  <2>2. EarlyExit(t) \in StepsNow /\ Retry(t, attempt[t]) \in StepsNow
    <3>1. attempt[t] \in Nat
      BY <2>1 DEF Tables, Rows
    <3>. QED
      BY <2>1, <3>1, NewSteps DEF StepsNow
  <2>3. <<EarlyExit(t)>> \o <<>> \in Seq(StepsNow)
        /\ <<EarlyExit(t)>> \o <<Retry(t, attempt[t])>> \in Seq(StepsNow)
    BY <1>2, <2>2, ConcatProperties
  <2>4. \E q \in Seq(StepsNow) : Then(w, q)
    BY <1>2, <1>10, <2>3 DEF DoHandshake
  <2>. QED
    BY <1>3, <1>10, <2>4 DEF DoHandshake, process
<1>11. CASE DoStalled(w)
  <2>1. t \in Born
    <3>1. Runs(w, "stalled")
      BY <1>11 DEF DoStalled
    <3>. QED
      BY <3>1, StepOf, StepFields
  <2>2. <<EarlyExit(t)>> \in Seq(StepsNow)
    BY <2>1, NewSteps DEF StepsNow
  <2>3. \E q \in Seq(StepsNow) : Then(w, q)
    BY <1>2, <1>11, <2>2 DEF DoStalled
  <2>. QED
    BY <1>3, <1>11, <2>3 DEF DoStalled, process
<1>. QED
  BY <1>4, <1>5, <1>6, <1>7, <1>8, <1>9, <1>10, <1>11

LEMMA StepTypes ==
    ASSUME TaskInv, NEW w \in AllThreads, Step(w)
    PROVE  TaskInv'
BY DispatchTypes, HandshakeTypes, EndTypes, WatchTypes DEF Step

\* A thread begins with q, and reads at most the mail.
LEMMA OnlyBegins ==
    ASSUME TaskInv, UNCHANGED <<db, tab, holder, history, said>>,
           NEW w \in AllThreads, NEW q \in Seq(StepsNow), Begin(w, q),
           Maps', replays' \subseteq replays,
           mail' = mail \/ (mail # <<>> /\ mail' = Tail(mail))
    PROVE  TaskInv'
<1>1. Grows /\ Used' = Used
  BY SameGrows DEF db, Used
<1>2. q \in Seq(StepsNow')
  BY <1>1, MoreSteps
<1>3. Programs'
  BY <1>1, <1>2, Begins DEF TaskInv
<1>4. Rows' /\ BusyInv'
  BY <1>1, RowsKept, BusyKept DEF TaskInv, Tables, db
<1>5. mail' \in Seq(EventsNow)
  BY HeadTailProperties DEF TaskInv, Tables, World
<1>6. World'
  BY <1>1, <1>5, MoreSteps DEF TaskInv, Tables, World, Grows, Delivered
<1>. QED
  BY <1>3, <1>4, <1>6 DEF TaskInv, Tables

LEMMA InsertTypes ==
    ASSUME TaskInv, NEW w \in AllThreads, NEW t \in Task, NEW origin \in Origins,
           InsertRow(t, 1), Begin(w, <<Reserve(t, origin)>>), UNCHANGED <<memory, agents, replays>>
    PROVE  TaskInv'
<1>1. Grows /\ t \in Born' /\ Used' = Used
  BY DEF TaskInv, InsertRow, Grows, Born, Used, Delivered, agents, Tables, Rows
<1>2. Reserve(t, origin) \in StepsNow'
  <2>. DEFINE B == Born'  D == Delivered'  U == Used'
  <2>1. StepsNow' = Steps(B, D, U)
    BY DEF StepsNow, Steps
  <2>2. t \in B
    BY <1>1
  <2>. HIDE DEF B, D, U
  <2>. QED
    BY <2>1, <2>2, NewSteps
<1>3. <<Reserve(t, origin)>> \in Seq(StepsNow')
  BY <1>2
<1>4. Programs'
  BY <1>1, <1>3, Begins DEF TaskInv
<1>5. Rows'
  BY <1>1 DEF TaskInv, InsertRow, Rows, Tables, Grows, Owed
<1>6. Maps' /\ World' /\ BusyInv'
  BY <1>1, MapsKept, WorldKept, BusyKept DEF TaskInv, Tables, InsertRow
<1>. QED
  BY <1>4, <1>5, <1>6 DEF TaskInv, Tables

LEMMA ScannedFinite ==
    ASSUME Maps
    PROVE  IsFiniteSet({terminals[u] : u \in Task} \cap history)
<1>1. terminals \in Surjection(Task, {terminals[u] : u \in Task})
  BY DEF Surjection, Maps
<1>2. IsFiniteSet({terminals[u] : u \in Task})
  BY <1>1, TaskAssumption, FS_Surjection
<1>. QED
  BY <1>2, FS_Subset

LEMMA HearTypes ==
    ASSUME TaskInv,
           \/ HearReady \/ HearActivity \/ HearOut \/ HearRecycled
           \/ Reconnect
    PROVE  TaskInv'
<1>. DEFINE e == Head(mail)
            t == e.task
<1>. USE DEF TaskInv
<1>1. Born \subseteq Task /\ Used \subseteq Handle /\ Delivered \subseteq Born
  BY DEF Born, Used, Tables, World
<1>2. <<>> \in Seq(StepsNow) /\ "pump" \in AllThreads
  BY DEF AllThreads
<1>3. ASSUME mail # <<>>
      PROVE  /\ e.kind = "ready" => e.handle \in Used
             /\ e.kind # "ready" => t \in Delivered /\ t \in Born /\ t \in Task
             /\ e.kind \in Speech \cup {"ready"}
  <2>1. e \in EventsNow
    BY <1>3, HeadTailProperties DEF Tables, World
  <2>. QED
    BY <1>1, <2>1 DEF EventsNow, Events
<1>4. ASSUME mail # <<>>, NEW q \in Seq(StepsNow), Hear(q)
      PROVE  TaskInv'
  <2>1. /\ UNCHANGED <<db, memory, tab, holder, history, said, replays>>
        /\ mail' = Tail(mail) /\ Begin("pump", q)
    BY <1>4 DEF Hear, process
  <2>2. Maps'
    BY <2>1, SameGrows, MapsKept DEF Tables, db
  <2>. QED
    BY <1>2, <1>4, <2>1, <2>2, OnlyBegins
<1>5. CASE HearReady
  <2>1. mail # <<>> /\ e.kind = "ready" /\ Hear(<<Scan(e.handle)>>)
    BY <1>5 DEF HearReady, Hears
  <2>2. <<Scan(e.handle)>> \in Seq(StepsNow)
    BY <1>3, <2>1, NewSteps DEF StepsNow
  <2>. QED
    BY <1>4, <2>1, <2>2
<1>6. CASE HearActivity
  <2>1. PICK kind \in {"busy", "idle", "idle_pending_exit"} :
          /\ Hears(kind)
          /\ Hear(IF state[t] \in Settled \/ hop[t] = (IF kind = "busy" THEN "busy" ELSE "idle")
                  THEN <<>>
                  ELSE <<SetHop(t, IF kind = "busy" THEN "busy" ELSE "idle",
                                kind = "idle_pending_exit")>>)
    BY <1>6, Zenon DEF HearActivity
  <2>2. mail # <<>> /\ e.kind = kind /\ kind # "ready"
    BY <2>1 DEF Hears
  <2>3. t \in Delivered /\ kind \in Speech
    BY <1>3, <2>2
  <2>4. (IF kind = "busy" THEN "busy" ELSE "idle") \in Hops
        /\ (kind = "idle_pending_exit") \in Pendings
    BY <2>1, <2>3 DEF Hops, Pendings
  <2>5. SetHop(t, IF kind = "busy" THEN "busy" ELSE "idle", kind = "idle_pending_exit")
          \in StepsNow
    BY <2>3, <2>4, NewSteps DEF StepsNow
  <2>. DEFINE y == SetHop(t, IF kind = "busy" THEN "busy" ELSE "idle",
                          kind = "idle_pending_exit")
  <2>6. \/ Hear(<<>>) \/ Hear(<<y>>)
    BY <2>1, Zenon
  <2>7. <<y>> \in Seq(StepsNow)
    BY <2>5
  <2>. QED
    BY <1>2, <1>4, <2>2, <2>6, <2>7
<1>7. CASE HearOut
  <2>1. PICK kind \in {"out", "out_failed"} :
          /\ Hears(kind)
          /\ Hear(IF state[t] \in Settled THEN <<>>
                  ELSE IF kind = "out_failed" THEN Settle(t, "failed")
                  ELSE Settle(t, "done") \o <<SetState(t, "closed")>>)
    BY <1>7 DEF HearOut
  <2>2. mail # <<>> /\ e.kind = kind /\ kind # "ready"
    BY <2>1 DEF Hears
  <2>3. t \in Born
    BY <1>3, <2>2
  <2>4. Settle(t, "failed") \in Seq(StepsNow) /\ Settle(t, "done") \in Seq(StepsNow)
    BY <2>3, SettleSteps DEF Result
  <2>5. <<SetState(t, "closed")>> \in Seq(StepsNow)
    BY <2>3, NewSteps DEF StepsNow, Settled
  <2>6. Settle(t, "done") \o <<SetState(t, "closed")>> \in Seq(StepsNow)
    BY <2>4, <2>5, ConcatProperties
  <2>. QED
    BY <1>2, <1>4, <2>1, <2>2, <2>4, <2>6
<1>8. CASE HearRecycled
  <2>1. /\ Hears("recycled")
        /\ Hear(IF state[t] \in Settled THEN <<Unbind(t)>>
                ELSE Settle(t, "failed") \o IF MayReplay THEN <<Retry(t, attempt[t])>> ELSE <<>>)
    BY <1>8 DEF HearRecycled
  <2>2. mail # <<>> /\ e.kind = "recycled"
    BY <2>1 DEF Hears
  <2>3. t \in Born /\ t \in Task
    BY <1>3, <2>2
  <2>4. Settle(t, "failed") \in Seq(StepsNow)
    BY <2>3, SettleSteps DEF Result
  <2>5. <<Retry(t, attempt[t])>> \in Seq(StepsNow) /\ <<Unbind(t)>> \in Seq(StepsNow)
    <3>1. attempt[t] \in Nat
      BY <2>3 DEF Tables, Rows
    <3>. QED
      BY <2>3, <3>1, NewSteps DEF StepsNow
  <2>6. \A q \in {<<Retry(t, attempt[t])>>, <<>>} : Settle(t, "failed") \o q \in Seq(StepsNow)
    BY <1>2, <2>4, <2>5, ConcatProperties
  <2>. QED
    BY <1>4, <2>1, <2>2, <2>5, <2>6
<1>9. CASE Reconnect
  <2>. DEFINE S == {terminals[u] : u \in Task} \cap history
              v == [h \in S |-> Scan(h)]
  <2>1. S \subseteq Used /\ IsFiniteSet(S)
    BY ScannedFinite DEF Tables, World
  <2>2. /\ mail # <<>> /\ mail' = Tail(mail)
        /\ UNCHANGED <<db, memory, tab, holder, history, said, replays>>
    BY <1>9 DEF Reconnect, process
  <2>3. PICK order \in SetToSeqs(S) : Begin("pump", [i \in DOMAIN order |-> Scan(order[i])])
    BY <1>9 DEF Reconnect
  <2>4. v \in [S -> StepsNow] /\ \A h \in S : v[h] = Scan(h)
    BY <2>1, NewSteps DEF StepsNow
  <2>. HIDE DEF S, v
  <2>5. /\ [i \in DOMAIN order |-> v[order[i]]] \in Seq(StepsNow)
        /\ \A i \in DOMAIN order : order[i] \in S
    BY <2>1, <2>4, VisitSteps
  <2>6. [i \in DOMAIN order |-> v[order[i]]] = [i \in DOMAIN order |-> Scan(order[i])]
    BY <2>4, <2>5
  <2>7. Maps'
    BY <2>2, SameGrows, MapsKept DEF Tables, db
  <2>. QED
    BY <1>2, <2>2, <2>3, <2>5, <2>6, <2>7, OnlyBegins
<1>. QED
  BY <1>5, <1>6, <1>7, <1>8, <1>9

LEMMA StartTypes ==
    ASSUME TaskInv,
           \/ \E t \in Task : OnTaskInbound(t) \/ Submit(t) \/ StartCancel(t)
           \/ StartTick \/ \E h \in Handle : StartReplay(h)
    PROVE  TaskInv'
<1>. USE DEF TaskInv
<1>1. CASE \E t \in Task : OnTaskInbound(t)
  BY <1>1, InsertTypes DEF OnTaskInbound, Origins, AllThreads, process
<1>2. CASE \E t \in Task : Submit(t)
  BY <1>2, InsertTypes DEF Submit, Origins, AllThreads, process
<1>3. CASE \E t \in Task : StartCancel(t)
  <2>1. PICK t \in Task : StartCancel(t)
    BY <1>3
  <2>2. t \in Born /\ Begin("conn", Settle(t, "cancelled"))
        /\ UNCHANGED <<db, memory, agents, replays>>
    BY <2>1 DEF StartCancel, Born, process
  <2>3. Settle(t, "cancelled") \in Seq(StepsNow)
    BY <2>2, SettleSteps DEF Result
  <2>4. Maps'
    BY <2>2, SameGrows, MapsKept DEF Tables, db, agents
  <2>. QED
    BY <2>2, <2>3, <2>4, OnlyBegins DEF agents, AllThreads
<1>4. CASE StartTick
  <2>. DEFINE q == <<Tick("sweep"), Tick("replay_waiting"), Tick("busy"), Tick("timeouts")>>
  <2>1. q \in Seq(StepsNow)
    <3>1. /\ Tick("sweep") \in StepsNow /\ Tick("replay_waiting") \in StepsNow
          /\ Tick("busy") \in StepsNow /\ Tick("timeouts") \in StepsNow
      BY NewSteps DEF StepsNow
    <3>. QED
      BY <3>1
  <2>2. /\ Begin("reaper", q) /\ pool' = <<>>
        /\ UNCHANGED <<db, awaiting, terminals, sessions, running, clock, pending_exit,
                       agents, replays>>
    BY <1>4 DEF StartTick
  <2>3. Maps'
    <3>1. Born' = Born /\ Used' = Used
      BY <2>2 DEF Used, Born, db, agents
    <3>2. pool' \in Seq(Used)
      BY <2>2
    <3>. QED
      BY <2>2, <3>1, <3>2 DEF Tables, Maps
  <2>. QED
    BY <2>1, <2>2, <2>3, OnlyBegins DEF agents, AllThreads
<1>5. CASE \E h \in Handle : StartReplay(h)
  <2>1. PICK h \in Handle : StartReplay(h)
    BY <1>5
  <2>2. /\ h \in replays /\ Begin("replay", <<Replay(h)>>)
        /\ UNCHANGED <<db, memory, agents>> /\ replays' \subseteq replays
    BY <2>1 DEF StartReplay
  <2>3. <<Replay(h)>> \in Seq(StepsNow)
    BY <2>2, NewSteps DEF StepsNow, Tables, World
  <2>4. Maps'
    BY <2>2, SameGrows, MapsKept DEF Tables, db, agents
  <2>. QED
    BY <2>2, <2>3, <2>4, OnlyBegins DEF agents, AllThreads
<1>. QED
  BY <1>1, <1>2, <1>3, <1>4, <1>5

LEMMA CrashTypes ==
    ASSUME TaskInv, Crash
    PROVE  TaskInv'
<1>. USE DEF TaskInv
<1>1. UNCHANGED <<db, tab, holder, history, said>> /\ mail' = <<>> /\ replays' = {}
  BY DEF Crash
<1>2. Grows /\ Born' = Born /\ Used' = Used /\ Delivered' = Delivered
  BY <1>1, SameGrows DEF db, Born, Used, Delivered
<1>3. Rows' /\ BusyInv'
  BY <1>1, <1>2, RowsKept, BusyKept DEF Tables, db
<1>4. Maps'
  <2>1. <<>> \in Seq(Used')
    OBVIOUS
  <2>. QED
    BY <1>2, <2>1 DEF Crash, Tables, Maps, HopState
<1>5. World'
  <2>1. mail' \in Seq(EventsNow') /\ EventsNow' = EventsNow
    BY <1>1, <1>2 DEF EventsNow, Events
  <2>. QED
    BY <1>1, <1>2, <2>1 DEF Tables, World
<1>6. Programs'
  <2>. DEFINE S == {t \in Task : state[t] \in Owed}
              v == [t \in S |-> Reap(t, Text(bound[t]))]
  <2>1. S \subseteq Task /\ IsFiniteSet(S)
    BY FiniteTasks
  <2>2. PICK order \in SetToSeqs(S) :
          prog' = [w \in AllThreads |->
                     IF w # "pump" THEN <<>>
                     ELSE [i \in DOMAIN order |-> Reap(order[i], Text(bound[order[i]]))]]
    BY DEF Crash
  <2>3. v \in [S -> StepsNow']
    <3>. SUFFICES ASSUME NEW t \in S PROVE Reap(t, Text(bound[t])) \in StepsNow
      BY <1>2, MoreSteps
    <3>1. t \in Born /\ Text(bound[t]) \in Used \cup {NoHandle, Blob}
      BY DEF Tables, Rows, Born, Text, Owed
    <3>. QED
      BY <3>1, NewSteps DEF StepsNow
  <2>4. \A t \in S : v[t] = Reap(t, Text(bound[t]))
    OBVIOUS
  <2>. HIDE DEF S, v
  <2>5. /\ [i \in DOMAIN order |-> v[order[i]]] \in Seq(StepsNow')
        /\ \A i \in DOMAIN order : order[i] \in S
    BY <2>1, <2>3, VisitSteps
  <2>6. [i \in DOMAIN order |-> v[order[i]]] =
          [i \in DOMAIN order |-> Reap(order[i], Text(bound[order[i]]))]
    BY <2>4, <2>5
  <2>. DEFINE q == [i \in DOMAIN order |-> Reap(order[i], Text(bound[order[i]]))]
  <2>7. q \in Seq(StepsNow') /\ <<>> \in Seq(StepsNow')
    BY <2>5, <2>6
  <2>8. prog' = [w \in AllThreads |-> IF w # "pump" THEN <<>> ELSE q]
    BY <2>2
  <2>. HIDE DEF q
  <2>. QED
    BY <2>7, <2>8 DEF Programs
<1>. QED
  BY <1>3, <1>4, <1>5, <1>6 DEF Tables

LEMMA ReapTypes ==
    ASSUME TaskInv, DoReap
    PROVE  TaskInv'
<1>. DEFINE x == Head(prog["pump"])
            t == x.task
            h == x.handle
<1>. USE DEF TaskInv
<1>1. Born \subseteq Task /\ "pump" \in AllThreads /\ Runs("pump", "reap")
  BY DEF Born, AllThreads, DoReap
<1>2. t \in Born /\ t \in Task /\ h \in Used \cup {NoHandle, Blob}
  BY <1>1, StepOf, StepFields
<1>3. UNCHANGED <<state, bound, attempt, awaiting, sessions, pending_exit, pool, agents, replays>>
  BY DEF DoReap, process
<1>4. Grows /\ Born' = Born /\ Used' = Used /\ Delivered' = Delivered
  BY <1>3, SameGrows DEF agents, Born, Used, Delivered
<1>5. <<EarlyExit(t)>> \in Seq(StepsNow) /\ <<>> \in Seq(StepsNow)
  BY <1>2, NewSteps DEF StepsNow
<1>6. Programs'
  BY <1>1, <1>4, <1>5, Goes DEF DoReap
<1>7. World'
  BY <1>3, <1>4, WorldKept DEF Tables
<1>8. CASE UNCHANGED <<terminals, running, hop, clock, lines>>
  <2>1. Rows' /\ Maps' /\ BusyInv'
    BY <1>3, <1>4, <1>8, RowsKept, MapsKept, BusyKept DEF Tables, db, memory
  <2>. QED
    BY <1>6, <1>7, <2>1 DEF Tables
<1>9. CASE /\ terminals' = [terminals EXCEPT ![t] = h]
           /\ running' = running \cup {t}
           /\ hop' = [hop EXCEPT ![t] = "busy"]
           /\ clock' = [clock EXCEPT ![t] = "busy"]
           /\ lines' = [lines EXCEPT ![t] = Append(@, "adopted")]
  <2>. DEFINE L == Result \cup {"adopted"}
  <2>1. lines \in [Task -> Seq(L)] /\ "adopted" \in L
    BY DEF Tables, Rows
  <2>. HIDE DEF L
  <2>2. lines' = [lines EXCEPT ![t] = Append(@, "adopted")]
    BY <1>9
  <2>3. /\ Append(lines[t], "adopted") \in Seq(L) /\ Len(lines[t]) \in Nat
        /\ Len(Append(lines[t], "adopted")) = Len(lines[t]) + 1
        /\ Append(lines[t], "adopted")[Len(lines[t]) + 1] = "adopted"
    BY <1>2, <2>1, AppendProperties, LenProperties
  <2>4. lines' \in [Task -> Seq(L)] /\ lines'[t] = Append(lines[t], "adopted")
    <3>0. Append(lines[t], "adopted") \in Seq(L)
      BY ONLY <2>3
    <3>1. PICK new \in Seq(L) : new = Append(lines[t], "adopted")
      BY ONLY <3>0, Zenon
    <3>2. lines' = [lines EXCEPT ![t] = new]
      BY ONLY <2>2, <3>1, Zenon
    <3>3. lines' \in [Task -> Seq(L)] /\ lines'[t] = new
      BY ONLY <1>2, <2>1, <3>1, <3>2, Zenon
    <3>. QED
      BY <3>1, <3>3
  <2>5. \A u \in Task : u = t => Adopted(u)'
    <3>1. Len(lines[t]) + 1 \in DOMAIN lines'[t]
      BY <1>2, <2>3, <2>4, LenProperties
    <3>2. lines'[t][Len(lines[t]) + 1] = "adopted"
      BY <2>3, <2>4
    <3>3. "adopted" \in ToSet(lines'[t])
      BY <3>1, <3>2, Zenon DEF ToSet
    <3>. QED
      BY <3>3 DEF Adopted
  <2>6. Rows'
    BY <1>2, <1>3, <1>4, <1>9, <2>4 DEF Tables, Rows, HopState, L
  <2>7. Maps'
    BY <1>2, <1>3, <1>4, <1>9 DEF Tables, Maps, HopState
  <2>8. BusyInv'
    <3>1. \A u \in Task \ {t} : hop'[u] = hop[u] /\ lines'[u] = lines[u]
      BY <1>9
    <3>2. \A u \in Task \ {t} : Adopted(u)' = Adopted(u)
      BY <3>1 DEF Adopted
    <3>. QED
      BY <1>4, <2>5, <3>1, <3>2 DEF BusyInv
  <2>. QED
    BY <1>6, <1>7, <2>6, <2>7, <2>8 DEF Tables
<1>. QED
  BY <1>8, <1>9 DEF DoReap

LEMMA SessionTypes ==
    ASSUME TaskInv, Sessions
    PROVE  TaskInv'
<1>. USE DEF TaskInv
<1>1. Delivered \subseteq Born /\ Used \subseteq Handle
  BY DEF Tables, World, Used
<1>2. UNCHANGED <<db, memory, holder, process, prog>>
  BY DEF Sessions, AgentReady, TabDies, AgentReports, AgentRecycles
<1>3. /\ tab' \in [Handle -> {"unused", "open", "gone"}]
      /\ \A h \in Handle : tab[h] # "unused" => tab'[h] # "unused"
  <2>1. CASE \E h \in Handle : AgentReady(h) \/ TabDies(h)
    BY <2>1 DEF AgentReady, TabDies, Tables, World
  <2>2. CASE \E t \in Task : AgentReports(t) \/ AgentRecycles(t)
    BY <2>2 DEF AgentReports, AgentRecycles, Tables, World
  <2>. QED
    BY <2>1, <2>2 DEF Sessions
<1>4. Grows /\ Born' = Born /\ Delivered' = Delivered
  BY <1>2, <1>3 DEF Grows, Born, Used, Delivered, db
<1>5. /\ history' \subseteq Used
      /\ mail' = mail \/ \E e \in EventsNow : mail' = Append(mail, e)
      /\ said' = said \/ \E e \in EventsNow : said' = said \cup {e}
  <2>1. CASE \E h \in Handle : TabDies(h)
    BY <2>1 DEF TabDies, Tables, World
  <2>2. CASE \E h \in Handle : AgentReady(h)
    <3>1. PICK h \in Handle : AgentReady(h)
      BY <2>2
    <3>2. h \in Used /\ history' = history \cup {h} /\ Say([kind |-> "ready", handle |-> h])
      BY <3>1 DEF AgentReady, Used
    <3>3. [kind |-> "ready", handle |-> h] \in EventsNow
      BY <3>2 DEF EventsNow, Events
    <3>. QED
      BY <3>2, <3>3 DEF Say, Tables, World
  <2>3. CASE \E t \in Task : AgentReports(t) \/ AgentRecycles(t)
    <3>1. PICK t \in Task : AgentReports(t) \/ AgentRecycles(t)
      BY <2>3
    <3>2. t \in Delivered /\ history' = history
      BY <3>1 DEF AgentReports, AgentRecycles, Works, Delivered
    <3>3. \E kind \in Speech \ {"ready"} : Say([kind |-> kind, task |-> t])
      BY <3>1 DEF AgentReports, AgentRecycles, Say
    <3>4. \A kind \in Speech \ {"ready"} : [kind |-> kind, task |-> t] \in EventsNow
      BY <3>2 DEF EventsNow, Events
    <3>. QED
      BY <3>2, <3>3, <3>4 DEF Say, Tables, World
  <2>. QED
    BY <2>1, <2>2, <2>3 DEF Sessions
<1>6. mail' \in Seq(EventsNow) /\ said' \subseteq EventsNow
  <2>1. mail \in Seq(EventsNow) /\ said \subseteq EventsNow
    BY DEF Tables, World
  <2>. QED
    BY <1>5, <2>1, AppendProperties
<1>7. World'
  BY <1>1, <1>2, <1>3, <1>4, <1>5, <1>6, MoreSteps DEF World, Tables, Grows, process
<1>8. Rows' /\ Maps' /\ BusyInv' /\ Programs'
  BY <1>2, <1>4, RowsKept, MapsKept, BusyKept, ProgramsKept DEF Tables, db
<1>. QED
  BY <1>7, <1>8 DEF Tables

LEMMA SameTypes ==
    ASSUME TaskInv, UNCHANGED <<db, memory, agents, replays, prog>>
    PROVE  TaskInv'
<1>1. Grows
  BY SameGrows DEF db, agents
<1>. QED
  BY <1>1, MapsKept, ProgramsKept, OnlyMaps DEF TaskInv, Tables

LEMMA InitTypes == Init => TaskInv
<1>. SUFFICES ASSUME Init PROVE TaskInv
  OBVIOUS
<1>1. Born = {} /\ Used = {} /\ Delivered = {}
  BY DEF Init, Born, Used, Delivered
<1>2. \A S : <<>> \in Seq(S)
  OBVIOUS
<1>3. Rows
  <2>1. lines \in [Task -> Seq(Result \cup {"adopted"})]
    BY <1>2 DEF Init
  <2>2. /\ state \in [Task -> Owed \cup Settled \cup {"absent"}]
        /\ hop \in [Task -> HopState] /\ attempt \in [Task -> Nat]
        /\ bound = [t \in Task |-> Unbound]
    BY DEF Init, HopState
  <2>. QED
    BY <2>1, <2>2 DEF Rows, Unbound
<1>4. Maps
  <2>1. pool \in Seq(Used)
    BY <1>2 DEF Init
  <2>. QED
    BY <2>1 DEF Init, Maps, HopState
<1>5. World
  <2>1. mail \in Seq(EventsNow)
    BY <1>2 DEF Init
  <2>. QED
    BY <1>1, <2>1 DEF Init, World
<1>6. Programs
  BY <1>2 DEF Init, Programs
<1>7. BusyInv
  BY DEF Init, BusyInv
<1>. QED
  BY <1>3, <1>4, <1>5, <1>6, <1>7 DEF TaskInv, Tables

LEMMA TaskInvHolds == Spec => []TaskInv
<1>1. ASSUME TaskInv, [Next]_vars
      PROVE  TaskInv'
  <2>1. CASE Next
    BY <1>1, <2>1, HearTypes, StartTypes, StepTypes, CrashTypes, ReapTypes, SessionTypes,
       SameTypes DEF Next, Booted
  <2>2. CASE UNCHANGED vars
    BY <1>1, <2>2, SameTypes DEF vars, db, memory, agents, process
  <2>. QED
    BY <1>1, <2>1, <2>2
<1>. QED
  BY <1>1, InitTypes, PTL DEF Spec

\* Every column, map and tab keeps its type, with every thread running and
\* whatever fails: handles are real, and the maps are about tasks with a row.
THEOREM TaskTypes == Spec => []TypeOK
BY TaskInvHolds, TablesType, PTL DEF TaskInv

\* No hop is busy before the payload arrived, whichever thread set it.
THEOREM BusyIsDelivered == Spec => []BusyHasPayload
<1>1. TaskInv => BusyHasPayload
  BY DEF TaskInv, BusyInv, BusyHasPayload, Delivered
<1>. QED
  BY <1>1, TaskInvHolds, PTL

-----------------------------------------------------------------------------
(***************************************************************************)
(* The pump by itself.  Its program is one handler at work: steps that get *)
(* a task to its session, or steps that end one.                           *)
(***************************************************************************)

PumpAlone == Threads = {"pump"}

Pump == prog["pump"]

Alone == \A w \in AllThreads \ {"pump"} : prog[w] = <<>>

Dispatching == {"reserve", "pop_idle", "spawn"}

Serves(x) ==
    \/ x.op \in Dispatching
    \/ x.op \in {"bind", "claim", "send", "land", "replay", "scan", "match", "set_hop"}
    \/ x.op = "set_state" /\ x.state = "running"

Finishes(x) ==
    \/ x.op \in {"record", "unbind", "close_tab", "early_exit", "retry", "reap"}
    \/ x.op = "set_state" /\ x.state \in Settled

\* A step that may wait behind another.
Later(x) ==
    \/ x.op \in {"replay", "scan", "record", "unbind", "retry", "reap"}
    \/ x.op = "set_state" /\ x.state \in {"running", "closed"}

\* A step with nothing behind it.
Lone(x) ==
    \/ x.op \in Dispatching \cup {"set_hop", "retry"}
    \/ x.op = "send" /\ x.origin = "inbound"

Shape(p) ==
    /\ \/ \A i \in 1..Len(p) : Serves(p[i])
       \/ \A i \in 1..Len(p) : Finishes(p[i])
    /\ \A i \in 2..Len(p) : Later(p[i])
    /\ \A i \in 1..Len(p) : Lone(p[i]) => i = Len(p)
    /\ \A i, j \in 1..Len(p) : i < j /\ p[i].op = "bind" => p[j].op # "scan"
    /\ \A i, j \in 1..Len(p) : i < j /\ p[i].op = "reap" => p[j].op = "reap"

\* While the scheduler boots, the pump settles what it cannot adopt.
Recovers(p) == \A i \in 1..Len(p) : Finishes(p[i]) /\ p[i].op # "retry"

PumpShape == Alone /\ Shape(Pump) /\ (~up => Recovers(Pump))

\* What Splice says, for a program and the steps of a handler.
LEMMA Spliced ==
    ASSUME NEW S, NEW p \in Seq(S), p # <<>>, NEW R, NEW q \in Seq(R)
    PROVE  LET r == q \o Tail(p) IN
           /\ Len(p) \in Nat \ {0} /\ Len(q) \in Nat
           /\ Len(r) = Len(q) + Len(p) - 1
           /\ \A i \in 1..Len(r) :
                r[i] = IF i <= Len(q) THEN q[i] ELSE p[i - Len(q) + 1]
           /\ \A i \in 1..Len(q) : i \in 1..Len(r) /\ r[i] = q[i]
           /\ \A i \in 2..Len(p) :
                i + Len(q) - 1 \in 1..Len(r) /\ r[i + Len(q) - 1] = p[i]
<1>1. p \in Seq(S \cup R) /\ q \in Seq(S \cup R)
  BY SeqMonotonic
<1>2. Len(p) \in Nat \ {0} /\ Len(q) \in Nat
  BY EmptySeq, LenProperties
<1>. DEFINE r == q \o Tail(p)
<1>3. /\ Len(r) = Len(q) + Len(p) - 1
      /\ \A i \in 1..Len(r) :
           r[i] = IF i <= Len(q) THEN q[i] ELSE p[i - Len(q) + 1]
  BY <1>1, Splice
<1>. HIDE DEF r
<1>4. \A i \in 1..Len(q) : i \in 1..Len(r) /\ r[i] = q[i]
  BY <1>2, <1>3
<1>5. \A i \in 2..Len(p) : i + Len(q) - 1 \in 1..Len(r) /\ r[i + Len(q) - 1] = p[i]
  BY <1>2, <1>3
<1>. QED
  BY <1>2, <1>3, <1>4, <1>5 DEF r

LEMMA SplicedShape ==
    ASSUME NEW S, NEW p \in Seq(S), p # <<>>, NEW R, NEW q \in Seq(R),
           Shape(p), Shape(q),
           \/ Serves(p[1]) /\ \A i \in 1..Len(q) : Serves(q[i])
           \/ Finishes(p[1]) /\ \A i \in 1..Len(q) : Finishes(q[i]),
           Len(p) = 1 \/ \A i \in 1..Len(q) : ~Lone(q[i]) /\ q[i].op \notin {"bind", "reap"}
    PROVE  Shape(q \o Tail(p)) /\ (Recovers(p) /\ Recovers(q) => Recovers(q \o Tail(p)))
<1>. DEFINE r == q \o Tail(p)
            n == Len(q)
            m == Len(p)
<1>1. /\ m \in Nat \ {0} /\ n \in Nat /\ Len(r) = n + m - 1
      /\ \A i \in 1..Len(r) : r[i] = IF i <= n THEN q[i] ELSE p[i - n + 1]
  BY Spliced
<1>. HIDE DEF r, n, m
<1>2. \A i \in 1..Len(r) : \/ i \in 1..n /\ r[i] = q[i]
                           \/ i > n /\ i - n + 1 \in 2..m /\ r[i] = p[i - n + 1]
  BY <1>1
<1>3. \A x : ~(Serves(x) /\ Finishes(x))
  BY DEF Serves, Finishes, Dispatching, Settled, Result
<1>4. \/ \A i \in 1..Len(r) : Serves(r[i])
      \/ \A i \in 1..Len(r) : Finishes(r[i])
  <2>1. 1 \in 1..m
    BY <1>1
  <2>2. CASE Serves(p[1]) /\ \A i \in 1..n : Serves(q[i])
    <3>1. \A i \in 2..m : Serves(p[i])
      BY <1>1, <1>3, <2>1, <2>2 DEF Shape, m
    <3>. QED
      BY <1>2, <2>2, <3>1
  <2>3. CASE Finishes(p[1]) /\ \A i \in 1..n : Finishes(q[i])
    <3>1. \A i \in 2..m : Finishes(p[i])
      BY <1>1, <1>3, <2>1, <2>3 DEF Shape, m
    <3>. QED
      BY <1>2, <2>3, <3>1
  <2>. QED
    BY <2>2, <2>3 DEF n
<1>5. \A i \in 2..Len(r) : Later(r[i])
  BY <1>1, <1>2 DEF Shape, m, n
<1>6. \A i \in 1..Len(r) : Lone(r[i]) => i = Len(r)
  <2>. SUFFICES ASSUME NEW i \in 1..Len(r), Lone(r[i]) PROVE i = Len(r)
    OBVIOUS
  <2>1. CASE i \in 1..n /\ r[i] = q[i]
    <3>1. m = 1 /\ i = n
      BY <2>1 DEF Shape, m, n
    <3>. QED
      BY <1>1, <3>1
  <2>2. CASE i > n /\ i - n + 1 \in 2..m /\ r[i] = p[i - n + 1]
    <3>1. i - n + 1 = m
      BY <2>2 DEF Shape, m
    <3>. QED
      BY <1>1, <3>1
  <2>. QED
    BY <1>2, <2>1, <2>2
<1>7. \A i, j \in 1..Len(r) : i < j /\ r[i].op = "bind" => r[j].op # "scan"
  <2>. SUFFICES ASSUME NEW i \in 1..Len(r), NEW j \in 1..Len(r), i < j, r[i].op = "bind"
                PROVE  r[j].op # "scan"
    OBVIOUS
  <2>1. \A k \in 2..m : p[k].op # "bind"
    BY DEF Shape, m, Later
  <2>2. i \in 1..n /\ r[i] = q[i]
    BY <1>2, <2>1
  <2>3. m = 1
    BY <2>2 DEF m, n
  <2>4. Len(r) = n /\ j \in 1..n /\ r[j] = q[j]
    BY <1>1, <1>2, <2>3
  <2>. QED
    BY <2>2, <2>4 DEF Shape, n
<1>8. \A i, j \in 1..Len(r) : i < j /\ r[i].op = "reap" => r[j].op = "reap"
  <2>. SUFFICES ASSUME NEW i \in 1..Len(r), NEW j \in 1..Len(r), i < j, r[i].op = "reap"
                PROVE  r[j].op = "reap"
    OBVIOUS
  <2>1. CASE m = 1
    BY <1>1, <1>2, <2>1 DEF Shape, m, n
  <2>2. CASE m # 1
    <3>1. i > n
      BY <1>2, <2>2 DEF m, n
    <3>2. /\ i - n + 1 \in 2..m /\ j - n + 1 \in 2..m /\ i - n + 1 < j - n + 1
          /\ r[i] = p[i - n + 1] /\ r[j] = p[j - n + 1]
      BY <1>1, <1>2, <3>1
    <3>. QED
      BY <3>2 DEF Shape, m
  <2>. QED
    BY <2>1, <2>2
<1>9. Recovers(p) /\ Recovers(q) => Recovers(r)
  <2>. SUFFICES ASSUME Recovers(p), Recovers(q), NEW i \in 1..Len(r)
                PROVE  Finishes(r[i]) /\ r[i].op # "retry"
    BY DEF Recovers
  <2>1. CASE i \in 1..n /\ r[i] = q[i]
    BY <2>1 DEF Recovers, n
  <2>2. CASE i - n + 1 \in 2..m /\ r[i] = p[i - n + 1]
    BY <2>2 DEF Recovers, m
  <2>. QED
    BY <1>2, <2>1, <2>2
<1>. QED
  BY <1>4, <1>5, <1>6, <1>7, <1>8, <1>9 DEF Shape, r

LEMMA ShapeOfOne ==
    ASSUME NEW S, NEW p \in Seq(S), p # <<>>, Shape(p), NEW x,
           (Serves(x) /\ Serves(p[1])) \/ (Finishes(x) /\ Finishes(p[1])),
           Len(p) = 1 \/ (~Lone(x) /\ x.op \notin {"bind", "reap"})
    PROVE  /\ Shape(<<x>> \o Tail(p))
           /\ Recovers(p) /\ Finishes(x) /\ x.op # "retry" => Recovers(<<x>> \o Tail(p))
<1>. DEFINE q == <<x>>
<1>1. q \in Seq({x}) /\ Len(q) = 1 /\ q[1] = x
  OBVIOUS
<1>. HIDE DEF q
<1>2. Shape(q)
  BY <1>1 DEF Shape
<1>3. Finishes(x) /\ x.op # "retry" => Recovers(q)
  BY <1>1 DEF Recovers
<1>4. /\ \/ Serves(p[1]) /\ \A i \in 1..Len(q) : Serves(q[i])
         \/ Finishes(p[1]) /\ \A i \in 1..Len(q) : Finishes(q[i])
      /\ Len(p) = 1 \/ \A i \in 1..Len(q) : ~Lone(q[i]) /\ q[i].op \notin {"bind", "reap"}
  BY <1>1
<1>5. Shape(q \o Tail(p)) /\ (Recovers(p) /\ Recovers(q) => Recovers(q \o Tail(p)))
  BY <1>1, <1>2, <1>4, SplicedShape
<1>. QED
  BY <1>3, <1>5 DEF q

LEMMA ShapeOfRest ==
    ASSUME NEW S, NEW p \in Seq(S), p # <<>>, Shape(p)
    PROVE  /\ Shape(<<>> \o Tail(p))
           /\ Recovers(p) => Recovers(<<>> \o Tail(p))
<1>. DEFINE q == <<>>
<1>1. q \in Seq({}) /\ Len(q) = 0
  OBVIOUS
<1>2. Serves(p[1]) \/ Finishes(p[1])
  <2>1. 1 \in 1..Len(p)
    BY EmptySeq, LenProperties
  <2>. QED
    BY <2>1 DEF Shape
<1>. HIDE DEF q
<1>3. Shape(q) /\ Recovers(q)
  BY <1>1 DEF Shape, Recovers
<1>4. /\ \/ Serves(p[1]) /\ \A i \in 1..Len(q) : Serves(q[i])
         \/ Finishes(p[1]) /\ \A i \in 1..Len(q) : Finishes(q[i])
      /\ \A i \in 1..Len(q) : ~Lone(q[i]) /\ q[i].op \notin {"bind", "reap"}
  BY <1>1, <1>2
<1>5. Shape(q \o Tail(p)) /\ (Recovers(p) /\ Recovers(q) => Recovers(q \o Tail(p)))
  BY <1>1, <1>3, <1>4, SplicedShape
<1>. QED
  BY <1>3, <1>5 DEF q

\* Settling is the same with whatever comes behind it.
LEMMA ShapeOfSettle ==
    ASSUME NEW S, NEW p \in Seq(S), p # <<>>, Shape(p), NEW t, NEW s \in Result,
           Finishes(p[1])
    PROVE  /\ Shape(Settle(t, s) \o Tail(p))
           /\ Recovers(p) => Recovers(Settle(t, s) \o Tail(p))
<1>. DEFINE q == Settle(t, s)
            T == {SetState(t, s), Record(t, s), Unbind(t)}
<1>1. /\ q \in Seq(T) /\ Len(q) = 3
      /\ q[1] = SetState(t, s) /\ q[2] = Record(t, s) /\ q[3] = Unbind(t)
  BY DEF Settle
<1>2. s \in Settled /\ s # "closed" /\ s # "running"
  BY DEF Settled, Result
<1>. HIDE DEF q, T
<1>3. \A i \in 1..Len(q) : i = 1 \/ i = 2 \/ i = 3
  BY <1>1
<1>4. /\ Finishes(q[1]) /\ Finishes(q[2]) /\ Finishes(q[3])
      /\ Later(q[2]) /\ Later(q[3])
      /\ q[1].op = "set_state" /\ q[2].op = "record" /\ q[3].op = "unbind"
  BY <1>1, <1>2 DEF SetState, Record, Unbind, Finishes, Later
<1>5. \A i \in 1..Len(q) : /\ Finishes(q[i]) /\ ~Lone(q[i])
                           /\ q[i].op \notin {"bind", "reap", "retry"}
  BY <1>3, <1>4 DEF Lone, Dispatching
<1>6. \A i \in 2..Len(q) : Later(q[i])
  BY <1>1, <1>4
<1>7. Shape(q) /\ Recovers(q)
  BY <1>1, <1>5, <1>6 DEF Shape, Recovers
<1>8. Shape(q \o Tail(p)) /\ (Recovers(p) /\ Recovers(q) => Recovers(q \o Tail(p)))
  BY <1>1, <1>5, <1>7, SplicedShape
<1>. QED
  BY <1>7, <1>8 DEF q

LEMMA Turned ==
    ASSUME TaskInv, Alone, NEW q, Then("pump", q)
    PROVE  Pump' = q \o Tail(Pump) /\ Alone'
BY DEF TaskInv, Programs, Then, Pump, Alone, AllThreads

LEMMA Begun ==
    ASSUME TaskInv, Alone, NEW q, Begin("pump", q)
    PROVE  Pump' = q /\ Alone'
BY DEF TaskInv, Programs, Begin, Pump, Alone, AllThreads

\* The steps of the pump that tell its sessions, and those that end them.
ServeStep ==
    \/ DoReserve("pump") \/ DoPopIdle("pump") \/ DoSpawn("pump") \/ DoBind("pump")
    \/ DoReplay("pump") \/ DoScan("pump") \/ DoMatch("pump") \/ DoClaim("pump")
    \/ DoSend("pump") \/ DoLand("pump") \/ DoSetHop("pump")

EndStep ==
    \/ DoSetState("pump") \/ DoRecord("pump") \/ DoUnbind("pump") \/ DoCloseTab("pump")
    \/ DoEarlyExit("pump") \/ DoRetry("pump")

LEMMA PumpHead ==
    ASSUME TaskInv, PumpShape, Pump # <<>>
    PROVE  /\ Pump \in Seq(StepsNow)
           /\ Pump[1] = Head(prog["pump"]) /\ Pump[1] \in StepsNow
           /\ Len(Pump) \in Nat \ {0} /\ 1 \in 1..Len(Pump)
           /\ Serves(Pump[1]) \/ Finishes(Pump[1])
<1>1. Pump \in Seq(StepsNow)
  BY DEF TaskInv, Programs, Pump, AllThreads
<1>2. /\ Pump[1] = Head(prog["pump"]) /\ Pump[1] \in StepsNow
      /\ Len(Pump) \in Nat \ {0} /\ 1 \in 1..Len(Pump)
  BY <1>1, ProgramHead DEF Pump
<1>. QED
  BY <1>1, <1>2 DEF PumpShape, Shape

LEMMA PumpSteps ==
    ASSUME TaskInv, PumpShape, NEW w \in AllThreads, Step(w)
    PROVE  Pump # <<>> /\ (ServeStep \/ EndStep)
<1>1. prog[w] # <<>>
  BY DEF Step, Runs, DoReserve, DoPopIdle, DoSpawn, DoBind, DoReplay, DoScan, DoMatch,
         DoClaim, DoSend, DoLand, DoSetState, DoRecord, DoUnbind, DoCloseTab, DoEarlyExit,
         DoRetry, DoSetHop, DoSweep, DoProbe, DoReplayWaiting, DoBusy, DoBusyProbe,
         DoTimeouts, DoHandshake, DoStalled
<1>2. w = "pump" /\ Pump # <<>>
  BY <1>1 DEF PumpShape, Alone, Pump
<1>3. \A op \in {"sweep", "probe", "replay_waiting", "busy", "busy_probe", "timeouts",
                 "handshake", "stalled"} : ~Runs("pump", op)
  BY <1>2, PumpHead DEF Runs, Serves, Finishes, Dispatching
<1>4. ~DoSweep(w) /\ ~DoProbe(w) /\ ~DoReplayWaiting(w) /\ ~DoBusy(w) /\ ~DoBusyProbe(w)
      /\ ~DoTimeouts(w) /\ ~DoHandshake(w) /\ ~DoStalled(w)
  BY <1>2, <1>3 DEF DoSweep, DoProbe, DoReplayWaiting, DoBusy, DoBusyProbe, DoTimeouts,
                    DoHandshake, DoStalled
<1>. QED
  BY <1>2, <1>4 DEF Step, ServeStep, EndStep

\* A program with a first step that serves is over before the next boot.
LEMMA ServesUp ==
    ASSUME PumpShape, 1 \in 1..Len(Pump), Serves(Pump[1])
    PROVE  up
BY DEF PumpShape, Recovers, Serves, Finishes, Dispatching, Settled, Result

LEMMA ServeShape ==
    ASSUME TaskInv, PumpShape, Pump # <<>>, ServeStep
    PROVE  PumpShape'
<1>. DEFINE p == Pump
            x == Head(prog["pump"])
<1>. USE DEF PumpShape
<1>1. p \in Seq(StepsNow) /\ p[1] = x /\ 1 \in 1..Len(p) /\ Len(p) \in Nat
  BY PumpHead
<1>2. up' = up
  BY DEF ServeStep, DoReserve, DoPopIdle, DoSpawn, DoBind, DoReplay, DoScan, DoMatch,
         DoClaim, DoSend, DoLand, DoSetHop, process
<1>3. Serves(x) /\ x.op # "retry"
  BY DEF ServeStep, DoReserve, DoPopIdle, DoSpawn, DoBind, DoReplay, DoScan, DoMatch,
         DoClaim, DoSend, DoLand, DoSetHop, Runs, Serves, Dispatching
<1>4. up
  BY <1>1, <1>3, ServesUp
<1>5. ASSUME NEW q, Then("pump", q), Shape(q \o Tail(p)) PROVE PumpShape'
  BY <1>2, <1>4, <1>5, Turned
<1>6. ASSUME Then("pump", <<>>) PROVE PumpShape'
  BY <1>1, <1>5, <1>6, ShapeOfRest
<1>7. ASSUME NEW y, Then("pump", <<y>>), Serves(y),
             Lone(x) \/ (~Lone(y) /\ y.op \notin {"bind", "reap"})
      PROVE  PumpShape'
  <2>1. Len(p) = 1 \/ (~Lone(y) /\ y.op \notin {"bind", "reap"})
    BY <1>1, <1>7 DEF Shape
  <2>2. Shape(<<y>> \o Tail(p))
    BY <1>1, <1>3, <1>7, <2>1, ShapeOfOne
  <2>. QED
    BY <1>5, <1>7, <2>2
<1>8. CASE DoReserve("pump")
  <2>1. x.op = "reserve" /\ Then("pump", <<PopIdle(x.task, x.origin)>>)
    BY <1>8 DEF DoReserve, Runs
  <2>2. Lone(x) /\ Serves(PopIdle(x.task, x.origin))
    BY <2>1 DEF Lone, PopIdle, Serves, Dispatching
  <2>. QED
    BY <1>7, <2>1, <2>2
<1>9. CASE DoPopIdle("pump")
  <2>1. /\ x.op = "pop_idle"
        /\ \E y \in {Spawn(x.task, x.origin), Send(x.task, Last(pool), x.origin)} :
             Then("pump", <<y>>)
    BY <1>9 DEF DoPopIdle, Runs
  <2>2. Lone(x) /\ \A y \in {Spawn(x.task, x.origin), Send(x.task, Last(pool), x.origin)} :
                     Serves(y)
    BY <2>1 DEF Lone, Spawn, Send, Serves, Dispatching
  <2>. QED
    BY <1>7, <2>1, <2>2
<1>10. CASE DoSpawn("pump")
  <2>1. /\ x.op = "spawn"
        /\ \/ \E h \in Handle : Then("pump", <<Bind(x.task, h), Replay(h),
                                               SetState(x.task, "running")>>)
           \/ Then("pump", OnError(x.task, x.origin))
    BY <1>10 DEF DoSpawn, Runs
  <2>2. Len(p) = 1 /\ Tail(p) = <<>>
    <3>1. Len(p) = 1
      BY <1>1, <2>1 DEF Shape, Lone, Dispatching
    <3>2. p = <<x>>
      BY <1>1, <3>1
    <3>. QED
      BY <3>1, <3>2
  <2>3. CASE \E h \in Handle : Then("pump", <<Bind(x.task, h), Replay(h),
                                              SetState(x.task, "running")>>)
    <3>1. PICK h \in Handle : Then("pump", <<Bind(x.task, h), Replay(h),
                                             SetState(x.task, "running")>>)
      BY <2>3
    <3>. DEFINE a == Bind(x.task, h)
                b == Replay(h)
                c == SetState(x.task, "running")
                q == <<a, b, c>>
    <3>2. /\ a.op = "bind" /\ b.op = "replay"
          /\ c.op = "set_state" /\ c.state = "running"
      BY DEF Bind, Replay, SetState
    <3>3. Serves(a) /\ Serves(b) /\ Serves(c) /\ Later(b) /\ Later(c)
          /\ ~Lone(a) /\ ~Lone(b) /\ ~Lone(c)
      BY <3>2 DEF Serves, Later, Lone, Dispatching
    <3>4. Len(q) = 3 /\ q[1] = a /\ q[2] = b /\ q[3] = c /\ q \in Seq({a, b, c})
      OBVIOUS
    <3>5. q \o Tail(p) = q
      BY <2>2, <3>4, ConcatEmptySeq
    <3>6. Then("pump", q)
      BY <3>1
    <3>. HIDE DEF q, a, b, c
    <3>7. \A i \in 1..Len(q) : i = 1 \/ i = 2 \/ i = 3
      BY <3>4
    <3>8. Shape(q)
      <4>1. \A i \in 1..Len(q) : Serves(q[i]) /\ ~Lone(q[i]) /\ q[i].op \notin {"scan", "reap"}
        BY <3>2, <3>3, <3>4, <3>7
      <4>2. \A i \in 2..Len(q) : Later(q[i])
        BY <3>3, <3>4
      <4>. QED
        BY <4>1, <4>2 DEF Shape
    <3>. QED
      BY <1>5, <3>5, <3>6, <3>8
  <2>4. CASE Then("pump", OnError(x.task, x.origin))
    <3>1. OnError(x.task, x.origin) \o Tail(p) \in {<<>>, <<EarlyExit(x.task)>>}
      <4>1. <<>> \o <<>> = <<>> /\ \A y : <<y>> \o <<>> = <<y>>
        OBVIOUS
      <4>. QED
        BY <2>2, <4>1, Zenon DEF OnError
    <3>2. Shape(<<>>) /\ Shape(<<EarlyExit(x.task)>>)
      BY DEF Shape, EarlyExit, Finishes, Lone, Dispatching
    <3>. QED
      BY <1>5, <2>4, <3>1, <3>2
  <2>. QED
    BY <2>1, <2>3, <2>4
<1>11. CASE DoBind("pump") \/ DoLand("pump") \/ DoSetHop("pump")
  BY <1>6, <1>11 DEF DoBind, DoLand, DoSetHop
<1>12. CASE DoReplay("pump")
  <2>1. Then("pump", <<>>) \/ Then("pump", <<Scan(x.handle)>>)
    BY <1>12 DEF DoReplay
  <2>2. Serves(Scan(x.handle)) /\ ~Lone(Scan(x.handle)) /\ Scan(x.handle).op = "scan"
    BY DEF Scan, Serves, Lone, Dispatching
  <2>. QED
    BY <1>6, <1>7, <2>1, <2>2
<1>13. CASE DoScan("pump")
  <2>1. \E owed, fresh : Then("pump", <<Match(x.handle, owed, fresh)>>)
    BY <1>13 DEF DoScan
  <2>2. PICK owed, fresh : Then("pump", <<Match(x.handle, owed, fresh)>>)
    BY <2>1
  <2>. DEFINE y == Match(x.handle, owed, fresh)
  <2>3. Serves(y) /\ ~Lone(y) /\ y.op = "match"
    BY DEF Match, Serves, Lone, Dispatching
  <2>. QED
    BY <1>7, <2>2, <2>3
<1>14. CASE DoMatch("pump")
  <2>1. Then("pump", <<>>) \/ \E t : Then("pump", <<Claim(t, x.handle)>>)
    BY <1>14 DEF DoMatch
  <2>2. \A t : LET y == Claim(t, x.handle) IN Serves(y) /\ ~Lone(y) /\ y.op = "claim"
    BY DEF Claim, Serves, Lone, Dispatching
  <2>. QED
    BY <1>6, <1>7, <2>1, <2>2
<1>15. CASE DoClaim("pump")
  <2>. DEFINE y == Send(x.task, x.handle, "ready")
  <2>1. Then("pump", <<y>>)
    BY <1>15 DEF DoClaim
  <2>2. Serves(y) /\ ~Lone(y) /\ y.op = "send"
    BY DEF Send, Serves, Lone, Dispatching
  <2>. QED
    BY <1>7, <2>1, <2>2
<1>16. CASE DoSend("pump")
  <2>. DEFINE y == Land(x.task, x.handle)
  <2>1. /\ x.op = "send"
        /\ Then("pump", <<y>>) \/ Then("pump", OnError(x.task, x.origin))
    BY <1>16 DEF DoSend, Runs
  <2>2. Serves(y) /\ ~Lone(y) /\ y.op = "land"
    BY DEF Land, Serves, Lone, Dispatching
  <2>3. CASE Then("pump", OnError(x.task, x.origin)) /\ x.origin # "inbound"
    BY <1>6, <2>3 DEF OnError
  <2>4. CASE Then("pump", OnError(x.task, x.origin)) /\ x.origin = "inbound"
    <3>1. Len(p) = 1
      BY <1>1, <2>1, <2>4 DEF Shape, Lone
    <3>2. p = <<x>>
      BY <1>1, <3>1
    <3>3. OnError(x.task, x.origin) \o Tail(p) = <<EarlyExit(x.task)>>
      BY <2>4, <3>2 DEF OnError
    <3>4. Shape(<<EarlyExit(x.task)>>)
      BY DEF Shape, EarlyExit, Finishes, Lone, Dispatching
    <3>. QED
      BY <1>5, <2>4, <3>3, <3>4
  <2>. QED
    BY <1>7, <2>1, <2>2, <2>3, <2>4
<1>. QED
  BY <1>8, <1>9, <1>10, <1>11, <1>12, <1>13, <1>14, <1>15, <1>16 DEF ServeStep

LEMMA EndShape ==
    ASSUME TaskInv, PumpShape, Pump # <<>>, EndStep \/ DoReap
    PROVE  PumpShape'
<1>. DEFINE p == Pump
            x == Head(prog["pump"])
<1>. USE DEF PumpShape
<1>1. p \in Seq(StepsNow) /\ p[1] = x /\ 1 \in 1..Len(p) /\ Len(p) \in Nat
  BY PumpHead
<1>2. up' = up
  BY DEF EndStep, DoSetState, DoRecord, DoUnbind, DoCloseTab, DoEarlyExit, DoRetry, DoReap,
         process
<1>3. ASSUME NEW q, Then("pump", q), Shape(q \o Tail(p)),
             Recovers(p) => Recovers(q \o Tail(p))
      PROVE PumpShape'
  BY <1>2, <1>3, Turned
<1>4. ASSUME Then("pump", <<>>) PROVE PumpShape'
  BY <1>1, <1>3, <1>4, ShapeOfRest
<1>5. ASSUME NEW y, Then("pump", <<y>>), Finishes(y), Finishes(x), ~Lone(y),
             y.op \notin {"bind", "reap"}
      PROVE  PumpShape'
  <2>1. y.op # "retry"
    BY <1>5 DEF Lone
  <2>2. Shape(<<y>> \o Tail(p)) /\ (Recovers(p) => Recovers(<<y>> \o Tail(p)))
    BY <1>1, <1>5, <2>1, ShapeOfOne
  <2>. QED
    BY <1>3, <1>5, <2>2
<1>6. CASE DoSetState("pump") \/ DoRecord("pump") \/ DoCloseTab("pump")
  BY <1>4, <1>6 DEF DoSetState, DoRecord, DoCloseTab
<1>7. CASE DoUnbind("pump")
  <2>. DEFINE y == CloseTab(x.task, terminals[x.task])
  <2>1. Then("pump", <<>>) \/ Then("pump", <<y>>)
    BY <1>7 DEF DoUnbind
  <2>2. x.op = "unbind"
    BY <1>7 DEF DoUnbind, Runs
  <2>3. Finishes(x) /\ Finishes(y) /\ ~Lone(y) /\ y.op = "close_tab"
    BY <2>2 DEF CloseTab, Finishes, Lone, Dispatching
  <2>. QED
    BY <1>4, <1>5, <2>1, <2>3
<1>8. CASE DoEarlyExit("pump")
  <2>1. Then("pump", <<>>) \/ Then("pump", Settle(x.task, "failed"))
    BY <1>8 DEF DoEarlyExit
  <2>2. Finishes(x)
    BY <1>8 DEF DoEarlyExit, Runs, Finishes
  <2>3. /\ Shape(Settle(x.task, "failed") \o Tail(p))
        /\ Recovers(p) => Recovers(Settle(x.task, "failed") \o Tail(p))
    BY <1>1, <2>2, ShapeOfSettle DEF Result
  <2>. QED
    BY <1>3, <1>4, <2>1, <2>3
<1>9. CASE DoRetry("pump")
  <2>1. x.op = "retry" /\ (Then("pump", <<>>) \/ \E t : Then("pump", <<Reserve(t, "retry")>>))
    BY <1>9 DEF DoRetry, Runs
  <2>2. ASSUME NEW t, Then("pump", <<Reserve(t, "retry")>>) PROVE PumpShape'
    <3>1. Len(p) = 1
      BY <1>1, <2>1 DEF Shape, Lone
    <3>2. p = <<x>>
      BY <1>1, <3>1
    <3>3. <<Reserve(t, "retry")>> \o Tail(p) = <<Reserve(t, "retry")>>
      BY <3>2
    <3>4. Shape(<<Reserve(t, "retry")>>)
      BY DEF Shape, Reserve, Serves, Dispatching
    <3>5. ~Recovers(p)
      BY <1>1, <2>1 DEF Recovers
    <3>. QED
      BY <1>3, <2>2, <3>3, <3>4, <3>5
  <2>. QED
    BY <1>4, <2>1, <2>2
<1>10. CASE DoReap
  <2>. DEFINE y == EarlyExit(x.task)
  <2>1. x.op = "reap" /\ (Then("pump", <<>>) \/ Then("pump", <<y>>))
    BY <1>10 DEF DoReap, Runs
  <2>2. Finishes(x) /\ Finishes(y) /\ ~Lone(y) /\ y.op = "early_exit"
    BY <2>1 DEF EarlyExit, Finishes, Lone, Dispatching
  <2>. QED
    BY <1>4, <1>5, <2>1, <2>2
<1>. QED
  BY <1>6, <1>7, <1>8, <1>9, <1>10 DEF EndStep

LEMMA Fourth ==
    ASSUME NEW a, NEW b, NEW c, NEW d
    PROVE  <<a, b, c>> \o <<d>> = <<a, b, c, d>>
<1>. DEFINE S == {a, b, c, d}
            q == <<a, b, c>>
            r == <<d>>
            s == <<a, b, c, d>>
<1>1. q \in Seq(S) /\ r \in Seq(S) /\ s \in Seq(S) /\ Len(q) = 3 /\ Len(r) = 1 /\ Len(s) = 4
      /\ q[1] = a /\ q[2] = b /\ q[3] = c /\ r[1] = d
      /\ s[1] = a /\ s[2] = b /\ s[3] = c /\ s[4] = d
  OBVIOUS
<1>. HIDE DEF S, q, r, s
<1>2. /\ q \o r \in Seq(S) /\ Len(q \o r) = Len(q) + Len(r)
      /\ \A i \in 1..Len(q) + Len(r) :
           (q \o r)[i] = IF i <= Len(q) THEN q[i] ELSE r[i - Len(q)]
  BY <1>1, ConcatProperties, Zenon
<1>3. \A i \in 1..4 : (q \o r)[i] = s[i]
  BY <1>1, <1>2
<1>4. q \o r = s
  BY <1>1, <1>2, <1>3, SeqEqual
<1>. QED
  BY <1>4 DEF q, r, s

\* What the pump begins when it has nothing left.
Starts ==
    \/ \E t \in Task : OnTaskInbound(t)
    \/ HearReady \/ HearActivity \/ HearOut \/ HearRecycled \/ Reconnect

LEMMA StartShape ==
    ASSUME TaskInv, PumpShape, Starts
    PROVE  PumpShape'
<1>. USE DEF PumpShape
<1>1. up /\ up' = up
  BY DEF Starts, OnTaskInbound, HearReady, HearActivity, HearOut, HearRecycled, Reconnect,
         Hears, Hear, Idle, process
<1>2. ASSUME NEW q, Begin("pump", q), Shape(q) PROVE PumpShape'
  BY <1>1, <1>2, Begun
<1>3. Shape(<<>>)
  BY DEF Shape
<1>4. ASSUME NEW y, Serves(y) \/ Finishes(y) PROVE Shape(<<y>>)
  BY <1>4 DEF Shape
<1>5. ASSUME NEW t, NEW s \in Result, NEW y,
             y.op = "retry" \/ (y.op = "set_state" /\ y.state = "closed")
      PROVE  Shape(Settle(t, s)) /\ Shape(Settle(t, s) \o <<y>>)
  <2>. DEFINE a == SetState(t, s)
              b == Record(t, s)
              c == Unbind(t)
              q == <<a, b, c>>
              r == <<a, b, c, y>>
  <2>2. /\ a.op = "set_state" /\ a.state = s /\ b.op = "record" /\ c.op = "unbind"
        /\ s \in Settled
    BY DEF SetState, Record, Unbind, Settled
  <2>3. Finishes(a) /\ Finishes(b) /\ Finishes(c) /\ Finishes(y)
        /\ Later(b) /\ Later(c) /\ Later(y) /\ ~Lone(a) /\ ~Lone(b) /\ ~Lone(c)
        /\ y.op \notin {"bind", "reap"}
    BY <1>5, <2>2 DEF Finishes, Later, Lone, Settled, Dispatching
  <2>4. /\ Len(q) = 3 /\ q[1] = a /\ q[2] = b /\ q[3] = c
        /\ Len(r) = 4 /\ r[1] = a /\ r[2] = b /\ r[3] = c /\ r[4] = y
    OBVIOUS
  <2>5. Settle(t, s) = q
    BY DEF Settle
  <2>. HIDE DEF a, b, c
  <2>51. q \o <<y>> = r
    BY Fourth
  <2>. HIDE DEF q, r
  <2>6. /\ \A i \in 1..Len(q) : i = 1 \/ i = 2 \/ i = 3
        /\ \A i \in 1..Len(r) : i = 1 \/ i = 2 \/ i = 3 \/ i = 4
    BY <2>4
  <2>7. Shape(q)
    <3>1. \A i \in 1..Len(q) : Finishes(q[i]) /\ ~Lone(q[i]) /\ q[i].op \notin {"bind", "reap"}
      BY <2>2, <2>3, <2>4, <2>6
    <3>2. \A i \in 2..Len(q) : Later(q[i])
      BY <2>3, <2>4
    <3>. QED
      BY <3>1, <3>2 DEF Shape
  <2>8. Shape(r)
    <3>1. \A i \in 1..Len(r) : /\ Finishes(r[i]) /\ (Lone(r[i]) => i = Len(r))
                               /\ r[i].op \notin {"bind", "reap"}
      BY <2>2, <2>3, <2>4, <2>6
    <3>2. \A i \in 2..Len(r) : Later(r[i])
      BY <2>3, <2>4
    <3>. QED
      BY <3>1, <3>2 DEF Shape
  <2>. QED
    BY <2>5, <2>51, <2>7, <2>8
<1>6. CASE \E t \in Task : OnTaskInbound(t)
  <2>1. \E t : Begin("pump", <<Reserve(t, "inbound")>>)
    BY <1>6 DEF OnTaskInbound
  <2>2. \A t : Serves(Reserve(t, "inbound"))
    BY DEF Reserve, Serves, Dispatching
  <2>. QED
    BY <1>2, <1>4, <2>1, <2>2
<1>7. CASE HearReady
  <2>1. \E h : Begin("pump", <<Scan(h)>>)
    BY <1>7 DEF HearReady, Hear
  <2>2. \A h : Serves(Scan(h))
    BY DEF Scan, Serves
  <2>. QED
    BY <1>2, <1>4, <2>1, <2>2
<1>8. CASE HearActivity
  <2>1. Begin("pump", <<>>) \/ \E t, s, b : Begin("pump", <<SetHop(t, s, b)>>)
    BY <1>8, Zenon DEF HearActivity, Hear
  <2>2. \A t, s, b : Serves(SetHop(t, s, b))
    BY DEF SetHop, Serves
  <2>. QED
    BY <1>2, <1>3, <1>4, <2>1, <2>2
<1>9. CASE HearOut
  <2>1. \/ Begin("pump", <<>>)
        \/ \E t : \/ Begin("pump", Settle(t, "failed"))
                  \/ Begin("pump", Settle(t, "done") \o <<SetState(t, "closed")>>)
    BY <1>9, Zenon DEF HearOut, Hear
  <2>2. \A t : /\ Shape(Settle(t, "failed"))
               /\ Shape(Settle(t, "done") \o <<SetState(t, "closed")>>)
    <3>1. \A t : SetState(t, "closed").op = "set_state" /\ SetState(t, "closed").state = "closed"
      BY DEF SetState
    <3>. QED
      BY <1>5, <3>1 DEF Result
  <2>. QED
    BY <1>2, <1>3, <2>1, <2>2
<1>10. CASE HearRecycled
  <2>1. \E t, n : \/ Begin("pump", <<Unbind(t)>>)
                  \/ Begin("pump", Settle(t, "failed") \o <<Retry(t, n)>>)
                  \/ Begin("pump", Settle(t, "failed") \o <<>>)
    BY <1>10, Zenon DEF HearRecycled, Hear
  <2>2. \A t : Settle(t, "failed") \o <<>> = Settle(t, "failed")
    BY DEF Settle
  <2>3. \A t, n : Finishes(Unbind(t)) /\ Retry(t, n).op = "retry"
    BY DEF Unbind, Retry, Finishes
  <2>4. \A t, n : Shape(Settle(t, "failed")) /\ Shape(Settle(t, "failed") \o <<Retry(t, n)>>)
    BY <1>5, <2>3 DEF Result
  <2>. QED
    BY <1>2, <1>4, <2>1, <2>2, <2>3, <2>4
<1>11. CASE Reconnect
  <2>. DEFINE T == {terminals[u] : u \in Task} \cap history
  <2>1. PICK order \in SetToSeqs(T) : Begin("pump", [i \in DOMAIN order |-> Scan(order[i])])
    BY <1>11 DEF Reconnect
  <2>2. IsFiniteSet(T)
    BY ScannedFinite DEF TaskInv, Tables
  <2>3. Len(order) \in Nat /\ DOMAIN order = 1..Len(order)
    BY <2>2, InAnyOrder
  <2>. DEFINE q == [i \in DOMAIN order |-> Scan(order[i])]
  <2>4. Len(q) = Len(order) /\ \A i \in 1..Len(q) : q[i] = Scan(order[i])
    BY <2>3
  <2>5. \A h : /\ Serves(Scan(h)) /\ Later(Scan(h)) /\ ~Lone(Scan(h))
               /\ Scan(h).op = "scan"
    BY DEF Scan, Serves, Later, Lone, Dispatching
  <2>. HIDE DEF q
  <2>6. \A i \in 1..Len(q) : /\ Serves(q[i]) /\ Later(q[i]) /\ ~Lone(q[i])
                             /\ q[i].op = "scan"
    BY <2>4, <2>5
  <2>7. Len(q) \in Nat
    BY <2>3, <2>4
  <2>8. Shape(q)
    <3>1. \A i \in 2..Len(q) : i \in 1..Len(q)
      BY <2>7
    <3>. QED
      BY <2>6, <3>1 DEF Shape
  <2>. QED
    BY <1>2, <2>1, <2>8 DEF q
<1>. QED
  BY <1>6, <1>7, <1>8, <1>9, <1>10, <1>11 DEF Starts

\* What a step of the pump may be about.
LEMMA PumpNext ==
    ASSUME PumpAlone, TaskInv, PumpShape, [Next]_vars
    PROVE  \/ Starts
           \/ Pump # <<>> /\ (ServeStep \/ EndStep \/ DoReap)
           \/ Crash \/ Booted \/ Sessions \/ UNCHANGED vars
<1>1. /\ \A t \in Task : ~Submit(t) /\ ~StartCancel(t)
      /\ ~StartTick /\ \A h \in Handle : ~StartReplay(h)
  BY DEF PumpAlone, Submit, StartCancel, StartTick, StartReplay, Idle
<1>2. DoReap => Pump # <<>>
  BY DEF DoReap, Runs, Pump
<1>. QED
  BY <1>1, <1>2, PumpSteps DEF Next, Starts

LEMMA CrashProgram ==
    ASSUME TaskInv, Crash
    PROVE  /\ Alone' /\ Len(Pump') \in Nat
           /\ \A i \in 1..Len(Pump') : \E t \in Task :
                state[t] \in Owed /\ Pump'[i] = Reap(t, Text(bound[t]))
           /\ \A t \in Task : state[t] \in Owed =>
                \E i \in 1..Len(Pump') : Pump'[i] = Reap(t, Text(bound[t]))
           /\ \A i, j \in 1..Len(Pump') : i # j => Pump'[i].task # Pump'[j].task
<1>. DEFINE S == {t \in Task : state[t] \in Owed}
<1>1. S \subseteq Task /\ IsFiniteSet(S)
  BY FiniteTasks
<1>2. PICK order \in SetToSeqs(S) :
        prog' = [w \in AllThreads |->
                   IF w # "pump" THEN <<>>
                   ELSE [i \in DOMAIN order |-> Reap(order[i], Text(bound[order[i]]))]]
  BY DEF Crash
<1>3. Alone' /\ Pump' = [i \in DOMAIN order |-> Reap(order[i], Text(bound[order[i]]))]
  BY <1>2 DEF Alone, Pump, AllThreads
<1>. HIDE DEF S
<1>4. /\ Len(order) \in Nat /\ DOMAIN order = 1..Len(order)
      /\ \A i \in DOMAIN order : order[i] \in S
  BY <1>1, InAnyOrder, ElementOfSeq
<1>5. \A i, j \in DOMAIN order : i # j => order[i] # order[j]
  BY DEF SetToSeqs
<1>6. /\ Len(Pump') = Len(order)
      /\ \A i \in 1..Len(order) : Pump'[i] = Reap(order[i], Text(bound[order[i]]))
  BY <1>3, <1>4
<1>7. \A t \in S : \E i \in 1..Len(order) : order[i] = t
  BY <1>1, <1>4, EachInOrder
<1>8. \A i \in 1..Len(order) : Pump'[i].task = order[i]
  <2>1. \A t, h : Reap(t, h).task = t
    BY DEF Reap
  <2>. QED
    BY <1>6, <2>1
<1>. QED
  BY <1>3, <1>4, <1>5, <1>6, <1>7, <1>8 DEF S

LEMMA ShapeNext ==
    ASSUME PumpAlone, TaskInv, PumpShape, [Next]_vars
    PROVE  PumpShape'
<1>1. CASE Crash
  <2>1. /\ Alone' /\ Len(Pump') \in Nat
        /\ \A i \in 1..Len(Pump') : \E t \in Task : Pump'[i] = Reap(t, Text(bound[t]))
    BY <1>1, CrashProgram
  <2>2. \A t, h : /\ Finishes(Reap(t, h)) /\ Later(Reap(t, h)) /\ ~Lone(Reap(t, h))
                  /\ Reap(t, h).op = "reap"
    BY DEF Reap, Finishes, Later, Lone, Dispatching
  <2>3. \A i \in 1..Len(Pump') : /\ Finishes(Pump'[i]) /\ Later(Pump'[i])
                                 /\ ~Lone(Pump'[i]) /\ Pump'[i].op = "reap"
    BY <2>1, <2>2
  <2>4. \A i \in 2..Len(Pump') : i \in 1..Len(Pump')
    BY <2>1
  <2>5. Shape(Pump') /\ Recovers(Pump')
    BY <2>3, <2>4 DEF Shape, Recovers
  <2>. QED
    BY <2>1, <2>5 DEF PumpShape
<1>2. CASE Booted
  BY <1>2 DEF Booted, PumpShape, Pump, Alone
<1>3. CASE Sessions
  BY <1>3 DEF Sessions, AgentReady, AgentReports, AgentRecycles, TabDies, process,
              PumpShape, Pump, Alone
<1>4. CASE UNCHANGED vars
  BY <1>4 DEF vars, process, PumpShape, Pump, Alone
<1>. QED
  BY <1>1, <1>2, <1>3, <1>4, PumpNext, StartShape, ServeShape, EndShape

LEMMA PumpShapeHolds ==
    ASSUME PumpAlone PROVE Spec => [](TaskInv /\ PumpShape)
<1>1. Init => PumpShape
  <2>1. Shape(<<>>)
    BY DEF Shape
  <2>. QED
    BY <2>1 DEF Init, PumpShape, Alone, Pump, AllThreads
<1>2. TaskInv /\ PumpShape /\ [Next]_vars => PumpShape'
  BY ShapeNext
<1>. QED
  BY <1>1, <1>2, TaskInvHolds, PTL DEF Spec

-----------------------------------------------------------------------------
(***************************************************************************)
(* What the steps of the pump take for granted of the states of tasks.     *)
(***************************************************************************)

First(p, ops) == p # <<>> /\ p[1].op \in ops

\* A step that settles t unless the row is settled already.
Ends(x, t) ==
    /\ x.op \in {"set_state", "early_exit", "reap"} /\ x.task = t
    /\ x.op = "set_state" => x.state \in Settled

Settles(p, t) == First(p, {"set_state"}) /\ Ends(p[1], t)

Unbinds(p, t) == \E i \in 1..Len(p) : p[i].op = "unbind" /\ p[i].task = t

Owing == Dispatching \cup {"bind", "claim", "send", "land"}

OwedTasks(st) == {t \in Task : st[t] \in Owed}
FreshTasks(hp) == {t \in Task : hp[t] \in {"", "dispatched", "ready"}}

\* A task is served while it is owed; it is unbound, closed or failed in an
\* order that no result is lost to.
Granted(st, p, i) ==
    /\ p[i].op = "set_state" /\ p[i].state = "running" => st[p[i].task] \in Owed
    /\ p[i].op = "set_state" /\ p[i].state = "failed" =>
         st[p[i].task] \notin {"done", "closed"}
    /\ p[i].op = "unbind" \/ (p[i].op = "set_state" /\ p[i].state = "closed") =>
         st[p[i].task] \in Settled \/ Settles(p, p[i].task)
    /\ p[i].op = "reap" =>
         /\ st[p[i].task] \in Owed
         /\ \A j \in 1..(i - 1) : p[j].task # p[i].task

Sane(st, hp, p) ==
    /\ First(p, Owing) => st[p[1].task] \in Owed
    /\ First(p, {"match"}) => p[1].owed = OwedTasks(st) /\ p[1].fresh = FreshTasks(hp)
    /\ \A i \in 1..Len(p) : Granted(st, p, i)
    /\ \A t \in Task : Settles(p, t) => st[t] \in Settled \/ Unbinds(p, t)

\* The maps are about owed tasks, or a step to come forgets the task.
Kept(st, t, p) == st[t] \in Owed \/ Unbinds(p, t)

PumpState ==
    /\ Sane(state, hop, Pump)
    /\ \A t \in Task : t \in awaiting \/ terminals[t] # NoHandle => Kept(state, t, Pump)

LEMMA SplicedSane ==
    ASSUME NEW S, NEW p \in Seq(S), p # <<>>, NEW R, NEW q \in Seq(R),
           NEW st, NEW hp, NEW hq, Shape(p), Sane(st, hp, p), Sane(st, hq, q),
           p[1].op # "set_state",
           \/ Len(p) = 1 \/ Serves(p[1])
           \/ \A i \in 1..Len(q) : q[i].task = p[1].task /\ q[i].op # "reap"
    PROVE  Sane(st, hq, q \o Tail(p))
<1>. DEFINE r == q \o Tail(p)
            n == Len(q)
            m == Len(p)
<1>1. /\ m \in Nat \ {0} /\ n \in Nat /\ Len(r) = n + m - 1
      /\ \A i \in 1..Len(r) : r[i] = IF i <= n THEN q[i] ELSE p[i - n + 1]
      /\ \A i \in 1..n : i \in 1..Len(r) /\ r[i] = q[i]
  BY Spliced
<1>2. r # <<>> => 1 \in 1..Len(r)
  <2>1. r \in Seq(S \cup R)
    BY SeqMonotonic, HeadTailProperties, ConcatProperties
  <2>. QED
    BY <1>1, <2>1, EmptySeq, LenProperties
<1>3. n = 0 <=> q = <<>>
  BY EmptySeq
<1>. HIDE DEF r, n, m
<1>4. \A i \in 1..Len(r) : \/ i \in 1..n /\ r[i] = q[i]
                           \/ i > n /\ i - n + 1 \in 2..m /\ r[i] = p[i - n + 1]
  BY <1>1
<1>5. \A i \in 2..m : Later(p[i]) /\ Granted(st, p, i) /\ i \in 1..m
  BY DEF Shape, Sane, m
<1>6. CASE q = <<>>
  <2>1. r # <<>> => r[1] = p[2] /\ 2 \in 2..m
    BY <1>1, <1>2, <1>3, <1>4, <1>6
  <2>2. ~First(r, Owing \cup {"match"})
    BY <1>5, <2>1 DEF First, Later, Owing, Dispatching
  <2>3. \A t : ~Settles(p, t)
    BY DEF Settles, First
  <2>4. \A t \in Task : Settles(r, t) => st[t] \in Settled
    <3>. SUFFICES ASSUME NEW t \in Task, Settles(r, t) PROVE st[t] \in Settled
      OBVIOUS
    <3>1. p[2].op = "set_state" /\ p[2].state \in Settled /\ p[2].task = t /\ 2 \in 2..m
      BY <2>1 DEF Settles, First, Ends
    <3>2. p[2].state = "closed"
      BY <1>5, <3>1 DEF Later, Settled, Result
    <3>. QED
      BY <1>5, <2>3, <3>1, <3>2 DEF Granted
  <2>5. \A i \in 1..Len(r) : Granted(st, r, i)
    <3>. SUFFICES ASSUME NEW i \in 1..Len(r) PROVE Granted(st, r, i)
      OBVIOUS
    <3>1. /\ i + 1 \in 2..m /\ r[i] = p[i + 1]
          /\ \A j \in 1..(i - 1) : j + 1 \in 1..(i + 1 - 1) /\ r[j] = p[j + 1]
      BY <1>1, <1>3, <1>4, <1>6
    <3>2. Granted(st, p, i + 1)
      BY <1>5, <3>1
    <3>. DEFINE k == i + 1
    <3>3. ASSUME p[k].op = "reap", NEW j \in 1..(i - 1)
          PROVE  r[j].task # p[k].task
      <4>1. \A l \in 1..(k - 1) : p[l].task # p[k].task
        BY <3>2, <3>3 DEF Granted
      <4>. QED
        BY <3>1, <3>3, <4>1
    <3>4. Granted(st, p, k) /\ r[i] = p[k]
      BY <3>1, <3>2
    <3>. HIDE DEF k
    <3>. QED
      BY <2>3, <3>3, <3>4 DEF Granted
  <2>. QED
    BY <2>2, <2>4, <2>5 DEF Sane, First, r
<1>7. CASE q # <<>>
  <2>1. n > 0 /\ r[1] = q[1] /\ r # <<>>
    <3>1. n > 0 /\ Len(r) > 0 /\ 1 \in 1..n
      BY <1>1, <1>3, <1>7
    <3>2. Len(<<>>) = 0
      OBVIOUS
    <3>3. r # <<>>
      BY <3>1, <3>2
    <3>. QED
      BY <1>1, <3>1, <3>3
  <2>2. \A t : Settles(r, t) <=> Settles(q, t)
    BY <1>7, <2>1 DEF Settles, First
  <2>3. \A t : Unbinds(q, t) => Unbinds(r, t)
    BY <1>1 DEF Unbinds, n
  <2>4. \A ops : First(r, ops) <=> First(q, ops)
    BY <1>7, <2>1 DEF First
  <2>5. \A i \in 1..Len(r) : Granted(st, r, i)
    <3>. SUFFICES ASSUME NEW i \in 1..Len(r) PROVE Granted(st, r, i)
      OBVIOUS
    <3>1. CASE i \in 1..n /\ r[i] = q[i]
      <4>1. Granted(st, q, i)
        BY <3>1 DEF Sane, n
      <4>2. \A j \in 1..(i - 1) : r[j] = q[j]
        BY <1>1, <3>1
      <4>. QED
        BY <2>2, <3>1, <4>1, <4>2 DEF Granted
    <3>2. CASE i > n /\ i - n + 1 \in 2..m /\ r[i] = p[i - n + 1]
      <4>. DEFINE k == i - n + 1
      <4>1. Granted(st, p, k) /\ Later(p[k]) /\ 1 \in 1..(k - 1) /\ m # 1
        BY <1>1, <1>5, <3>2
      <4>2. \A t : ~Settles(p, t)
        BY DEF Settles, First
      <4>3. ASSUME p[k].op = "reap", NEW j \in 1..(i - 1)
            PROVE  r[j].task # p[k].task
        <5>1. p[1].task # p[k].task /\ \A l \in 1..(k - 1) : p[l].task # p[k].task
          BY <4>1, <4>3 DEF Granted
        <5>2. CASE j > n
          <6>1. j - n + 1 \in 1..(k - 1) /\ r[j] = p[j - n + 1]
            BY <1>1, <3>2, <5>2
          <6>. QED
            BY <5>1, <6>1
        <5>3. CASE j <= n
          <6>1. ~Serves(p[1])
            <7>1. Finishes(p[k]) /\ ~Serves(p[k]) /\ k \in 1..m /\ 1 \in 1..m
              BY <1>1, <3>2, <4>3 DEF Finishes, Serves, Dispatching
            <7>2. \A x : ~(Serves(x) /\ Finishes(x))
              BY DEF Serves, Finishes, Dispatching, Settled, Result
            <7>. QED
              BY <7>1, <7>2 DEF Shape, m
          <6>2. j \in 1..n /\ r[j] = q[j] /\ r[j].task = p[1].task
            BY <1>1, <4>1, <5>3, <6>1 DEF m, n
          <6>. QED
            BY <5>1, <6>2
        <5>. QED
          BY <1>1, <5>2, <5>3
      <4>4. r[i] = p[k]
        BY <3>2
      <4>. HIDE DEF k
      <4>. QED
        BY <4>1, <4>2, <4>3, <4>4 DEF Granted
    <3>. QED
      BY <1>4, <3>1, <3>2
  <2>6. \A t \in Task : Settles(r, t) => st[t] \in Settled \/ Unbinds(r, t)
    BY <2>2, <2>3 DEF Sane
  <2>7. /\ First(r, Owing) => st[r[1].task] \in Owed
        /\ First(r, {"match"}) => r[1].owed = OwedTasks(st) /\ r[1].fresh = FreshTasks(hq)
    BY <2>1, <2>4 DEF Sane
  <2>. QED
    BY <2>5, <2>6, <2>7 DEF Sane, r
<1>. QED
  BY <1>6, <1>7

LEMMA SaneOfRest ==
    ASSUME NEW S, NEW p \in Seq(S), p # <<>>, NEW st, NEW hp, NEW hq, Shape(p),
           Sane(st, hp, p), p[1].op # "set_state"
    PROVE  Sane(st, hq, <<>> \o Tail(p))
<1>. DEFINE q == <<>>
<1>1. q \in Seq({}) /\ Len(q) = 0
  OBVIOUS
<1>2. Sane(st, hq, q)
  BY DEF Sane, First, Settles
<1>. HIDE DEF q
<1>3. \A i \in 1..Len(q) : q[i].task = p[1].task /\ q[i].op # "reap"
  BY <1>1
<1>4. Sane(st, hq, q \o Tail(p))
  BY <1>1, <1>2, <1>3, SplicedSane
<1>. QED
  BY <1>4 DEF q

\* A step that takes nothing for granted but that its task is owed.
LEMMA SaneOne ==
    ASSUME NEW st, NEW hq, NEW y, y.op \notin {"set_state", "unbind", "reap", "match"},
           y.op \in Owing => st[y.task] \in Owed
    PROVE  Sane(st, hq, <<y>>)
BY DEF Sane, First, Settles, Granted

LEMMA SaneOfOne ==
    ASSUME NEW S, NEW p \in Seq(S), p # <<>>, NEW st, NEW hp, NEW hq, Shape(p),
           Sane(st, hp, p), p[1].op # "set_state", NEW y, Sane(st, hq, <<y>>),
           Len(p) = 1 \/ Serves(p[1]) \/ (y.task = p[1].task /\ y.op # "reap")
    PROVE  Sane(st, hq, <<y>> \o Tail(p))
<1>. DEFINE q == <<y>>
<1>1. q \in Seq({y}) /\ Len(q) = 1 /\ q[1] = y /\ Sane(st, hq, q)
  OBVIOUS
<1>. HIDE DEF q
<1>2. \/ Len(p) = 1 \/ Serves(p[1])
      \/ \A i \in 1..Len(q) : q[i].task = p[1].task /\ q[i].op # "reap"
  BY <1>1
<1>3. Sane(st, hq, q \o Tail(p))
  BY <1>1, <1>2, SplicedSane
<1>. QED
  BY <1>3 DEF q

\* The state of a task that was served, or settled, was so already.
LEMMA SaneOwed ==
    ASSUME NEW st, NEW st2, NEW hp, NEW hq, NEW p, ~First(p, {"match"}),
           \A t \in Task : /\ st[t] \in Owed <=> st2[t] \in Owed
                           /\ st[t] \in Settled <=> st2[t] \in Settled
                           /\ st[t] \in {"done", "closed"} <=> st2[t] \in {"done", "closed"},
           \A i \in 1..Len(p) : p[i].op \in {"set_state", "unbind", "reap"} => p[i].task \in Task,
           First(p, Owing) => p[1].task \in Task,
           Sane(st, hp, p)
    PROVE  Sane(st2, hq, p)
<1>1. \A i \in 1..Len(p) : Granted(st2, p, i)
  BY DEF Sane, Granted
<1>2. \A t \in Task : Settles(p, t) => st2[t] \in Settled \/ Unbinds(p, t)
  BY DEF Sane
<1>. QED
  BY <1>1, <1>2 DEF Sane

LEMMA StepTasks ==
    ASSUME NEW x \in StepsNow,
           x.op \in Owing \cup {"set_state", "unbind", "reap", "early_exit", "set_hop",
                                "record", "close_tab"}
    PROVE  x.task \in Task
<1>1. x.op \in {"reserve", "pop_idle", "spawn", "bind", "claim", "send", "set_state",
                "unbind", "early_exit", "reap", "close_tab", "record"} => x.task \in Born
  BY StepFields DEF StepsNow
<1>2. x.op \in {"land", "set_hop"} => x.task \in Delivered
  BY StepFields DEF StepsNow
<1>. QED
  BY <1>1, <1>2 DEF Born, Delivered, Owing, Dispatching

LEMMA ServeState ==
    ASSUME TaskInv, PumpShape, PumpState, Pump # <<>>, ServeStep
    PROVE  PumpState'
<1>. DEFINE p == Pump
            x == Head(prog["pump"])
            t == x.task
<1>1. p \in Seq(StepsNow) /\ p[1] = x /\ x \in StepsNow /\ 1 \in 1..Len(p) /\ Len(p) \in Nat
  BY PumpHead
<1>2. Serves(x) /\ x.op # "set_state" /\ x.op # "unbind" /\ Alone
  BY DEF ServeStep, DoReserve, DoPopIdle, DoSpawn, DoBind, DoReplay, DoScan, DoMatch,
         DoClaim, DoSend, DoLand, DoSetHop, Runs, Serves, Dispatching, PumpShape
<1>3. Shape(p) /\ Sane(state, hop, p)
  BY DEF PumpShape, PumpState
<1>4. x.op \in Owing => t \in Task /\ state[t] \in Owed
  BY <1>1, <1>3, StepTasks DEF Sane, First, Pump
<1>5. \A u \in Task : u \in awaiting \/ terminals[u] # NoHandle => state[u] \in Owed
  <2>1. \A i \in 1..Len(p) : p[i].op # "unbind"
    <3>1. \A y : ~(Serves(y) /\ Finishes(y))
      BY DEF Serves, Finishes, Dispatching, Settled, Result
    <3>2. \A i \in 1..Len(p) : Serves(p[i])
      BY <1>1, <1>2, <1>3, <3>1 DEF Shape
    <3>. QED
      BY <3>2 DEF Serves, Dispatching
  <2>. QED
    BY <2>1 DEF PumpState, Kept, Unbinds
<1>6. ASSUME UNCHANGED state, NEW q, Then("pump", q),
             Sane(state', hop', q \o Tail(p)),
             \A u \in Task : u \in awaiting' \/ terminals'[u] # NoHandle =>
                u \in awaiting \/ terminals[u] # NoHandle \/ (u = t /\ x.op \in Owing)
      PROVE  PumpState'
  <2>1. Pump' = q \o Tail(p)
    BY <1>2, <1>6, Turned
  <2>2. Sane(state, hop, Pump)'
    BY <1>6, <2>1
  <2>3. \A u \in Task : u \in awaiting' \/ terminals'[u] # NoHandle => state'[u] \in Owed
    BY <1>4, <1>5, <1>6
  <2>. QED
    BY <2>2, <2>3 DEF PumpState, Kept
<1>7. ASSUME UNCHANGED state, NEW y, Then("pump", <<y>>), Sane(state, hop', <<y>>),
             \A u \in Task : u \in awaiting' \/ terminals'[u] # NoHandle =>
                u \in awaiting \/ terminals[u] # NoHandle \/ (u = t /\ x.op \in Owing)
      PROVE  PumpState'
  <2>1. Sane(state, hop', <<y>> \o Tail(p))
    BY <1>1, <1>2, <1>3, <1>7, SaneOfOne
  <2>. QED
    BY <1>6, <1>7, <2>1
<1>8. ASSUME UNCHANGED state, Then("pump", <<>>),
             \A u \in Task : u \in awaiting' \/ terminals'[u] # NoHandle =>
                u \in awaiting \/ terminals[u] # NoHandle \/ (u = t /\ x.op \in Owing)
      PROVE  PumpState'
  <2>1. Sane(state, hop', <<>> \o Tail(p))
    BY <1>1, <1>2, <1>3, SaneOfRest
  <2>. QED
    BY <1>6, <1>8, <2>1
<1>10. CASE DoReserve("pump")
  <2>. DEFINE y == PopIdle(t, x.origin)
  <2>1. /\ x.op = "reserve" /\ Then("pump", <<y>>) /\ awaiting' = awaiting \cup {t}
        /\ UNCHANGED <<state, terminals>>
    BY <1>10 DEF DoReserve, Runs
  <2>2. y.op = "pop_idle" /\ y.task = t
    BY DEF PopIdle
  <2>3. x.op \in Owing /\ y.op \in Owing
    BY <2>1, <2>2 DEF Owing, Dispatching
  <2>. HIDE DEF y
  <2>4. Sane(state, hop', <<y>>)
    BY <1>4, <2>2, <2>3, SaneOne
  <2>. QED
    BY <1>7, <2>1, <2>3, <2>4
<1>11. CASE DoPopIdle("pump")
  <2>1. /\ x.op = "pop_idle" /\ awaiting' \subseteq awaiting
        /\ UNCHANGED <<state, terminals>>
        /\ \E y \in {Spawn(t, x.origin), Send(t, Last(pool), x.origin)} : Then("pump", <<y>>)
    BY <1>11 DEF DoPopIdle, Runs, db
  <2>2. \A y \in {Spawn(t, x.origin), Send(t, Last(pool), x.origin)} :
          y.op \in {"spawn", "send"} /\ y.task = t
    BY DEF Spawn, Send
  <2>3. x.op \in Owing /\ {"spawn", "send"} \subseteq Owing
    BY <2>1 DEF Owing, Dispatching
  <2>4. \A y \in {Spawn(t, x.origin), Send(t, Last(pool), x.origin)} : Sane(state, hop', <<y>>)
    BY <1>4, <2>2, <2>3, SaneOne
  <2>. QED
    BY <1>7, <2>1, <2>4
<1>12. CASE DoSpawn("pump")
  <2>1. /\ x.op = "spawn" /\ UNCHANGED <<state, hop, terminals, awaiting>>
        /\ \/ \E h \in Handle : Then("pump", <<Bind(t, h), Replay(h), SetState(t, "running")>>)
           \/ Then("pump", OnError(t, x.origin))
    BY <1>12 DEF DoSpawn, Runs, db, memory
  <2>2. x.op \in Owing
    BY <2>1 DEF Owing, Dispatching
  <2>3. Len(p) = 1
    BY <1>1, <1>3, <2>1 DEF Shape, Lone, Dispatching
  <2>4. ASSUME NEW h \in Handle, Then("pump", <<Bind(t, h), Replay(h), SetState(t, "running")>>)
        PROVE  PumpState'
    <3>. DEFINE a == Bind(t, h)
                b == Replay(h)
                c == SetState(t, "running")
                q == <<a, b, c>>
    <3>1. /\ a.op = "bind" /\ a.task = t /\ b.op = "replay"
          /\ c.op = "set_state" /\ c.state = "running" /\ c.task = t
      BY DEF Bind, Replay, SetState
    <3>2. /\ q # <<>> /\ Len(q) = 3 /\ q[1] = a /\ q[2] = b /\ q[3] = c
          /\ q \in Seq({a, b, c})
      OBVIOUS
    <3>3. Then("pump", q)
      BY <2>4
    <3>. HIDE DEF q, a, b, c
    <3>4. \A i \in 1..Len(q) : i = 1 \/ i = 2 \/ i = 3
      BY <3>2
    <3>5. \A i \in 1..Len(q) : Granted(state, q, i)
      BY <1>4, <2>2, <3>1, <3>2, <3>4 DEF Granted
    <3>6. (\A u \in Task : ~Settles(q, u)) /\ ~First(q, {"match"})
      BY <3>1, <3>2 DEF Settles, First
    <3>7. state[q[1].task] \in Owed
      BY <1>4, <2>2, <3>1, <3>2
    <3>8. Sane(state, hop', q)
      BY <3>5, <3>6, <3>7 DEF Sane
    <3>9. Sane(state, hop', q \o Tail(p))
      BY <1>1, <1>2, <1>3, <2>3, <3>2, <3>8, SplicedSane
    <3>. QED
      BY <1>6, <2>1, <3>3, <3>9
  <2>5. CASE Then("pump", OnError(t, x.origin))
    <3>1. Then("pump", <<>>) \/ Then("pump", <<EarlyExit(t)>>)
      BY <2>5 DEF OnError
    <3>2. Sane(state, hop', <<EarlyExit(t)>>)
      <4>1. EarlyExit(t).op = "early_exit" /\ "early_exit" \notin Owing
        BY DEF EarlyExit, Owing, Dispatching
      <4>. QED
        BY <4>1, SaneOne
    <3>. QED
      BY <1>7, <1>8, <2>1, <3>1, <3>2
  <2>. QED
    BY <2>1, <2>4, <2>5
<1>13. CASE DoBind("pump")
  <2>1. /\ x.op = "bind" /\ Then("pump", <<>>) /\ UNCHANGED <<state, awaiting>>
        /\ terminals' = [terminals EXCEPT ![t] = x.handle]
    BY <1>13 DEF DoBind, Runs
  <2>2. \A u \in Task : terminals'[u] # NoHandle => terminals[u] # NoHandle \/ u = t
    BY <2>1 DEF TaskInv, Tables, Maps
  <2>. QED
    BY <1>8, <2>1, <2>2 DEF Owing
<1>14. CASE DoReplay("pump")
  <2>1. /\ Then("pump", <<>>) \/ Then("pump", <<Scan(x.handle)>>)
        /\ UNCHANGED <<state, awaiting, terminals>>
    BY <1>14 DEF DoReplay, db, memory
  <2>2. Scan(x.handle).op = "scan" /\ "scan" \notin Owing
    BY DEF Scan, Owing, Dispatching
  <2>3. Sane(state, hop', <<Scan(x.handle)>>)
    BY <2>2, SaneOne
  <2>. QED
    BY <1>7, <1>8, <2>1, <2>3
<1>15. CASE DoScan("pump")
  <2>. DEFINE y == Match(x.handle, OwedTasks(state), FreshTasks(hop))
  <2>1. Then("pump", <<y>>) /\ UNCHANGED <<state, hop, awaiting, terminals>>
    BY <1>15 DEF DoScan, db, memory, OwedTasks, FreshTasks
  <2>2. y.op = "match" /\ y.owed = OwedTasks(state) /\ y.fresh = FreshTasks(hop)
    BY DEF Match
  <2>. HIDE DEF y
  <2>3. "match" \notin Owing
    BY DEF Owing, Dispatching
  <2>4. Sane(state, hop, <<y>>)
    BY <2>2, <2>3 DEF Sane, First, Settles, Granted
  <2>. QED
    BY <1>7, <2>1, <2>4
<1>16. CASE DoMatch("pump")
  <2>1. /\ x.op = "match" /\ UNCHANGED <<state, awaiting, terminals>>
        /\ \/ Then("pump", <<>>)
           \/ \E u \in Candidates(x.handle, x.owed, x.fresh) : Then("pump", <<Claim(u, x.handle)>>)
    BY <1>16 DEF DoMatch, Runs, db
  <2>2. Candidates(x.handle, x.owed, x.fresh) \subseteq OwedTasks(state)
    <3>1. x.owed = OwedTasks(state)
      BY <1>1, <1>3, <2>1 DEF Sane, First, Pump
    <3>. QED
      BY <3>1 DEF Candidates
  <2>3. \A u \in OwedTasks(state) : Sane(state, hop', <<Claim(u, x.handle)>>)
    <3>1. \A u : Claim(u, x.handle).op = "claim" /\ Claim(u, x.handle).task = u
      BY DEF Claim
    <3>2. \A u \in OwedTasks(state) : state[u] \in Owed
      BY DEF OwedTasks
    <3>. QED
      BY <3>1, <3>2, SaneOne
  <2>. QED
    BY <1>7, <1>8, <2>1, <2>2, <2>3
<1>17. CASE DoClaim("pump")
  <2>. DEFINE y == Send(t, x.handle, "ready")
  <2>1. /\ x.op = "claim" /\ Then("pump", <<y>>) /\ UNCHANGED state
        /\ awaiting' \subseteq awaiting
        /\ terminals' = [terminals EXCEPT ![t] = x.handle]
    BY <1>17 DEF DoClaim, Runs
  <2>2. y.op = "send" /\ y.task = t /\ x.op \in Owing /\ y.op \in Owing
    BY <2>1 DEF Send, Owing
  <2>. HIDE DEF y
  <2>3. Sane(state, hop', <<y>>)
    BY <1>4, <2>2, SaneOne
  <2>4. \A u \in Task : terminals'[u] # NoHandle => terminals[u] # NoHandle \/ u = t
    BY <2>1 DEF TaskInv, Tables, Maps
  <2>. QED
    BY <1>7, <2>1, <2>2, <2>3, <2>4
<1>18. CASE DoSend("pump")
  <2>. DEFINE y == Land(t, x.handle)
              z == EarlyExit(t)
  <2>1. /\ x.op = "send" /\ UNCHANGED <<state, awaiting, terminals>>
        /\ \/ Then("pump", <<y>>) \/ Then("pump", <<>>) \/ Then("pump", <<z>>)
    BY <1>18 DEF DoSend, Runs, db, memory, OnError
  <2>2. /\ y.op = "land" /\ y.task = t /\ y.op \in Owing /\ x.op \in Owing
        /\ z.op = "early_exit" /\ z.op \notin Owing
    BY <2>1 DEF Land, EarlyExit, Owing, Dispatching
  <2>. HIDE DEF y, z
  <2>3. Sane(state, hop', <<y>>) /\ Sane(state, hop', <<z>>)
    BY <1>4, <2>2, SaneOne
  <2>. QED
    BY <1>7, <1>8, <2>1, <2>3
<1>19. CASE DoLand("pump")
  <2>1. /\ x.op = "land" /\ Then("pump", <<>>) /\ UNCHANGED awaiting
        /\ terminals' = [terminals EXCEPT ![t] = x.handle]
        /\ state' = [state EXCEPT ![t] = "running"]
    BY <1>19 DEF DoLand, Runs
  <2>2. t \in Task /\ state[t] \in Owed
    BY <1>4, <2>1 DEF Owing
  <2>3. \A u \in Task : /\ state[u] \in Owed <=> state'[u] \in Owed
                        /\ state[u] \in Settled <=> state'[u] \in Settled
                        /\ state[u] \in {"done", "closed"} <=> state'[u] \in {"done", "closed"}
    BY <2>1, <2>2 DEF Owed, Settled, Result, TaskInv, Tables, Rows
  <2>4. Sane(state', hop, p)
    <3>1. \A i \in 1..Len(p) : p[i].op \in {"set_state", "unbind", "reap"} => p[i].task \in Task
      BY <1>1, StepTasks, ElementOfSeq
    <3>2. First(p, Owing) => p[1].task \in Task
      BY <1>1, <2>1, <2>2 DEF First, Pump
    <3>3. ~First(p, {"match"})
      BY <1>1, <2>1 DEF First
    <3>. QED
      BY <1>3, <2>3, <3>1, <3>2, <3>3, SaneOwed
  <2>5. Sane(state', hop', <<>> \o Tail(p))
    BY <1>1, <1>2, <1>3, <2>4, SaneOfRest
  <2>6. Pump' = <<>> \o Tail(p)
    BY <1>2, <2>1, Turned
  <2>7. Sane(state, hop, Pump)'
    BY <2>5, <2>6
  <2>8. \A u \in Task : u \in awaiting' \/ terminals'[u] # NoHandle => state'[u] \in Owed
    BY <1>5, <2>1, <2>2, <2>3 DEF TaskInv, Tables, Maps
  <2>. QED
    BY <2>7, <2>8 DEF PumpState, Kept
<1>20. CASE DoSetHop("pump")
  BY <1>8, <1>20 DEF DoSetHop
<1>. QED
  BY <1>10, <1>11, <1>12, <1>13, <1>14, <1>15, <1>16, <1>17, <1>18, <1>19, <1>20 DEF ServeStep

LEMMA SaneSettle ==
    ASSUME NEW st, NEW hp, NEW t \in Task, NEW s \in Result,
           s = "failed" => st[t] \notin {"done", "closed"}
    PROVE  /\ Sane(st, hp, Settle(t, s))
           /\ \A y : y.op = "retry" \/ y = SetState(t, "closed") =>
                Sane(st, hp, Settle(t, s) \o <<y>>)
<1>1. ASSUME NEW q, q # <<>>, Len(q) = 3 \/ Len(q) = 4,
             q[1] = SetState(t, s), q[2] = Record(t, s), q[3] = Unbind(t),
             Len(q) = 4 => q[4].op = "retry" \/ q[4] = SetState(t, "closed")
      PROVE  Sane(st, hp, q)
  <2>1. /\ q[1].op = "set_state" /\ q[1].state = s /\ q[1].task = t
        /\ q[2].op = "record" /\ q[3].op = "unbind" /\ q[3].task = t
        /\ s \in Settled /\ s \notin {"running", "closed"}
        /\ Len(q) = 4 => \/ q[4].op = "retry"
                         \/ q[4].op = "set_state" /\ q[4].state = "closed" /\ q[4].task = t
    BY <1>1 DEF SetState, Record, Unbind, Settled, Result
  <2>. DEFINE n == Len(q)
  <2>9. n = 3 \/ n = 4
    BY <1>1
  <2>. HIDE DEF n
  <2>2. \A i \in 1..Len(q) : i = 1 \/ i = 2 \/ i = 3 \/ (i = 4 /\ Len(q) = 4)
    <3>1. CASE n = 3
      BY <3>1 DEF n
    <3>2. CASE n = 4
      BY <3>2 DEF n
    <3>. QED
      BY <2>9, <3>1, <3>2
  <2>3. Settles(q, t)
    BY <1>1, <2>1 DEF Settles, First, Ends
  <2>4. 3 \in 1..Len(q)
    BY <1>1
  <2>5. Unbinds(q, t)
    BY <2>1, <2>4 DEF Unbinds
  <2>6. \A u : Settles(q, u) => u = t
    BY <2>1 DEF Settles, Ends
  <2>7. ~First(q, Owing) /\ ~First(q, {"match"})
    BY <2>1 DEF First, Owing, Dispatching
  <2>8. \A i \in 1..Len(q) : Granted(st, q, i)
    <3>1. Granted(st, q, 1)
      BY <2>1 DEF Granted
    <3>2. Granted(st, q, 2)
      BY <2>1 DEF Granted
    <3>3. Granted(st, q, 3)
      BY <2>1, <2>3 DEF Granted
    <3>4. Len(q) = 4 => Granted(st, q, 4)
      BY <2>1, <2>3 DEF Granted
    <3>. QED
      BY <2>2, <3>1, <3>2, <3>3, <3>4
  <2>. QED
    BY <2>5, <2>6, <2>7, <2>8 DEF Sane
<1>2. Sane(st, hp, Settle(t, s))
  BY <1>1 DEF Settle
<1>3. ASSUME NEW y, y.op = "retry" \/ y = SetState(t, "closed")
      PROVE  Sane(st, hp, Settle(t, s) \o <<y>>)
  <2>. DEFINE a == SetState(t, s)
              b == Record(t, s)
              c == Unbind(t)
              q == <<a, b, c, y>>
  <2>1. q # <<>> /\ Len(q) = 4 /\ q[1] = a /\ q[2] = b /\ q[3] = c /\ q[4] = y
    OBVIOUS
  <2>2. Settle(t, s) \o <<y>> = q
    BY Fourth DEF Settle
  <2>. HIDE DEF q
  <2>. QED
    BY <1>1, <1>3, <2>1, <2>2
<1>. QED
  BY <1>2, <1>3

LEMMA EndState ==
    ASSUME TaskInv, PumpShape, PumpState, Pump # <<>>, EndStep \/ DoReap
    PROVE  PumpState'
<1>. DEFINE p == Pump
            x == Head(prog["pump"])
            t == x.task
<1>1. p \in Seq(StepsNow) /\ p[1] = x /\ x \in StepsNow /\ 1 \in 1..Len(p) /\ Len(p) \in Nat
  BY PumpHead
<1>2. Alone /\ Shape(p) /\ Sane(state, hop, p) /\ Granted(state, p, 1)
  BY <1>1 DEF PumpShape, PumpState, Sane
<1>3. \A u \in Task : u \in awaiting \/ terminals[u] # NoHandle => Kept(state, u, p)
  BY DEF PumpState
<1>4. ASSUME NEW q, NEW R, q \in Seq(R), Then("pump", q)
      PROVE  /\ Pump' = q \o Tail(p)
             /\ \A u : (\E i \in 2..Len(p) : p[i].op = "unbind" /\ p[i].task = u)
                        => Unbinds(Pump', u)
  <2>1. Pump' = q \o Tail(p)
    BY <1>2, <1>4, Turned
  <2>2. \A i \in 2..Len(p) : i + Len(q) - 1 \in 1..Len(q \o Tail(p))
                             /\ (q \o Tail(p))[i + Len(q) - 1] = p[i]
    BY <1>1, <1>4, Spliced
  <2>. QED
    BY <2>1, <2>2 DEF Unbinds
<1>5. ASSUME UNCHANGED <<state, terminals, awaiting>>, x.op \notin {"set_state", "unbind"},
             NEW q, NEW R, q \in Seq(R), Then("pump", q), Sane(state, hop', q \o Tail(p))
      PROVE  PumpState'
  <2>1. \A u : Unbinds(p, u) => \E i \in 2..Len(p) : p[i].op = "unbind" /\ p[i].task = u
    BY <1>1, <1>5 DEF Unbinds
  <2>2. Sane(state, hop, Pump)'
    BY <1>4, <1>5
  <2>3. \A u \in Task : u \in awaiting' \/ terminals'[u] # NoHandle => Kept(state', u, Pump')
    BY <1>3, <1>4, <1>5, <2>1 DEF Kept
  <2>. QED
    BY <2>2, <2>3 DEF PumpState
<1>6. ASSUME x.op # "set_state" PROVE Sane(state, hop', <<>> \o Tail(p))
  BY <1>1, <1>2, <1>6, SaneOfRest
<1>7. <<>> \in Seq({})
  OBVIOUS
<1>8. CASE DoSetState("pump")
  <2>. DEFINE r == Tail(p)
              st == [state EXCEPT ![t] = x.state]
  <2>1. /\ x.op = "set_state" /\ Then("pump", <<>>) /\ UNCHANGED <<terminals, awaiting, hop>>
        /\ state' = st
    BY <1>8 DEF DoSetState, Runs, memory
  <2>2. t \in Task /\ st[t] = x.state /\ \A u \in Task \ {t} : st[u] = state[u]
    BY <1>1, <2>1, StepTasks DEF TaskInv, Tables, Rows
  <2>3. /\ r \in Seq(StepsNow) /\ Len(r) = Len(p) - 1
        /\ \A i \in 1..Len(r) : r[i] = p[i + 1] /\ i + 1 \in 2..Len(p) /\ i + 1 \in 1..Len(p)
    BY <1>1, HeadTailProperties
  <2>4. r # <<>> => 1 \in 1..Len(r)
    BY <2>3, EmptySeq, LenProperties
  <2>5. Pump' = r
    <3>1. Pump' = <<>> \o r
      BY <1>4, <1>7, <2>1
    <3>. QED
      BY <2>3, <3>1, ConcatEmptySeq
  <2>. HIDE DEF r, st
  <2>6. \A i \in 1..Len(r) : Later(r[i])
    BY <1>2, <2>3 DEF Shape
  <2>7. \A i \in 1..Len(r) : r[i].op \in {"set_state", "unbind", "reap"} => r[i].task \in Task
    BY <2>3, StepTasks, ElementOfSeq
  <2>8. \A i \in 1..Len(r) : Granted(st, r, i)
    <3>. SUFFICES ASSUME NEW i \in 1..Len(r) PROVE Granted(st, r, i)
      OBVIOUS
    <3>. DEFINE k == i + 1
                y == p[k]
    <3>1. k \in 2..Len(p) /\ r[i] = y /\ Granted(state, p, k) /\ 1 \in 1..(k - 1)
      BY <1>2, <2>3 DEF Sane
    <3>2. Later(y) /\ (y.op \in {"set_state", "unbind", "reap"} => y.task \in Task)
      BY <2>6, <2>7, <3>1
    <3>3. ASSUME NEW j \in 1..(i - 1), y.op = "reap" PROVE r[j].task # y.task
      <4>1. j \in 1..Len(r) /\ j + 1 \in 1..(k - 1) /\ r[j] = p[j + 1]
        BY <2>3, <3>3
      <4>. QED
        BY <3>1, <3>3, <4>1 DEF Granted
    <3>4. y.op = "reap" => y.task # t
      BY <1>1, <3>1 DEF Granted
    <3>5. y.op = "set_state" /\ y.state = "running" => x.state = "running"
      <4>1. \A z : ~(Serves(z) /\ Finishes(z))
        BY DEF Serves, Finishes, Dispatching, Settled, Result
      <4>2. k \in 1..Len(p)
        BY <2>3
      <4>3. y.op = "set_state" /\ y.state = "running" => Serves(y)
        BY DEF Serves
      <4>4. Serves(y) => Serves(x)
        BY <1>1, <1>2, <4>1, <4>2 DEF Shape
      <4>. QED
        BY <2>1, <4>3, <4>4 DEF Serves, Dispatching
    <3>6. y.op = "unbind" \/ (y.op = "set_state" /\ y.state = "closed") => x.state \in Settled
      <4>1. \A z : ~(Serves(z) /\ Finishes(z))
        BY DEF Serves, Finishes, Dispatching, Settled, Result
      <4>2. k \in 1..Len(p)
        BY <2>3
      <4>3. y.op = "unbind" \/ (y.op = "set_state" /\ y.state = "closed") => Finishes(y)
        BY DEF Finishes, Settled
      <4>4. Finishes(y) => Finishes(x)
        BY <1>1, <1>2, <4>1, <4>2 DEF Shape
      <4>. QED
        BY <2>1, <4>3, <4>4 DEF Finishes
    <3>7. \A u : Settles(p, u) => u = t
      BY <1>1 DEF Settles, Ends
    <3>. HIDE DEF k, y
    <3>8. y.op = "set_state" /\ y.state = "running" => st[y.task] \in Owed
      BY <2>2, <3>1, <3>2, <3>5 DEF Granted, Owed, y
    <3>9. ~(y.op = "set_state" /\ y.state = "failed")
      BY <3>2 DEF Later
    <3>10. y.op = "unbind" \/ (y.op = "set_state" /\ y.state = "closed") => st[y.task] \in Settled
      BY <2>2, <3>1, <3>2, <3>6, <3>7 DEF Granted, y
    <3>11. y.op = "reap" => st[y.task] \in Owed
      BY <2>2, <3>1, <3>2, <3>4 DEF Granted, y
    <3>. QED
      BY <3>1, <3>3, <3>8, <3>9, <3>10, <3>11 DEF Granted
  <2>9. ~First(r, Owing) /\ ~First(r, {"match"})
    BY <2>4, <2>6 DEF First, Later, Owing, Dispatching
  <2>10. \A u \in Task : Settles(r, u) => st[u] \in Settled
    <3>. SUFFICES ASSUME NEW u \in Task, Settles(r, u) PROVE st[u] \in Settled
      OBVIOUS
    <3>1. r[1].op = "set_state" /\ r[1].state \in Settled /\ r[1].task = u /\ 1 \in 1..Len(r)
      BY <2>4 DEF Settles, First, Ends
    <3>2. r[1].state = "closed"
      BY <2>6, <3>1 DEF Later, Settled, Result
    <3>3. st[u] \in Settled \/ (r[1].op = "set_state" /\ p[2] = r[1] /\ Granted(st, r, 1))
      BY <2>3, <2>8, <3>1
    <3>4. p[2] = r[1] /\ 2 \in 1..Len(p) /\ Granted(state, p, 2)
      BY <1>2, <2>3, <3>1 DEF Sane
    <3>5. state[u] \in Settled \/ u = t
      BY <1>1, <3>1, <3>2, <3>4 DEF Granted, Settles, Ends
    <3>6. x.state \in Settled
      <4>1. \A z : ~(Serves(z) /\ Finishes(z))
        BY DEF Serves, Finishes, Dispatching, Settled, Result
      <4>2. Finishes(p[2])
        BY <3>1, <3>4 DEF Finishes
      <4>3. Finishes(x)
        BY <1>1, <1>2, <3>4, <4>1, <4>2 DEF Shape
      <4>. QED
        BY <2>1, <4>3 DEF Finishes
    <3>. QED
      BY <2>2, <3>5, <3>6
  <2>11. Sane(st, hop, r)
    BY <2>8, <2>9, <2>10 DEF Sane
  <2>12. \A u \in Task : u \in awaiting' \/ terminals'[u] # NoHandle => Kept(state', u, Pump')
    <3>. SUFFICES ASSUME NEW u \in Task, u \in awaiting \/ terminals[u] # NoHandle
                  PROVE  st[u] \in Owed \/ Unbinds(r, u)
      BY <2>1, <2>5 DEF Kept
    <3>1. state[u] \in Owed \/ Unbinds(p, u)
      BY <1>3 DEF Kept
    <3>2. Unbinds(p, u) => Unbinds(r, u)
      <4>1. Unbinds(p, u) => \E i \in 2..Len(p) : p[i].op = "unbind" /\ p[i].task = u
        BY <1>1, <2>1 DEF Unbinds
      <4>. QED
        BY <1>4, <1>7, <2>1, <2>5, <4>1
    <3>3. CASE u = t /\ x.state \in Settled /\ state[u] \in Owed
      <4>1. Settles(p, u)
        BY <1>1, <2>1, <3>3 DEF Settles, First, Ends
      <4>2. state[u] \notin Settled
        BY <3>3 DEF Owed, Settled, Result
      <4>. QED
        BY <1>2, <3>2, <4>1, <4>2 DEF Sane
    <3>4. x.state \in Settled \/ x.state = "running"
      BY <1>1, <2>1, StepFields DEF StepsNow
    <3>. QED
      BY <2>2, <3>1, <3>2, <3>3, <3>4 DEF Owed
  <2>. QED
    BY <2>1, <2>5, <2>11, <2>12 DEF PumpState
<1>9. CASE DoRecord("pump")
  <2>1. /\ x.op = "record" /\ Then("pump", <<>>)
        /\ UNCHANGED <<state, terminals, awaiting>>
    BY <1>9 DEF DoRecord, Runs, memory
  <2>. QED
    BY <1>5, <1>6, <1>7, <2>1
<1>10. CASE DoUnbind("pump")
  <2>. DEFINE y == CloseTab(t, terminals[t])
  <2>1. /\ x.op = "unbind" /\ UNCHANGED state /\ awaiting' = awaiting \ {t}
        /\ terminals' = [terminals EXCEPT ![t] = NoHandle]
        /\ Then("pump", <<>>) \/ Then("pump", <<y>>)
    BY <1>10 DEF DoUnbind, Runs
  <2>2. y.op = "close_tab" /\ y.task = t
    BY DEF CloseTab
  <2>. HIDE DEF y
  <2>3. Sane(state, hop', <<y>>)
    BY <2>2, SaneOne DEF Owing, Dispatching
  <2>4. Sane(state, hop', <<y>> \o Tail(p))
    BY <1>1, <1>2, <2>1, <2>2, <2>3, SaneOfOne
  <2>5. \E q \in {<<>>, <<y>>} : /\ Then("pump", q) /\ q \in Seq({y})
                                 /\ Sane(state, hop', q \o Tail(p))
    BY <1>6, <2>1, <2>4
  <2>6. PICK q \in {<<>>, <<y>>} : /\ Then("pump", q) /\ q \in Seq({y})
                                   /\ Sane(state, hop', q \o Tail(p))
    BY <2>5
  <2>7. Sane(state, hop, Pump)'
    BY <1>4, <2>1, <2>6
  <2>8. \A u \in Task : u \in awaiting' \/ terminals'[u] # NoHandle => Kept(state', u, Pump')
    <3>. SUFFICES ASSUME NEW u \in Task, u \in awaiting' \/ terminals'[u] # NoHandle
                  PROVE  Kept(state', u, Pump')
      OBVIOUS
    <3>1. u # t /\ (u \in awaiting \/ terminals[u] # NoHandle)
      BY <2>1 DEF TaskInv, Tables, Maps
    <3>2. Unbinds(p, u) => \E i \in 2..Len(p) : p[i].op = "unbind" /\ p[i].task = u
      BY <1>1, <3>1 DEF Unbinds
    <3>. QED
      BY <1>3, <1>4, <2>1, <2>6, <3>1, <3>2 DEF Kept
  <2>. QED
    BY <2>7, <2>8 DEF PumpState
<1>11. CASE DoCloseTab("pump")
  <2>1. /\ x.op = "close_tab" /\ Then("pump", <<>>)
        /\ UNCHANGED <<state, terminals, awaiting>>
    BY <1>11 DEF DoCloseTab, Runs, memory, db
  <2>. QED
    BY <1>5, <1>6, <1>7, <2>1
<1>12. CASE DoEarlyExit("pump")
  <2>. DEFINE q == Settle(t, "failed")
  <2>1. /\ x.op = "early_exit" /\ UNCHANGED <<state, terminals, awaiting>>
        /\ \/ Then("pump", <<>>)
           \/ state[t] \notin {"done", "closed"} /\ Then("pump", q)
    BY <1>12 DEF DoEarlyExit, Runs, memory, db
  <2>2. t \in Task
    BY <1>1, <2>1, StepTasks
  <2>3. CASE state[t] \notin {"done", "closed"} /\ Then("pump", q)
    <3>1. Sane(state, hop', q)
      BY <2>2, <2>3, SaneSettle DEF Result
    <3>2. q \in Seq({SetState(t, "failed"), Record(t, "failed"), Unbind(t)})
          /\ \A i \in 1..Len(q) : q[i].task = t /\ q[i].op # "reap"
      BY DEF Settle, SetState, Record, Unbind
    <3>. HIDE DEF q
    <3>3. Sane(state, hop', q \o Tail(p))
      BY <1>1, <1>2, <2>1, <3>1, <3>2, SplicedSane
    <3>. QED
      BY <1>5, <2>1, <2>3, <3>2, <3>3
  <2>. QED
    BY <1>5, <1>6, <1>7, <2>1, <2>3
<1>13. CASE DoRetry("pump")
  <2>1. x.op = "retry" /\ UNCHANGED <<terminals, awaiting>>
    BY <1>13 DEF DoRetry, Runs, memory
  <2>2. CASE UNCHANGED state /\ Then("pump", <<>>)
    BY <1>5, <1>6, <1>7, <2>1, <2>2
  <2>3. CASE \E u \in Task : InsertRow(u, x.attempt + 1) /\ Then("pump", <<Reserve(u, "retry")>>)
    <3>1. PICK u \in Task : InsertRow(u, x.attempt + 1) /\ Then("pump", <<Reserve(u, "retry")>>)
      BY <2>3
    <3>2. Len(p) = 1 /\ p = <<x>>
      <4>1. Len(p) = 1
        BY <1>1, <1>2, <2>1 DEF Shape, Lone
      <4>. QED
        BY <1>1, <4>1
    <3>3. Pump' = <<Reserve(u, "retry")>>
      <4>1. Pump' = <<Reserve(u, "retry")>> \o Tail(p)
        BY <1>2, <3>1, Turned
      <4>. QED
        BY <3>2, <4>1
    <3>4. state' = [state EXCEPT ![u] = "pending"] /\ state'[u] \in Owed
      BY <3>1 DEF InsertRow, TaskInv, Tables, Rows, Owed
    <3>5. Sane(state', hop', <<Reserve(u, "retry")>>)
      <4>1. Reserve(u, "retry").op = "reserve" /\ Reserve(u, "retry").task = u
        BY DEF Reserve
      <4>. QED
        BY <3>4, <4>1, SaneOne
    <3>6. \A v \in Task : ~Unbinds(p, v)
      BY <1>1, <2>1, <3>2 DEF Unbinds
    <3>7. \A v \in Task : v \in awaiting \/ terminals[v] # NoHandle => state'[v] \in Owed
      BY <1>3, <3>4, <3>6 DEF Kept, TaskInv, Tables, Rows
    <3>. QED
      BY <2>1, <3>3, <3>5, <3>7 DEF PumpState, Kept
  <2>. QED
    BY <1>13, <2>2, <2>3 DEF DoRetry, db
<1>14. CASE DoReap
  <2>. DEFINE y == EarlyExit(t)
  <2>1. /\ x.op = "reap" /\ UNCHANGED <<state, awaiting>>
        /\ \/ Then("pump", <<>>) /\ terminals' = [terminals EXCEPT ![t] = x.handle]
           \/ Then("pump", <<y>>) /\ UNCHANGED terminals
    BY <1>14 DEF DoReap, Runs
  <2>2. y.op = "early_exit" /\ y.task = t
    BY DEF EarlyExit
  <2>. HIDE DEF y
  <2>3. Sane(state, hop', <<y>>)
    BY <2>2, SaneOne DEF Owing, Dispatching
  <2>4. Sane(state, hop', <<y>> \o Tail(p))
    BY <1>1, <1>2, <2>1, <2>2, <2>3, SaneOfOne
  <2>5. <<y>> \in Seq({y})
    OBVIOUS
  <2>6. CASE Then("pump", <<>>) /\ terminals' = [terminals EXCEPT ![t] = x.handle]
    <3>1. Sane(state, hop, Pump)'
      BY <1>4, <1>6, <1>7, <2>1, <2>6
    <3>2. state[t] \in Owed
      BY <1>1, <1>2, <2>1 DEF Granted
    <3>3. \A u \in Task : u \in awaiting' \/ terminals'[u] # NoHandle => Kept(state', u, Pump')
      <4>. SUFFICES ASSUME NEW u \in Task, u \in awaiting' \/ terminals'[u] # NoHandle
                    PROVE  Kept(state', u, Pump')
        OBVIOUS
      <4>1. u = t \/ u \in awaiting \/ terminals[u] # NoHandle
        BY <2>1, <2>6 DEF TaskInv, Tables, Maps
      <4>2. Unbinds(p, u) => \E i \in 2..Len(p) : p[i].op = "unbind" /\ p[i].task = u
        BY <1>1, <2>1 DEF Unbinds
      <4>. QED
        BY <1>3, <1>4, <1>7, <2>1, <2>6, <3>2, <4>1, <4>2 DEF Kept
    <3>. QED
      BY <3>1, <3>3 DEF PumpState
  <2>. QED
    BY <1>5, <2>1, <2>4, <2>5, <2>6
<1>. QED
  BY <1>8, <1>9, <1>10, <1>11, <1>12, <1>13, <1>14 DEF EndStep

LEMMA StartState ==
    ASSUME TaskInv, PumpShape, PumpState, Starts
    PROVE  PumpState'
<1>. DEFINE e == Head(mail)
            t == e.task
<1>1. Alone /\ Pump = <<>> /\ \A u \in Task : ~Unbinds(Pump, u)
  <2>1. Idle("pump")
    BY DEF Starts, OnTaskInbound, HearReady, HearActivity, HearOut, HearRecycled, Reconnect,
           Hears
  <2>2. Pump = <<>> /\ Alone
    BY <2>1 DEF Idle, PumpShape, Pump
  <2>3. Len(Pump) = 0
    BY <2>2
  <2>. QED
    BY <2>2, <2>3 DEF Unbinds
<1>2. \A u \in Task : u \in awaiting \/ terminals[u] # NoHandle => state[u] \in Owed
  BY <1>1 DEF PumpState, Kept
<1>3. ASSUME UNCHANGED <<state, terminals, awaiting>>, NEW q, Begin("pump", q),
             Sane(state, hop', q)
      PROVE  PumpState'
  <2>1. Pump' = q
    BY <1>1, <1>3, Begun
  <2>. QED
    BY <1>2, <1>3, <2>1 DEF PumpState, Kept
<1>4. ASSUME mail # <<>>, e.kind # "ready" PROVE t \in Task
  <2>1. e \in EventsNow
    BY <1>4, HeadTailProperties DEF TaskInv, Tables, World
  <2>. QED
    BY <1>4, <2>1 DEF EventsNow, Events, Delivered
<1>5. Sane(state, hop', <<>>)
  BY DEF Sane, First, Settles
<1>6. CASE \E u \in Task : OnTaskInbound(u)
  <2>1. PICK u \in Task : OnTaskInbound(u)
    BY <1>6
  <2>2. /\ InsertRow(u, 1) /\ Begin("pump", <<Reserve(u, "inbound")>>)
        /\ UNCHANGED <<terminals, awaiting>>
    BY <2>1 DEF OnTaskInbound, memory
  <2>3. state' = [state EXCEPT ![u] = "pending"] /\ state'[u] \in Owed
    BY <2>2 DEF InsertRow, TaskInv, Tables, Rows, Owed
  <2>4. Sane(state', hop', <<Reserve(u, "inbound")>>)
    <3>1. Reserve(u, "inbound").op = "reserve" /\ Reserve(u, "inbound").task = u
      BY DEF Reserve
    <3>. QED
      BY <2>3, <3>1, SaneOne
  <2>5. Pump' = <<Reserve(u, "inbound")>>
    BY <1>1, <2>2, Begun
  <2>6. \A v \in Task : v \in awaiting \/ terminals[v] # NoHandle => state'[v] \in Owed
    BY <1>2, <2>3 DEF TaskInv, Tables, Rows
  <2>. QED
    BY <2>2, <2>4, <2>5, <2>6 DEF PumpState, Kept
<1>7. CASE HearReady
  <2>1. Begin("pump", <<Scan(e.handle)>>) /\ UNCHANGED <<state, terminals, awaiting>>
    BY <1>7 DEF HearReady, Hear, db, memory
  <2>2. Sane(state, hop', <<Scan(e.handle)>>)
    <3>1. Scan(e.handle).op = "scan" /\ "scan" \notin Owing
      BY DEF Scan, Owing, Dispatching
    <3>. QED
      BY <3>1, SaneOne
  <2>. QED
    BY <1>3, <2>1, <2>2
<1>8. CASE HearActivity
  <2>1. /\ \/ Begin("pump", <<>>) \/ \E s, b : Begin("pump", <<SetHop(t, s, b)>>)
    BY <1>8, Zenon DEF HearActivity, Hear
  <2>2. UNCHANGED <<state, terminals, awaiting>>
    BY <1>8 DEF HearActivity, Hear, db, memory
  <2>3. \A s, b : Sane(state, hop', <<SetHop(t, s, b)>>)
    <3>1. \A s, b : SetHop(t, s, b).op = "set_hop" /\ "set_hop" \notin Owing
      BY DEF SetHop, Owing, Dispatching
    <3>. QED
      BY <3>1, SaneOne
  <2>. QED
    BY <1>3, <1>5, <2>1, <2>2, <2>3
<1>9. CASE HearOut
  <2>1. \/ Begin("pump", <<>>)
        \/ /\ state[t] \notin Settled /\ mail # <<>> /\ e.kind # "ready"
           /\ \/ Begin("pump", Settle(t, "failed"))
              \/ Begin("pump", Settle(t, "done") \o <<SetState(t, "closed")>>)
    BY <1>9, Zenon DEF HearOut, Hear, Hears
  <2>2. UNCHANGED <<state, terminals, awaiting>>
    BY <1>9 DEF HearOut, Hear, db, memory
  <2>3. t \in Task /\ state[t] \notin Settled =>
          /\ Sane(state, hop', Settle(t, "failed"))
          /\ Sane(state, hop', Settle(t, "done") \o <<SetState(t, "closed")>>)
    BY SaneSettle DEF Result, Settled
  <2>. QED
    BY <1>3, <1>4, <1>5, <2>1, <2>2, <2>3
<1>10. CASE HearRecycled
  <2>1. /\ mail # <<>> /\ e.kind # "ready"
        /\ \/ state[t] \in Settled /\ Begin("pump", <<Unbind(t)>>)
           \/ /\ state[t] \notin Settled
              /\ \/ Begin("pump", Settle(t, "failed") \o <<Retry(t, attempt[t])>>)
                 \/ Begin("pump", Settle(t, "failed") \o <<>>)
    BY <1>10 DEF HearRecycled, Hear, Hears
  <2>2. UNCHANGED <<state, terminals, awaiting>>
    BY <1>10 DEF HearRecycled, Hear, db, memory
  <2>3. Settle(t, "failed") \o <<>> = Settle(t, "failed")
    BY DEF Settle
  <2>4. t \in Task
    BY <1>4, <2>1
  <2>5. CASE state[t] \notin Settled
    <3>1. Retry(t, attempt[t]).op = "retry"
      BY DEF Retry
    <3>2. /\ Sane(state, hop', Settle(t, "failed"))
          /\ Sane(state, hop', Settle(t, "failed") \o <<Retry(t, attempt[t])>>)
      BY <2>4, <2>5, <3>1, SaneSettle DEF Result, Settled
    <3>. QED
      BY <1>3, <2>1, <2>2, <2>3, <2>5, <3>2
  <2>6. CASE state[t] \in Settled
    <3>. DEFINE y == Unbind(t)
    <3>1. y.op = "unbind" /\ y.task = t /\ "unbind" \notin Owing
      BY DEF Unbind, Owing, Dispatching
    <3>. HIDE DEF y
    <3>2. Sane(state, hop', <<y>>)
      BY <2>6, <3>1 DEF Sane, First, Settles, Granted
    <3>. QED
      BY <1>3, <2>1, <2>2, <2>6, <3>2 DEF y
  <2>. QED
    BY <2>5, <2>6
<1>11. CASE Reconnect
  <2>. DEFINE T == {terminals[u] : u \in Task} \cap history
  <2>1. PICK order \in SetToSeqs(T) : Begin("pump", [i \in DOMAIN order |-> Scan(order[i])])
    BY <1>11 DEF Reconnect
  <2>2. IsFiniteSet(T)
    BY ScannedFinite DEF TaskInv, Tables
  <2>3. Len(order) \in Nat /\ DOMAIN order = 1..Len(order)
    BY <2>2, InAnyOrder
  <2>. DEFINE q == [i \in DOMAIN order |-> Scan(order[i])]
  <2>4. Len(q) = Len(order) /\ \A i \in 1..Len(q) : q[i] = Scan(order[i])
    BY <2>3
  <2>5. q = <<>> \/ 1 \in 1..Len(q)
    <3>1. CASE Len(order) = 0
      BY <2>3, <3>1
    <3>2. CASE Len(order) # 0
      BY <2>3, <2>4, <3>2
    <3>. QED
      BY <3>1, <3>2
  <2>6. \A h : Scan(h).op = "scan"
    BY DEF Scan
  <2>. HIDE DEF q
  <2>7. \A i \in 1..Len(q) : q[i].op = "scan"
    BY <2>4, <2>6
  <2>8. Sane(state, hop', q)
    BY <2>5, <2>7 DEF Sane, First, Settles, Granted, Owing, Dispatching
  <2>9. UNCHANGED <<state, terminals, awaiting>>
    BY <1>11 DEF Reconnect, db, memory
  <2>. QED
    BY <1>3, <2>1, <2>8, <2>9 DEF q
<1>. QED
  BY <1>6, <1>7, <1>8, <1>9, <1>10, <1>11 DEF Starts

LEMMA StateNext ==
    ASSUME PumpAlone, TaskInv, PumpShape, PumpState, [Next]_vars
    PROVE  PumpState'
<1>1. CASE Crash
  <2>1. /\ UNCHANGED <<state, hop>> /\ awaiting' = {}
        /\ terminals' = [t \in Task |-> NoHandle]
    BY <1>1 DEF Crash, db
  <2>2. /\ Len(Pump') \in Nat
        /\ \A i \in 1..Len(Pump') : \E t \in Task :
             state[t] \in Owed /\ Pump'[i] = Reap(t, Text(bound[t]))
        /\ \A i, j \in 1..Len(Pump') : i # j => Pump'[i].task # Pump'[j].task
    BY <1>1, CrashProgram
  <2>3. \A t, h : Reap(t, h).op = "reap" /\ Reap(t, h).task = t
    BY DEF Reap
  <2>4. \A i \in 1..Len(Pump') : Pump'[i].op = "reap" /\ state[Pump'[i].task] \in Owed
    BY <2>2, <2>3
  <2>5. Pump' # <<>> => 1 \in 1..Len(Pump')
    <3>1. Pump' \in Seq(StepsNow')
      <4>1. TaskInv'
        BY <1>1, CrashTypes
      <4>. QED
        BY <4>1 DEF TaskInv, Programs, Pump, AllThreads
    <3>. QED
      BY <2>2, <3>1, EmptySeq, LenProperties
  <2>6. \A i \in 1..Len(Pump') : Granted(state, Pump', i)
    <3>. SUFFICES ASSUME NEW i \in 1..Len(Pump') PROVE Granted(state, Pump', i)
      OBVIOUS
    <3>1. \A j \in 1..(i - 1) : Pump'[j].task # Pump'[i].task
      BY <2>2
    <3>. QED
      BY <2>4, <3>1 DEF Granted
  <2>7. Sane(state, hop, Pump')
    BY <2>4, <2>5, <2>6 DEF Sane, First, Settles, Owing, Dispatching
  <2>. QED
    BY <2>1, <2>7 DEF PumpState
<1>2. CASE Booted
  BY <1>2 DEF Booted, PumpState, Pump, db, memory
<1>3. CASE Sessions
  BY <1>3 DEF Sessions, AgentReady, AgentReports, AgentRecycles, TabDies, db, memory,
              PumpState, Pump
<1>4. CASE UNCHANGED vars
  BY <1>4 DEF vars, db, memory, PumpState, Pump
<1>. QED
  BY <1>1, <1>2, <1>3, <1>4, PumpNext, StartState, ServeState, EndState

LEMMA PumpStateHolds ==
    ASSUME PumpAlone PROVE Spec => [](TaskInv /\ PumpShape /\ PumpState)
<1>1. Init => PumpState
  <2>1. \A st, hp : Sane(st, hp, <<>>)
    BY DEF Sane, First, Settles
  <2>2. ASSUME Init PROVE Pump = <<>>
    BY <2>2 DEF Init, Pump, AllThreads
  <2>3. ASSUME Init
        PROVE  awaiting = {} /\ \A u \in Task : terminals[u] = NoHandle
    BY <2>3 DEF Init
  <2>. QED
    BY <2>1, <2>2, <2>3 DEF PumpState
<1>2. TaskInv /\ PumpShape /\ PumpState /\ [Next]_vars => PumpState'
  BY StateNext
<1>. QED
  BY <1>1, <1>2, PumpShapeHolds, PTL DEF Spec

\* No step of the pump, no crash and no session makes a settled task owed again,
\* and no failure overwrites a result that was delivered.
THEOREM SettledTasksStay ==
    ASSUME PumpAlone PROVE Spec => SettledStays
<1>. DEFINE Stays == \A t \in Task :
                       /\ state[t] \in Settled => state'[t] \in Settled
                       /\ state[t] \in {"done", "closed"} => state'[t] # "failed"
<1>1. UNCHANGED state => Stays
  BY DEF Settled, Result
<1>2. ASSUME TaskInv, NEW t \in Task, NEW n, InsertRow(t, n) PROVE Stays
  BY <1>2 DEF InsertRow, Settled, Result, TaskInv, Tables, Rows
<1>3. ASSUME TaskInv, PumpShape, PumpState, Pump # <<>>, DoLand("pump") PROVE Stays
  <2>1. Pump[1] = Head(prog["pump"]) /\ Pump[1].op = "land"
    BY <1>3, PumpHead DEF DoLand, Runs
  <2>2. state[Pump[1].task] \in Owed
    BY <1>3, <2>1 DEF PumpState, Sane, First, Owing
  <2>3. state' = [state EXCEPT ![Pump[1].task] = "running"]
    BY <1>3, <2>1 DEF DoLand
  <2>. QED
    BY <1>3, <2>2, <2>3 DEF Owed, Settled, Result, TaskInv, Tables, Rows
<1>4. ASSUME TaskInv, PumpShape, PumpState, Pump # <<>>, DoSetState("pump") PROVE Stays
  <2>. DEFINE x == Pump[1]
  <2>1. x = Head(prog["pump"]) /\ x.op = "set_state" /\ 1 \in 1..Len(Pump) /\ x \in StepsNow
    BY <1>4, PumpHead DEF DoSetState, Runs
  <2>2. Granted(state, Pump, 1)
    BY <1>4, <2>1 DEF PumpState, Sane
  <2>3. state' = [state EXCEPT ![x.task] = x.state]
    BY <1>4, <2>1 DEF DoSetState
  <2>4. x.state \in Settled \cup {"running"}
    BY <2>1, StepFields DEF StepsNow
  <2>. QED
    BY <1>4, <2>1, <2>2, <2>3, <2>4 DEF Granted, Owed, Settled, Result, TaskInv, Tables, Rows
<1>5. ASSUME TaskInv, PumpShape, PumpState, Pump # <<>>, ServeStep PROVE Stays
  BY <1>1, <1>3, <1>5 DEF ServeStep, DoReserve, DoPopIdle, DoSpawn, DoBind, DoReplay,
     DoScan, DoMatch, DoClaim, DoSend, DoSetHop, db
<1>6. ASSUME TaskInv, PumpShape, PumpState, Pump # <<>>, EndStep \/ DoReap PROVE Stays
  BY <1>1, <1>2, <1>4, <1>6 DEF EndStep, DoRecord, DoUnbind, DoCloseTab, DoEarlyExit,
     DoRetry, DoReap, db
<1>7. ASSUME TaskInv, Starts PROVE Stays
  BY <1>1, <1>2, <1>7 DEF Starts, OnTaskInbound, HearReady, HearActivity, HearOut,
     HearRecycled, Reconnect, Hear, db
<1>8. ASSUME Crash \/ Booted \/ Sessions \/ UNCHANGED vars PROVE Stays
  BY <1>1, <1>8 DEF Crash, Booted, Sessions, AgentReady, AgentReports, AgentRecycles,
     TabDies, vars, db
<1>9. TaskInv /\ PumpShape /\ PumpState /\ [Next]_vars => [Stays]_vars
  BY <1>5, <1>6, <1>7, <1>8, PumpNext
<1>. QED
  BY <1>9, PumpStateHolds, PTL DEF SettledStays, Spec

-----------------------------------------------------------------------------
(***************************************************************************)
(* What the steps and the watchdogs know of a task that is owed.           *)
(***************************************************************************)

Ending(p, t) == \E i \in 1..Len(p) : Ends(p[i], t)

\* What a session tells of its hop is true only if no answer was lost.
Doubtless == "answer" \notin Faults \/ Speech \cap {"busy", "idle_pending_exit"} = {}

At(p, op, t) == First(p, {op}) /\ p[1].task = t

\* The task runs at a tab its row names, or a guard of the reap loop or a step
\* to come looks at it.
Guarded(t, p) ==
    /\ ~up => Ending(p, t)
    /\ t \in running => state[t] = "running" /\ bound[t].handle # NoHandle
    /\ t \notin running =>
         \/ Ending(p, t) \/ At(p, "reserve", t)
         \/ clock[t] \in {"dispatched", "ready"}
         \/ clock[t] = "idle" /\ t \notin pending_exit
    /\ "answer" \notin Faults /\ t \in Delivered =>
         t \in running \/ At(p, "land", t) \/ Ending(p, t)

PumpWatch ==
    /\ "idle_pending_exit" \notin Speech => pending_exit = {}
    /\ \A t \in Task : state[t] \in Owed /\ ~Adopted(t) => Guarded(t, Pump)

\* What a step leaves alone of a task.
Aside(t) ==
    /\ state'[t] = state[t] /\ bound'[t] = bound[t] /\ clock'[t] = clock[t]
    /\ holder'[t] = holder[t] /\ up' = up
    /\ t \in running' <=> t \in running
    /\ t \in pending_exit' <=> t \in pending_exit

LEMMA GuardStays ==
    ASSUME NEW t \in Task, Aside(t), Guarded(t, Pump),
           Ending(Pump, t) => Ending(Pump', t),
           \A op \in {"reserve", "land"} : At(Pump, op, t) => At(Pump', op, t)
    PROVE  Guarded(t, Pump)'
BY DEF Guarded, Aside, Delivered

\* A step that does not end the task leaves the end of it to come.
LEMMA EndingStays ==
    ASSUME NEW S, NEW p \in Seq(S), p # <<>>, NEW R, NEW q \in Seq(R), NEW t,
           ~Ends(p[1], t), Ending(p, t)
    PROVE  Ending(q \o Tail(p), t)
<1>1. PICK i \in 1..Len(p) : Ends(p[i], t)
  BY DEF Ending
<1>2. i \in 2..Len(p)
  <2>1. Len(p) \in Nat
    BY LenProperties
  <2>. QED
    BY <1>1, <2>1
<1>3. i + Len(q) - 1 \in 1..Len(q \o Tail(p)) /\ (q \o Tail(p))[i + Len(q) - 1] = p[i]
  BY <1>2, Spliced
<1>. QED
  BY <1>1, <1>3 DEF Ending

LEMMA SplicedHead ==
    ASSUME NEW S, NEW p \in Seq(S), p # <<>>, NEW R, NEW q \in Seq(R), 1 \in 1..Len(q)
    PROVE  1 \in 1..Len(q \o Tail(p)) /\ (q \o Tail(p))[1] = q[1]
BY Spliced

\* No step forgets that a task was adopted.
LEMMA AdoptedStays ==
    ASSUME TaskInv, NEW t \in Task, NEW s,
           lines'[t] = lines[t] \/ lines'[t] = Append(lines[t], s), Adopted(t)
    PROVE  Adopted(t)'
<1>1. lines[t] \in Seq(Result \cup {"adopted"})
  BY DEF TaskInv, Tables, Rows
<1>2. PICK i \in 1..Len(lines[t]) : lines[t][i] = "adopted"
  BY <1>1, LenProperties DEF Adopted, ToSet
<1>3. CASE lines'[t] = lines[t]
  BY <1>3 DEF Adopted
<1>4. CASE lines'[t] = Append(lines[t], s)
  <2>1. i \in DOMAIN lines'[t] /\ lines'[t][i] = "adopted"
    BY <1>1, <1>2, <1>4, SeqMonotonic
  <2>. QED
    BY <2>1 DEF Adopted, ToSet
<1>. QED
  BY <1>3, <1>4

LEMMA ServeWatch ==
    ASSUME Doubtless, TaskInv, PumpShape, PumpState, PumpWatch, Pump # <<>>, ServeStep
    PROVE  PumpWatch'
<1>. DEFINE p == Pump
            x == Head(prog["pump"])
<1>0. PICK t : t = x.task
  OBVIOUS
<1>. USE <1>0
<1>1. /\ p \in Seq(StepsNow) /\ p[1] = x /\ x \in StepsNow /\ 1 \in 1..Len(p)
      /\ Len(p) \in Nat
  BY PumpHead
<1>2. /\ Serves(x) /\ x.op \notin {"set_state", "early_exit", "reap"} /\ Alone
      /\ up /\ up' = up /\ lines' = lines
  <2>1. /\ Serves(x) /\ x.op \notin {"set_state", "early_exit", "reap"} /\ Alone
        /\ up' = up /\ lines' = lines
    BY DEF ServeStep, DoReserve, DoPopIdle, DoSpawn, DoBind, DoReplay, DoScan, DoMatch,
           DoClaim, DoSend, DoLand, DoSetHop, Runs, Serves, Dispatching, PumpShape,
           process, db
  <2>. QED
    BY <1>1, <2>1, ServesUp
<1>3. \A u : ~Ends(p[1], u)
  BY <1>1, <1>2 DEF Ends
<1>4. x.op \in Owing => t \in Task /\ state[t] \in Owed
  BY <1>1, StepTasks DEF PumpState, Sane, First, Pump
<1>5. ASSUME NEW q, NEW R, q \in Seq(R), Then("pump", q)
      PROVE  Pump' = q \o Tail(p) /\ \A u : Ending(Pump, u) => Ending(Pump', u)
  <2>1. Pump' = q \o Tail(p)
    BY <1>2, <1>5, Turned
  <2>. QED
    BY <1>1, <1>3, <1>5, <2>1, EndingStays
<1>6. \A u : \A op \in {"reserve", "land"} : At(p, op, u) => x.op = op /\ u = t
  BY <1>1 DEF At, First
<1>7. ASSUME NEW q, NEW R, q \in Seq(R), Then("pump", q),
             "idle_pending_exit" \notin Speech => pending_exit' = {},
             \A u \in Task : \/ Aside(u) /\ (u = t => x.op \notin {"reserve", "land"})
                             \/ state'[u] \in Owed /\ ~Adopted(u) => Guarded(u, Pump)'
      PROVE  PumpWatch'
  <2>. SUFFICES ASSUME NEW u \in Task, state'[u] \in Owed, ~Adopted(u)
                PROVE  Guarded(u, Pump)'
    BY <1>2, <1>7 DEF PumpWatch, Adopted
  <2>1. CASE Aside(u) /\ (u = t => x.op \notin {"reserve", "land"})
    <3>1. Guarded(u, Pump)
      BY <2>1 DEF PumpWatch, Aside
    <3>. QED
      BY <1>5, <1>6, <1>7, <2>1, <3>1, GuardStays
  <2>. QED
    BY <1>7, <2>1
<1>8. ASSUME NEW q, NEW R, q \in Seq(R), Then("pump", q), x.op \notin {"reserve", "land"},
             UNCHANGED <<state, bound, clock, holder, running, pending_exit>>
      PROVE  PumpWatch'
  <2>1. \A u \in Task : Aside(u)
    BY <1>2, <1>8 DEF Aside
  <2>2. "idle_pending_exit" \notin Speech => pending_exit' = {}
    BY <1>8 DEF PumpWatch
  <2>. QED
    BY <1>7, <1>8, <2>1, <2>2
<1>9. ASSUME t \in Task, state[t] \in Owed, ~Adopted(t) PROVE Guarded(t, p)
  BY <1>9 DEF PumpWatch
<1>10. \A y : <<y>> \in Seq({y})
  OBVIOUS
<1>11. <<>> \in Seq({})
  OBVIOUS
<1>12. CASE DoReserve("pump")
  <2>. DEFINE y == PopIdle(t, x.origin)
  <2>1. /\ x.op = "reserve" /\ Then("pump", <<y>>)
        /\ clock' = [clock EXCEPT ![t] = "dispatched"]
        /\ UNCHANGED <<state, bound, holder, running, pending_exit>>
    BY <1>12 DEF DoReserve, Runs, agents
  <2>2. \A u \in Task : u = t \/ Aside(u)
    BY <1>2, <2>1 DEF Aside
  <2>3. t \in Task /\ clock'[t] = "dispatched"
    BY <1>4, <2>1 DEF Owing, Dispatching, TaskInv, Tables, Maps
  <2>4. ASSUME state'[t] \in Owed, ~Adopted(t) PROVE Guarded(t, Pump)'
    <3>1. Guarded(t, p)
      BY <1>9, <2>1, <2>3, <2>4
    <3>2. ~At(p, "land", t)
      BY <1>6, <2>1
    <3>3. Ending(Pump, t) => Ending(Pump', t)
      BY <1>5, <1>10, <2>1
    <3>. QED
      BY <1>2, <2>1, <2>3, <3>1, <3>2, <3>3 DEF Guarded, Delivered
  <2>. HIDE DEF y
  <2>5. "idle_pending_exit" \notin Speech => pending_exit' = {}
    BY <2>1 DEF PumpWatch
  <2>. QED
    BY <1>7, <1>10, <2>1, <2>2, <2>4, <2>5
<1>13. CASE DoPopIdle("pump")
  <2>1. /\ x.op = "pop_idle"
        /\ UNCHANGED <<state, bound, clock, holder, running, pending_exit>>
        /\ \E y : Then("pump", <<y>>)
    BY <1>13 DEF DoPopIdle, Runs, db, agents
  <2>. QED
    BY <1>8, <1>10, <2>1
<1>14. CASE DoSpawn("pump")
  <2>1. /\ x.op = "spawn"
        /\ UNCHANGED <<state, bound, clock, holder, running, pending_exit>>
        /\ \/ \E a, b, c : Then("pump", <<a, b, c>>)
           \/ \E y : Then("pump", <<y>>)
           \/ Then("pump", <<>>)
    BY <1>14 DEF DoSpawn, Runs, db, memory, OnError
  <2>2. \A a, b, c : <<a, b, c>> \in Seq({a, b, c})
    OBVIOUS
  <2>. QED
    BY <1>8, <1>10, <1>11, <2>1, <2>2
<1>15. CASE DoBind("pump")
  <2>1. /\ x.op = "bind" /\ Then("pump", <<>>)
        /\ bound' = [bound EXCEPT ![t] = [handle |-> x.handle, json |-> TRUE]]
        /\ UNCHANGED <<state, clock, holder, running, pending_exit>>
    BY <1>15 DEF DoBind, Runs, agents
  <2>2. \A u \in Task : u = t \/ Aside(u)
    BY <1>2, <2>1 DEF Aside
  <2>3. t \in Task /\ x.handle \in Used
    BY <1>1, <1>4, <2>1, StepFields DEF Owing, StepsNow
  <2>4. bound'[t].handle # NoHandle
    BY <2>1, <2>3, TaskAssumption DEF TaskInv, Tables, Rows, Used
  <2>5. ASSUME state'[t] \in Owed, ~Adopted(t) PROVE Guarded(t, Pump)'
    <3>1. Guarded(t, p)
      BY <1>9, <2>1, <2>3, <2>5
    <3>2. ~At(p, "land", t) /\ ~At(p, "reserve", t)
      BY <1>6, <2>1
    <3>3. Ending(Pump, t) => Ending(Pump', t)
      BY <1>5, <1>11, <2>1
    <3>. QED
      BY <1>2, <2>1, <2>4, <3>1, <3>2, <3>3 DEF Guarded, Delivered
  <2>6. "idle_pending_exit" \notin Speech => pending_exit' = {}
    BY <2>1 DEF PumpWatch
  <2>. QED
    BY <1>7, <1>11, <2>1, <2>2, <2>5, <2>6
<1>16. CASE DoReplay("pump")
  <2>1. /\ x.op = "replay"
        /\ UNCHANGED <<state, bound, clock, holder, running, pending_exit>>
        /\ Then("pump", <<>>) \/ \E y : Then("pump", <<y>>)
    BY <1>16 DEF DoReplay, Runs, db, memory, agents
  <2>. QED
    BY <1>8, <1>10, <1>11, <2>1
<1>17. CASE DoScan("pump")
  <2>1. /\ x.op = "scan"
        /\ UNCHANGED <<state, bound, clock, holder, running, pending_exit>>
        /\ \E y : Then("pump", <<y>>)
    BY <1>17 DEF DoScan, Runs, db, memory, agents
  <2>. QED
    BY <1>8, <1>10, <2>1
<1>18. CASE DoMatch("pump")
  <2>1. /\ x.op = "match"
        /\ UNCHANGED <<state, bound, clock, holder, running, pending_exit>>
        /\ Then("pump", <<>>) \/ \E y : Then("pump", <<y>>)
    BY <1>18 DEF DoMatch, Runs, db, memory, agents
  <2>. QED
    BY <1>8, <1>10, <1>11, <2>1
<1>19. CASE DoClaim("pump")
  <2>. DEFINE y == Send(t, x.handle, "ready")
  <2>1. /\ x.op = "claim" /\ Then("pump", <<y>>)
        /\ clock' = [clock EXCEPT ![t] = "ready"]
        /\ UNCHANGED <<state, bound, holder, running, pending_exit>>
    BY <1>19 DEF DoClaim, Runs, agents
  <2>2. \A u \in Task : u = t \/ Aside(u)
    BY <1>2, <2>1 DEF Aside
  <2>3. t \in Task /\ clock'[t] = "ready"
    BY <1>4, <2>1 DEF Owing, TaskInv, Tables, Maps
  <2>4. ASSUME state'[t] \in Owed, ~Adopted(t) PROVE Guarded(t, Pump)'
    <3>1. Guarded(t, p)
      BY <1>9, <2>1, <2>3, <2>4
    <3>2. ~At(p, "land", t)
      BY <1>6, <2>1
    <3>3. Ending(Pump, t) => Ending(Pump', t)
      BY <1>5, <1>10, <2>1
    <3>. QED
      BY <1>2, <2>1, <2>3, <3>1, <3>2, <3>3 DEF Guarded, Delivered
  <2>. HIDE DEF y
  <2>5. "idle_pending_exit" \notin Speech => pending_exit' = {}
    BY <2>1 DEF PumpWatch
  <2>. QED
    BY <1>7, <1>10, <2>1, <2>2, <2>4, <2>5
<1>20. CASE DoSend("pump")
  <2>. DEFINE y == Land(t, x.handle)
  <2>1. /\ x.op = "send"
        /\ UNCHANGED <<state, bound, clock, running, pending_exit>>
        /\ \/ holder' = [holder EXCEPT ![t] = x.handle] /\ Then("pump", <<y>>)
           \/ /\ UNCHANGED holder \/ ("answer" \in Faults
                                      /\ holder' = [holder EXCEPT ![t] = x.handle])
              /\ Then("pump", <<>>) \/ \E z : Then("pump", <<z>>)
    BY <1>20 DEF DoSend, Runs, db, memory, OnError
  <2>2. \A u \in Task : u = t \/ Aside(u)
    <3>1. \A u \in Task : u = t \/ holder'[u] = holder[u]
      BY <2>1 DEF TaskInv, Tables, World
    <3>. QED
      BY <1>2, <2>1, <3>1 DEF Aside
  <2>3. t \in Task
    BY <1>4, <2>1 DEF Owing
  <2>4. "idle_pending_exit" \notin Speech => pending_exit' = {}
    BY <2>1 DEF PumpWatch
  <2>5. y.op = "land" /\ y.task = t
    BY DEF Land
  <2>. HIDE DEF y
  <2>6. ASSUME NEW q, NEW R, q \in Seq(R), Then("pump", q),
               UNCHANGED holder \/ "answer" \in Faults \/ At(Pump', "land", t),
               state'[t] \in Owed, ~Adopted(t)
        PROVE  Guarded(t, Pump)'
    <3>1. Guarded(t, p)
      BY <1>9, <2>1, <2>3, <2>6
    <3>2. ~At(p, "land", t) /\ ~At(p, "reserve", t)
      BY <1>6, <2>1
    <3>3. Ending(Pump, t) => Ending(Pump', t)
      BY <1>5, <2>6
    <3>. QED
      BY <1>2, <2>1, <2>6, <3>1, <3>2, <3>3 DEF Guarded, Delivered
  <2>7. CASE Then("pump", <<y>>) /\ holder' = [holder EXCEPT ![t] = x.handle]
    <3>1. Pump' = <<y>> \o Tail(p)
      BY <1>5, <1>10, <2>7
    <3>2. Pump' # <<>> /\ Pump'[1] = y
      BY <1>1, <3>1, HeadTailProperties
    <3>3. At(Pump', "land", t)
      BY <2>5, <3>2 DEF At, First
    <3>. QED
      BY <1>7, <1>10, <2>2, <2>4, <2>6, <2>7, <3>3
  <2>8. CASE /\ UNCHANGED holder \/ "answer" \in Faults
             /\ Then("pump", <<>>) \/ \E z : Then("pump", <<z>>)
    <3>1. ASSUME NEW q, NEW R, q \in Seq(R), Then("pump", q) PROVE PumpWatch'
      BY <1>7, <2>2, <2>4, <2>6, <2>8, <3>1
    <3>. QED
      BY <1>10, <1>11, <2>8, <3>1
  <2>. QED
    BY <2>1, <2>7, <2>8
<1>21. CASE DoLand("pump")
  <2>1. /\ x.op = "land" /\ Then("pump", <<>>)
        /\ running' = running \cup {t} /\ state' = [state EXCEPT ![t] = "running"]
        /\ bound' = [bound EXCEPT ![t] = [handle |-> x.handle, json |-> FALSE]]
        /\ clock' = [clock EXCEPT ![t] = "busy"]
        /\ UNCHANGED <<holder, pending_exit>>
    BY <1>21 DEF DoLand, Runs, agents
  <2>2. \A u \in Task : u = t \/ Aside(u)
    BY <1>2, <2>1 DEF Aside
  <2>3. t \in Task /\ x.handle \in Used
    BY <1>1, <1>4, <2>1, StepFields DEF Owing, StepsNow
  <2>4. bound'[t].handle # NoHandle /\ state'[t] = "running" /\ t \in running'
    BY <2>1, <2>3, TaskAssumption DEF TaskInv, Tables, Rows, Used
  <2>5. Guarded(t, Pump)'
    BY <1>2, <2>4 DEF Guarded
  <2>6. "idle_pending_exit" \notin Speech => pending_exit' = {}
    BY <2>1 DEF PumpWatch
  <2>. QED
    BY <1>7, <1>11, <2>1, <2>2, <2>5, <2>6
<1>22. CASE DoSetHop("pump")
  <2>1. /\ x.op = "set_hop" /\ Then("pump", <<>>)
        /\ clock' = [clock EXCEPT ![t] = x.state]
        /\ running' = IF x.state = "busy" THEN running \cup {t} ELSE running
        /\ pending_exit' = IF x.pending THEN pending_exit \cup {t} ELSE pending_exit \ {t}
        /\ UNCHANGED <<state, bound, holder>>
    BY <1>22 DEF DoSetHop, Runs, agents
  <2>2. \A u \in Task : u = t \/ Aside(u)
    BY <1>2, <2>1 DEF Aside
  <2>3. t \in Delivered /\ t \in Task /\ x.state \in Hops /\ x.pending \in Pendings
    <3>1. t \in Delivered /\ x.state \in Hops /\ x.pending \in Pendings
      BY <1>1, <2>1, StepFields DEF StepsNow
    <3>. QED
      BY <3>1 DEF Delivered
  <2>4. /\ x.state = "idle" \/ (x.state = "busy" /\ "busy" \in Speech)
        /\ x.pending = FALSE \/ (x.pending = TRUE /\ "idle_pending_exit" \in Speech)
    BY <2>3 DEF Hops, Pendings
  <2>5. "idle_pending_exit" \notin Speech => pending_exit' = {}
    BY <2>1, <2>4 DEF PumpWatch
  <2>6. ASSUME state'[t] \in Owed, ~Adopted(t) PROVE Guarded(t, Pump)'
    <3>1. Guarded(t, p)
      BY <1>9, <2>1, <2>3, <2>6
    <3>2. ~At(p, "land", t) /\ ~At(p, "reserve", t)
      BY <1>6, <2>1
    <3>3. Ending(Pump, t) => Ending(Pump', t)
      BY <1>5, <1>11, <2>1
    <3>4. ~Ending(p, t)
      <4>1. Len(p) = 1
        BY <1>1, <2>1 DEF PumpShape, Shape, Lone
      <4>. QED
        BY <1>3, <4>1 DEF Ending
    <3>5. "busy" \in Speech \/ "idle_pending_exit" \in Speech =>
            t \in running /\ state[t] = "running" /\ bound[t].handle # NoHandle
      BY <2>3, <3>1, <3>2, <3>4 DEF Guarded, Doubtless
    <3>6. clock'[t] = x.state
      BY <2>1, <2>3 DEF TaskInv, Tables, Maps
    <3>7. CASE t \in running
      BY <1>2, <2>1, <3>1, <3>7 DEF Guarded
    <3>8. CASE t \notin running
      <4>1. x.state = "idle" /\ x.pending = FALSE
        BY <2>4, <3>5, <3>8
      <4>2. t \notin pending_exit' /\ running' = running /\ clock'[t] = "idle"
        BY <2>1, <3>6, <4>1
      <4>. QED
        BY <1>2, <2>1, <3>1, <3>2, <3>3, <3>4, <3>8, <4>2 DEF Guarded, Delivered
    <3>. QED
      BY <3>7, <3>8
  <2>. QED
    BY <1>7, <1>11, <2>1, <2>2, <2>5, <2>6
<1>. QED
  BY <1>12, <1>13, <1>14, <1>15, <1>16, <1>17, <1>18, <1>19, <1>20, <1>21, <1>22 DEF ServeStep

LEMMA EndWatch ==
    ASSUME TaskInv, PumpShape, PumpState, PumpWatch, Pump # <<>>, EndStep \/ DoReap
    PROVE  PumpWatch'
<1>. DEFINE p == Pump
            x == Head(prog["pump"])
<1>0. PICK t : t = x.task
  OBVIOUS
<1>. USE <1>0
<1>1. /\ p \in Seq(StepsNow) /\ p[1] = x /\ x \in StepsNow /\ 1 \in 1..Len(p)
      /\ Len(p) \in Nat
  BY PumpHead
<1>2. /\ Alone /\ up' = up /\ holder' = holder
      /\ x.op \notin {"reserve", "land"}
  BY DEF EndStep, DoSetState, DoRecord, DoUnbind, DoCloseTab, DoEarlyExit, DoRetry, DoReap,
         Runs, PumpShape, process, agents
<1>3. Granted(state, p, 1)
  BY <1>1 DEF PumpState, Sane
<1>4. ASSUME NEW q, NEW R, q \in Seq(R), Then("pump", q)
      PROVE  /\ Pump' = q \o Tail(p)
             /\ \A u : Ending(Pump, u) => Ending(Pump', u) \/ Ends(x, u)
  <2>1. Pump' = q \o Tail(p)
    BY <1>2, <1>4, Turned
  <2>. QED
    BY <1>1, <1>4, <2>1, EndingStays
<1>5. \A u : \A op \in {"reserve", "land"} : ~At(p, op, u)
  BY <1>1, <1>2 DEF At, First
<1>6. ASSUME NEW q, NEW R, q \in Seq(R), Then("pump", q),
             "idle_pending_exit" \notin Speech => pending_exit' = {},
             \A u \in Task : \/ state'[u] \notin Owed \/ Adopted(u)' \/ Guarded(u, Pump)'
                             \/ Aside(u) /\ ~Ends(x, u) /\ (Adopted(u) => Adopted(u)')
      PROVE  PumpWatch'
  <2>. SUFFICES ASSUME NEW u \in Task, state'[u] \in Owed, ~Adopted(u)'
                PROVE  Guarded(u, Pump)'
    BY <1>6 DEF PumpWatch
  <2>1. CASE Aside(u) /\ ~Ends(x, u) /\ (Adopted(u) => Adopted(u)')
    <3>1. Guarded(u, Pump)
      BY <2>1 DEF PumpWatch, Aside
    <3>. QED
      BY <1>4, <1>5, <1>6, <2>1, <3>1, GuardStays
  <2>. QED
    BY <1>6, <2>1
<1>7. ASSUME lines' = lines, NEW u \in Task, Adopted(u) PROVE Adopted(u)'
  BY <1>7 DEF Adopted
<1>10. \A y : <<y>> \in Seq({y})
  OBVIOUS
<1>11. <<>> \in Seq({})
  OBVIOUS
<1>12. CASE DoSetState("pump")
  <2>1. /\ x.op = "set_state" /\ Then("pump", <<>>)
        /\ state' = [state EXCEPT ![t] = x.state]
        /\ UNCHANGED <<bound, clock, running, pending_exit, lines>>
    BY <1>12 DEF DoSetState, Runs, memory
  <2>2. t \in Task /\ state'[t] = x.state /\ \A u \in Task \ {t} : Aside(u)
    BY <1>1, <1>2, <2>1, StepTasks DEF TaskInv, Tables, Rows, Aside
  <2>3. \A u : u # t => ~Ends(x, u)
    BY DEF Ends
  <2>4. ASSUME state'[t] \in Owed, ~Adopted(t)' PROVE Guarded(t, Pump)'
    <3>1. x.state = "running" /\ ~Ends(x, t)
      BY <1>1, <2>1, <2>2, <2>4, StepFields DEF StepsNow, Owed, Settled, Result, Ends
    <3>2. state[t] \in Owed
      BY <1>1, <1>3, <2>1, <3>1 DEF Granted
    <3>3. Guarded(t, p)
      BY <1>7, <2>1, <2>2, <2>4, <3>2 DEF PumpWatch
    <3>4. Ending(Pump, t) => Ending(Pump', t)
      BY <1>4, <1>11, <2>1, <3>1
    <3>. QED
      BY <1>2, <1>5, <2>1, <2>2, <3>1, <3>3, <3>4 DEF Guarded, Delivered
  <2>5. "idle_pending_exit" \notin Speech => pending_exit' = {}
    BY <2>1 DEF PumpWatch
  <2>. QED
    BY <1>6, <1>7, <1>11, <2>1, <2>2, <2>3, <2>4, <2>5
<1>13. CASE DoRecord("pump")
  <2>1. /\ x.op = "record" /\ Then("pump", <<>>)
        /\ lines' = [lines EXCEPT ![t] = Append(@, x.state)]
        /\ UNCHANGED <<state, bound, clock, running, pending_exit>>
    BY <1>13 DEF DoRecord, Runs, memory
  <2>2. t \in Task /\ x.state \in Result
    BY <1>1, <2>1, StepTasks, StepFields DEF StepsNow
  <2>3. \A u \in Task : Aside(u) /\ ~Ends(x, u)
    BY <1>2, <2>1 DEF Aside, Ends
  <2>4. \A u \in Task : lines'[u] = lines[u] \/ lines'[u] = Append(lines[u], x.state)
    BY <2>1, <2>2 DEF TaskInv, Tables, Rows
  <2>5. \A u \in Task : Adopted(u) => Adopted(u)'
    BY <2>2, <2>4, AdoptedStays
  <2>6. "idle_pending_exit" \notin Speech => pending_exit' = {}
    BY <2>1 DEF PumpWatch
  <2>. QED
    BY <1>6, <1>11, <2>1, <2>3, <2>5, <2>6
<1>14. CASE DoUnbind("pump")
  <2>1. /\ x.op = "unbind"
        /\ running' = running \ {t} /\ clock' = [clock EXCEPT ![t] = ""]
        /\ UNCHANGED <<state, bound, lines, pending_exit>>
        /\ Then("pump", <<>>) \/ \E y : Then("pump", <<y>>)
    BY <1>14 DEF DoUnbind, Runs
  <2>2. t \in Task /\ \A u \in Task \ {t} : Aside(u)
    <3>1. t \in Task
      BY <1>1, <2>1, StepTasks
    <3>. QED
      BY <1>2, <2>1, <3>1 DEF Aside, TaskInv, Tables, Maps
  <2>3. \A u : ~Ends(x, u)
    BY <2>1 DEF Ends
  <2>4. state'[t] \notin Owed
    <3>1. state[t] \in Settled
      BY <1>1, <1>3, <2>1 DEF Granted, Settles, First
    <3>. QED
      BY <2>1, <3>1 DEF Owed, Settled, Result
  <2>5. "idle_pending_exit" \notin Speech => pending_exit' = {}
    BY <2>1 DEF PumpWatch
  <2>6. ASSUME NEW q, NEW R, q \in Seq(R), Then("pump", q) PROVE PumpWatch'
    BY <1>6, <1>7, <2>1, <2>2, <2>3, <2>4, <2>5, <2>6
  <2>. QED
    BY <1>10, <1>11, <2>1, <2>6
<1>15. CASE DoCloseTab("pump")
  <2>1. /\ x.op = "close_tab" /\ Then("pump", <<>>)
        /\ UNCHANGED <<state, bound, clock, running, pending_exit, lines>>
    BY <1>15 DEF DoCloseTab, Runs, memory, db
  <2>2. \A u \in Task : Aside(u) /\ ~Ends(x, u)
    BY <1>2, <2>1 DEF Aside, Ends
  <2>3. "idle_pending_exit" \notin Speech => pending_exit' = {}
    BY <2>1 DEF PumpWatch
  <2>. QED
    BY <1>6, <1>7, <1>11, <2>1, <2>2, <2>3
<1>16. CASE DoEarlyExit("pump")
  <2>. DEFINE q == Settle(t, "failed")
  <2>1. /\ x.op = "early_exit"
        /\ UNCHANGED <<state, bound, clock, running, pending_exit, lines>>
        /\ \/ state[t] \in {"done", "closed"} /\ Then("pump", <<>>)
           \/ Then("pump", q)
    BY <1>16 DEF DoEarlyExit, Runs, memory, db
  <2>2. \A u \in Task : Aside(u) /\ (u # t => ~Ends(x, u))
    BY <1>2, <2>1 DEF Aside, Ends
  <2>3. "idle_pending_exit" \notin Speech => pending_exit' = {}
    BY <2>1 DEF PumpWatch
  <2>4. CASE state[t] \in {"done", "closed"} /\ Then("pump", <<>>)
    <3>1. state'[t] \notin Owed
      BY <2>1, <2>4 DEF Owed
    <3>. QED
      BY <1>6, <1>7, <1>11, <2>1, <2>2, <2>3, <2>4, <3>1
  <2>5. CASE Then("pump", q)
    <3>1. q \in Seq({SetState(t, "failed"), Record(t, "failed"), Unbind(t)})
          /\ Len(q) = 3 /\ q[1] = SetState(t, "failed")
      BY DEF Settle
    <3>. HIDE DEF q
    <3>2. Pump' = q \o Tail(p)
      BY <1>4, <2>5, <3>1
    <3>3. 1 \in 1..Len(Pump') /\ Pump'[1] = SetState(t, "failed")
      <4>1. p \in Seq(StepsNow) /\ p # <<>> /\ 1 \in 1..Len(q)
        BY <1>1, <3>1
      <4>2. 1 \in 1..Len(q \o Tail(p)) /\ (q \o Tail(p))[1] = q[1]
        BY <3>1, <4>1, SplicedHead
      <4>. QED
        BY <3>1, <3>2, <4>2
    <3>4. Ending(Pump', t)
      BY <3>3 DEF Ending, Ends, SetState, Settled, Result
    <3>5. ASSUME state'[t] \in Owed, ~Adopted(t)', t \in Task PROVE Guarded(t, Pump)'
      <4>1. Guarded(t, p)
        BY <1>7, <2>1, <3>5 DEF PumpWatch
      <4>. QED
        BY <2>1, <3>4, <4>1 DEF Guarded
    <3>. QED
      BY <1>6, <1>7, <2>1, <2>2, <2>3, <2>5, <3>1, <3>5
  <2>. QED
    BY <2>1, <2>4, <2>5
<1>17. CASE DoRetry("pump")
  <2>1. /\ x.op = "retry" /\ UNCHANGED <<bound, clock, running, pending_exit, lines>>
    BY <1>17 DEF DoRetry, Runs, memory, db, InsertRow
  <2>2. \A u : ~Ends(x, u)
    BY <2>1 DEF Ends
  <2>3. "idle_pending_exit" \notin Speech => pending_exit' = {}
    BY <2>1 DEF PumpWatch
  <2>4. CASE UNCHANGED state /\ Then("pump", <<>>)
    <3>1. \A u \in Task : Aside(u)
      BY <1>2, <2>1, <2>4 DEF Aside
    <3>. QED
      BY <1>6, <1>7, <1>11, <2>1, <2>2, <2>3, <2>4, <3>1
  <2>5. CASE \E u \in Task : InsertRow(u, x.attempt + 1) /\ Then("pump", <<Reserve(u, "retry")>>)
    <3>1. PICK u \in Task : InsertRow(u, x.attempt + 1) /\ Then("pump", <<Reserve(u, "retry")>>)
      BY <2>5
    <3>. DEFINE y == Reserve(u, "retry")
    <3>2. state[u] = "absent" /\ \A v \in Task \ {u} : Aside(v)
      BY <1>2, <2>1, <3>1 DEF Aside, InsertRow
    <3>3. u \notin running /\ u \notin Delivered
      BY <3>2 DEF TaskInv, Tables, Maps, World, Born
    <3>4. y.op = "reserve" /\ y.task = u
      BY DEF Reserve
    <3>. HIDE DEF y
    <3>5. Pump' = <<y>> \o Tail(p)
      BY <1>4, <1>10, <3>1 DEF y
    <3>6. Pump' # <<>> /\ Pump'[1] = y
      BY <1>1, <3>5, HeadTailProperties
    <3>7. At(Pump', "reserve", u)
      BY <3>4, <3>6 DEF At, First
    <3>8. up
      BY <1>1, <2>1 DEF PumpShape, Recovers
    <3>9. Guarded(u, Pump)'
      BY <1>2, <2>1, <3>3, <3>7, <3>8 DEF Guarded, Delivered
    <3>. QED
      BY <1>6, <1>7, <1>10, <2>1, <2>2, <2>3, <3>1, <3>2, <3>9
  <2>. QED
    BY <1>17, <2>4, <2>5 DEF DoRetry, db
<1>18. CASE DoReap
  <2>. DEFINE y == EarlyExit(t)
  <2>1. /\ x.op = "reap" /\ UNCHANGED <<state, bound, pending_exit>>
        /\ \/ /\ Then("pump", <<>>) /\ lines' = [lines EXCEPT ![t] = Append(@, "adopted")]
              /\ running' = running \cup {t} /\ clock' = [clock EXCEPT ![t] = "busy"]
           \/ Then("pump", <<y>>) /\ UNCHANGED <<running, clock, lines>>
    BY <1>18 DEF DoReap, Runs
  <2>2. t \in Task /\ \A u \in Task \ {t} : Aside(u)
    <3>1. t \in Task
      BY <1>1, <2>1, StepTasks
    <3>. QED
      BY <1>2, <2>1, <3>1 DEF Aside, TaskInv, Tables, Maps
  <2>3. \A u : u # t => ~Ends(x, u)
    BY DEF Ends
  <2>4. "idle_pending_exit" \notin Speech => pending_exit' = {}
    BY <2>1 DEF PumpWatch
  <2>5. CASE Then("pump", <<>>) /\ lines' = [lines EXCEPT ![t] = Append(@, "adopted")]
    <3>1. \A u \in Task \ {t} : Adopted(u) => Adopted(u)'
      BY <2>5 DEF Adopted
    <3>2. \A u \in Task : u = t => Adopted(u)'
      <4>1. lines[t] \in Seq(Result \cup {"adopted"}) /\ lines'[t] = Append(lines[t], "adopted")
        BY <2>2, <2>5 DEF TaskInv, Tables, Rows
      <4>2. /\ Len(lines[t]) + 1 \in DOMAIN lines'[t]
            /\ lines'[t][Len(lines[t]) + 1] = "adopted"
        BY <4>1
      <4>3. "adopted" \in ToSet(lines'[t])
        BY <4>2, Zenon DEF ToSet
      <4>. QED
        BY <4>3 DEF Adopted
    <3>. QED
      BY <1>6, <1>11, <2>2, <2>3, <2>4, <2>5, <3>1, <3>2
  <2>6. CASE Then("pump", <<y>>) /\ UNCHANGED <<running, clock, lines>>
    <3>1. y.op = "early_exit" /\ y.task = t
      BY DEF EarlyExit
    <3>. HIDE DEF y
    <3>2. Pump' = <<y>> \o Tail(p)
      BY <1>4, <1>10, <2>6
    <3>3. 1 \in 1..Len(Pump') /\ Pump'[1] = y
      <4>. DEFINE q == <<y>>
      <4>1. q \in Seq({y}) /\ Len(q) = 1 /\ q[1] = y
        OBVIOUS
      <4>. HIDE DEF q
      <4>3. p \in Seq(StepsNow) /\ p # <<>> /\ 1 \in 1..Len(q)
        BY <1>1, <4>1
      <4>2. 1 \in 1..Len(q \o Tail(p)) /\ (q \o Tail(p))[1] = q[1]
        BY <4>1, <4>3, SplicedHead
      <4>. QED
        BY <3>2, <4>1, <4>2 DEF q
    <3>4. Ending(Pump', t)
      BY <3>1, <3>3 DEF Ending, Ends
    <3>5. ASSUME state'[t] \in Owed, ~Adopted(t)' PROVE Guarded(t, Pump)'
      <4>1. Guarded(t, p)
        BY <1>7, <2>1, <2>2, <2>6, <3>5 DEF PumpWatch
      <4>. QED
        BY <2>1, <2>6, <3>4, <4>1 DEF Guarded
    <3>. QED
      BY <1>6, <1>7, <1>10, <2>2, <2>3, <2>4, <2>6, <3>5
  <2>. QED
    BY <2>1, <2>5, <2>6
<1>. QED
  BY <1>12, <1>13, <1>14, <1>15, <1>16, <1>17, <1>18 DEF EndStep

LEMMA StartWatch ==
    ASSUME TaskInv, PumpShape, PumpWatch, Starts
    PROVE  PumpWatch'
<1>1. /\ Pump = <<>> /\ Len(Pump) = 0 /\ up /\ up' = up
      /\ UNCHANGED <<bound, clock, holder, running, pending_exit, lines>>
  <2>1. Idle("pump")
    BY DEF Starts, OnTaskInbound, HearReady, HearActivity, HearOut, HearRecycled, Reconnect,
           Hears
  <2>2. UNCHANGED <<bound, clock, holder, running, pending_exit, lines, up>>
    BY DEF Starts, OnTaskInbound, HearReady, HearActivity, HearOut, HearRecycled, Reconnect,
           Hear, InsertRow, db, memory, agents, process
  <2>. QED
    BY <2>1, <2>2 DEF Idle, Pump
<1>2. \A u : ~Ending(Pump, u) /\ \A op : ~At(Pump, op, u)
  BY <1>1 DEF Ending, At, First
<1>3. \A u \in Task : state'[u] = state[u] => Aside(u) /\ (Adopted(u)' <=> Adopted(u))
  BY <1>1 DEF Aside, Adopted
<1>4. \A u \in Task : state'[u] \in Owed /\ ~Adopted(u)' /\ state'[u] = state[u]
                        => Guarded(u, Pump)'
  <2>. SUFFICES ASSUME NEW u \in Task, state'[u] \in Owed, ~Adopted(u)', state'[u] = state[u]
                PROVE  Guarded(u, Pump)'
    OBVIOUS
  <2>1. Guarded(u, Pump) /\ Aside(u)
    BY <1>3 DEF PumpWatch
  <2>. QED
    BY <1>2, <2>1, GuardStays
<1>5. "idle_pending_exit" \notin Speech => pending_exit' = {}
  BY <1>1 DEF PumpWatch
<1>6. CASE \E u \in Task : OnTaskInbound(u)
  <2>1. PICK u \in Task : OnTaskInbound(u)
    BY <1>6
  <2>. DEFINE y == Reserve(u, "inbound")
  <2>2. InsertRow(u, 1) /\ Begin("pump", <<y>>)
    BY <2>1 DEF OnTaskInbound
  <2>3. state[u] = "absent" /\ \A v \in Task \ {u} : state'[v] = state[v]
    BY <2>2 DEF InsertRow
  <2>4. u \notin running /\ u \notin Delivered
    BY <2>3 DEF TaskInv, Tables, Maps, World, Born
  <2>5. y.op = "reserve" /\ y.task = u
    BY DEF Reserve
  <2>. HIDE DEF y
  <2>6. Pump' = <<y>>
    BY <2>2, Begun DEF PumpShape
  <2>7. At(Pump', "reserve", u)
    BY <2>5, <2>6 DEF At, First
  <2>8. Guarded(u, Pump)'
    BY <1>1, <2>4, <2>7 DEF Guarded, Delivered
  <2>. QED
    BY <1>4, <1>5, <2>3, <2>8 DEF PumpWatch
<1>7. CASE UNCHANGED state
  BY <1>4, <1>5, <1>7 DEF PumpWatch
<1>. QED
  BY <1>6, <1>7 DEF Starts, HearReady, HearActivity, HearOut, HearRecycled, Reconnect, Hear, db

LEMMA WatchNext ==
    ASSUME PumpAlone, Doubtless, TaskInv, PumpShape, PumpState, PumpWatch, [Next]_vars
    PROVE  PumpWatch'
<1>1. CASE Crash
  <2>1. /\ UNCHANGED <<state, lines>> /\ running' = {} /\ pending_exit' = {}
    BY <1>1 DEF Crash, db
  <2>2. \A t \in Task : state[t] \in Owed => Ending(Pump', t)
    <3>1. \A t \in Task : state[t] \in Owed =>
            \E i \in 1..Len(Pump') : Pump'[i] = Reap(t, Text(bound[t]))
      BY <1>1, CrashProgram
    <3>2. \A t, h : Ends(Reap(t, h), t)
      BY DEF Reap, Ends
    <3>. QED
      BY <3>1, <3>2 DEF Ending
  <2>. QED
    BY <2>1, <2>2 DEF PumpWatch, Guarded
<1>2. CASE Booted
  <2>1. ~up /\ Pump = <<>> /\ UNCHANGED <<state, lines, pending_exit>>
    BY <1>2 DEF Booted, Pump, db, memory
  <2>2. \A t : ~Ending(Pump, t)
    <3>1. Len(Pump) = 0
      BY <2>1
    <3>. QED
      BY <3>1 DEF Ending
  <2>3. \A t \in Task : ~(state[t] \in Owed /\ ~Adopted(t))
    BY <2>1, <2>2 DEF PumpWatch, Guarded
  <2>4. \A t \in Task : Adopted(t)' <=> Adopted(t)
    BY <2>1 DEF Adopted
  <2>. QED
    BY <2>1, <2>3, <2>4 DEF PumpWatch
<1>3. ASSUME Sessions \/ UNCHANGED vars PROVE PumpWatch'
  <2>1. UNCHANGED <<state, lines, bound, clock, holder, up, running, pending_exit, prog>>
    BY <1>3 DEF Sessions, AgentReady, AgentReports, AgentRecycles, TabDies, db, memory,
                process, vars, agents
  <2>2. \A t \in Task : /\ Aside(t) /\ (Adopted(t)' <=> Adopted(t))
    BY <2>1 DEF Aside, Adopted
  <2>3. Pump' = Pump
    BY <2>1 DEF Pump
  <2>4. \A t \in Task : state'[t] \in Owed /\ ~Adopted(t)' => Guarded(t, Pump)'
    BY <2>1, <2>2, <2>3, GuardStays DEF PumpWatch
  <2>. QED
    BY <2>1, <2>4 DEF PumpWatch
<1>. QED
  BY <1>1, <1>2, <1>3, PumpNext, StartWatch, ServeWatch, EndWatch

LEMMA PumpWatchHolds ==
    ASSUME PumpAlone, Doubtless
    PROVE  Spec => [](TaskInv /\ PumpShape /\ PumpState /\ PumpWatch)
<1>1. Init => PumpWatch
  BY DEF Init, PumpWatch, Owed
<1>2. TaskInv /\ PumpShape /\ PumpState /\ PumpWatch /\ [Next]_vars => PumpWatch'
  BY WatchNext
<1>. QED
  BY <1>1, <1>2, PumpStateHolds, PTL DEF Spec

\* With the pump alone, and sessions that tell nothing of a hop when answers
\* are lost, every owed task is watched, or a step to come is about it, or it
\* was adopted: no owed task is forgotten.
THEOREM NoTaskForgotten ==
    ASSUME PumpAlone, Doubtless PROVE Spec => []NoOrphan
<1>1. TaskInv /\ PumpShape /\ PumpState /\ PumpWatch => NoOrphan
  <2>. SUFFICES ASSUME TaskInv, PumpWatch, NEW t \in Task, state[t] \in Owed, Quiet(t),
                       ~Adopted(t), up
                PROVE  Watched(t)
    BY DEF NoOrphan
  <2>1. Guarded(t, Pump)
    BY DEF PumpWatch
  <2>2. \A i \in DOMAIN Pump : ~About(Pump[i], t)
    BY DEF Quiet, Concerns, Pump, AllThreads
  <2>3. /\ Pump \in Seq(StepsNow) /\ DOMAIN Pump = 1..Len(Pump)
        /\ \A i \in 1..Len(Pump) : Pump[i] \in StepsNow
    <3>1. Pump \in Seq(StepsNow)
      BY DEF TaskInv, Programs, Pump, AllThreads
    <3>. QED
      BY <3>1, LenProperties, ElementOfSeq
  <2>4. \A x \in StepsNow : x.op \in {"set_state", "early_exit", "reap", "reserve"} =>
                              "task" \in DOMAIN x
    BY DEF StepsNow, Steps
  <2>5. ~Ending(Pump, t)
    BY <2>2, <2>3, <2>4 DEF Ending, Ends, About
  <2>6. ~At(Pump, "reserve", t)
    <3>1. Pump # <<>> => 1 \in 1..Len(Pump)
      BY <2>3, EmptySeq, LenProperties
    <3>. QED
      BY <2>2, <2>3, <2>4, <3>1 DEF At, First, About
  <2>. QED
    BY <2>1, <2>5, <2>6 DEF Guarded, Watched
<1>. QED
  BY <1>1, PumpWatchHolds, PTL

-----------------------------------------------------------------------------
(***************************************************************************)
(* What the steps of the pump know of a tab and of its ready event.        *)
(***************************************************************************)

ReadyOf(h) == [kind |-> "ready", handle |-> h]
Tracked(h) == \E t \in Task : terminals[t] = h
Parked(h) == \E i \in 1..Len(pool) : pool[i] = h
Waits(h) == \E i \in 1..Len(mail) : mail[i] = ReadyOf(h)

\* The tab of a task that is owed.
Owned(h) == \E t \in Task : state[t] \in Owed /\ terminals[t] = h

\* The ready of h was heard, and led to nothing yet.
Free(h) == ReadyOf(h) \in said /\ ~Waits(h) /\ ~Parked(h)

Once(s) == \A i, j \in 1..Len(s) : s[i] = s[j] => i = j

\* A ready is heard once; its handle is parked, taken or tracked by one task.
ReadyOnce ==
    /\ \A i \in 1..Len(mail) : mail[i] \in said
    /\ Once(mail) /\ Once(pool)
    /\ \A h \in history : ReadyOf(h) \in said
    /\ \A i \in 1..Len(pool) :
         ReadyOf(pool[i]) \in said /\ ~Waits(pool[i]) /\ ~Tracked(pool[i])
    /\ \A t, u \in Task : t # u /\ terminals[t] \in Handle => terminals[t] # terminals[u]

\* A task that a step, the first of n, hands a tab has none, and the tab no task.
Given(x, n) ==
    /\ ~Landed(x.task)
    /\ x.op = "bind" => ~Tracked(x.handle) /\ ~Parked(x.handle)
    /\ x.op \in {"claim", "send", "land"} =>
         /\ ~Parked(x.handle)
         /\ \A u \in Task : terminals[u] = x.handle => u = x.task
         /\ n > 1 => terminals[x.task] = x.handle
    /\ x.op \in {"send", "land"} => x.task \notin awaiting

\* A ready is looked at for the task it was spawned for, or for the first time.
Heard(x, n) == Owned(x.handle) \/ (n = 1 /\ Free(x.handle))

Hands(p) ==
    /\ First(p, Owing) => Given(p[1], Len(p))
    /\ \A i \in 1..Len(p) : p[i].op \in {"scan", "match"} => Heard(p[i], Len(p))

\* While the scheduler boots, its maps name what the rows name.
Bare ==
    ~up => /\ pool = <<>> /\ awaiting = {}
           /\ \A t \in Task :
                /\ sessions[t] = NoHandle
                /\ terminals[t] \in Handle => Landed(t) /\ terminals[t] = bound[t].handle

Boots ==
    /\ Bare
    /\ \A i \in 1..Len(Pump) :
         Pump[i].op = "reap" => ~up /\ Pump[i].handle = Text(bound[Pump[i].task])

\* The task works at the tab its row names.
AtWork(t) ==
    /\ terminals[t] = bound[t].handle
    /\ t \notin awaiting
    /\ hop[t] \in {"busy", "idle"}

Placed ==
    \A t \in Task :
      state[t] \in Owed /\ Landed(t) => AtWork(t) \/ (~up /\ Ending(Pump, t))

PumpTab == ReadyOnce /\ Hands(Pump) /\ Boots /\ Placed

\* When no tab works for two tasks, no two rows that were delivered name it.
LEMMA TabApart ==
    ASSUME TaskInv', up', ReadyOnce', Placed'
    PROVE  TabServesOne'
<1>. SUFFICES ASSUME NEW t \in Task, NEW u \in Task, t # u,
                     (state[t] \in Owed /\ Landed(t))', (state[u] \in Owed /\ Landed(u))'
              PROVE  bound'[t].handle # bound'[u].handle
  BY DEF TabServesOne
<1>1. terminals'[t] = bound'[t].handle /\ terminals'[u] = bound'[u].handle
  BY DEF Placed, AtWork
<1>2. bound'[t].handle \in Handle
  BY DEF TaskInv, Tables, Rows, Landed, Used
<1>. QED
  BY <1>1, <1>2 DEF ReadyOnce

\* What a handler leaves to do gives no task a tab and hears no new ready.
LEMMA HandsOfRest ==
    ASSUME NEW S, NEW p \in Seq(S), p # <<>>, Shape(p), Hands(p)
    PROVE  /\ \A i \in 2..Len(p) : p[i].op = "scan" => Owned(p[i].handle)
           /\ \A i \in 2..Len(p) : p[i].op # "match" /\ p[i].op \notin Owing
<1>1. Len(p) \in Nat
  BY LenProperties
<1>2. \A i \in 2..Len(p) : Later(p[i]) /\ i \in 1..Len(p) /\ Len(p) # 1
  BY <1>1 DEF Shape
<1>3. \A i \in 2..Len(p) : p[i].op # "match" /\ p[i].op \notin Owing
  BY <1>2 DEF Later, Owing, Dispatching
<1>4. \A i \in 2..Len(p) : p[i].op = "scan" => Owned(p[i].handle)
  BY <1>2 DEF Hands, Heard
<1>. QED
  BY <1>3, <1>4

\* Where a step of the program that comes next is from.
LEMMA SplicedFrom ==
    ASSUME NEW S, NEW p \in Seq(S), p # <<>>, NEW R, NEW q \in Seq(R)
    PROVE  LET r == q \o Tail(p) IN
           /\ r \in Seq(S \cup R) /\ (r # <<>> => 1 \in 1..Len(r))
           /\ q # <<>> <=> Len(q) > 0
           /\ \A i \in 1..Len(r) :
                \/ i \in 1..Len(q) /\ r[i] = q[i]
                \/ i - Len(q) + 1 \in 2..Len(p) /\ r[i] = p[i - Len(q) + 1]
<1>. DEFINE r == q \o Tail(p)
            n == Len(q)
            m == Len(p)
<1>1. /\ m \in Nat \ {0} /\ n \in Nat /\ Len(r) = n + m - 1
      /\ \A i \in 1..Len(r) : r[i] = IF i <= n THEN q[i] ELSE p[i - n + 1]
  BY Spliced
<1>2. r \in Seq(S \cup R)
  BY SeqMonotonic, HeadTailProperties, ConcatProperties
<1>3. r # <<>> => 1 \in 1..Len(r)
  BY <1>2, EmptySeq, LenProperties
<1>4. q # <<>> <=> n > 0
  BY <1>1, EmptySeq
<1>. HIDE DEF r, n, m
<1>5. \A i \in 1..Len(r) : \/ i \in 1..n /\ r[i] = q[i]
                           \/ i - n + 1 \in 2..m /\ r[i] = p[i - n + 1]
  BY <1>1
<1>. QED
  BY <1>2, <1>3, <1>4, <1>5 DEF r, n, m

LEMMA SplicedHands ==
    ASSUME NEW S, NEW p \in Seq(S), p # <<>>, Shape(p), Hands(p),
           NEW R, NEW q \in Seq(R), Pump' = q \o Tail(p),
           \A i \in 2..Len(p) : p[i].op = "scan" => Owned(p[i].handle)',
           First(q, Owing) => Given(q[1], Len(q) + Len(p) - 1)',
           \A i \in 1..Len(q) : q[i].op \in {"scan", "match"} =>
                                  Heard(q[i], Len(q) + Len(p) - 1)'
    PROVE  Hands(Pump)'
<1>. DEFINE r == q \o Tail(p)
            n == Len(q)
            m == Len(p)
<1>1. m \in Nat \ {0} /\ n \in Nat /\ Len(r) = n + m - 1
  BY Spliced
<1>2. /\ r # <<>> => 1 \in 1..Len(r)
      /\ q # <<>> <=> n > 0
      /\ \A i \in 1..Len(r) : \/ i \in 1..n /\ r[i] = q[i]
                              \/ i - n + 1 \in 2..m /\ r[i] = p[i - n + 1]
  BY SplicedFrom
<1>. HIDE DEF r, n, m
<1>5. \A i \in 2..m : p[i].op # "match" /\ p[i].op \notin Owing
  BY HandsOfRest DEF m
<1>6. First(r, Owing) => Given(r[1], Len(r))'
  <2>. SUFFICES ASSUME First(r, Owing) PROVE Given(r[1], Len(r))'
    OBVIOUS
  <2>1. 1 \in 1..Len(r) /\ r[1].op \in Owing
    BY <1>2 DEF First
  <2>2. 1 \in 1..n /\ r[1] = q[1]
    BY <1>2, <1>5, <2>1
  <2>3. First(q, Owing)
    BY <1>1, <1>2, <2>1, <2>2 DEF First
  <2>. QED
    BY <1>1, <2>2, <2>3 DEF n, m
<1>7. \A i \in 1..Len(r) : r[i].op \in {"scan", "match"} => Heard(r[i], Len(r))'
  <2>. SUFFICES ASSUME NEW i \in 1..Len(r), r[i].op \in {"scan", "match"}
                PROVE  Heard(r[i], Len(r))'
    OBVIOUS
  <2>1. CASE i \in 1..n /\ r[i] = q[i]
    BY <1>1, <2>1 DEF n, m
  <2>2. CASE i - n + 1 \in 2..m /\ r[i] = p[i - n + 1]
    BY <1>5, <2>2 DEF Heard, m
  <2>. QED
    BY <1>2, <2>1, <2>2
<1>8. Pump' = r
  BY DEF r
<1>. QED
  BY <1>6, <1>7, <1>8 DEF Hands

LEMMA ServeTab ==
    ASSUME TaskInv, PumpShape, PumpState, PumpTab, Pump # <<>>, ServeStep
    PROVE  PumpTab'
<1>0. PICK p, x : p = Pump /\ x = Head(prog["pump"])
  OBVIOUS
<1>. DEFINE t == x.task
            h == x.handle
            n == Len(p)
<1>1. /\ p \in Seq(StepsNow) /\ p # <<>> /\ p[1] = x /\ x \in StepsNow /\ 1 \in 1..n
      /\ n \in Nat
  BY <1>0, PumpHead
<1>2. /\ Serves(x) /\ x.op \notin {"set_state", "unbind"} /\ Alone
      /\ up /\ up' = up /\ UNCHANGED <<history, mail, said>>
  <2>1. /\ Serves(x) /\ x.op \notin {"set_state", "unbind"} /\ Alone
        /\ up' = up /\ UNCHANGED <<history, mail, said>>
    BY <1>0 DEF ServeStep, DoReserve, DoPopIdle, DoSpawn, DoBind, DoReplay, DoScan, DoMatch,
           DoClaim, DoSend, DoLand, DoSetHop, Runs, Serves, Dispatching, PumpShape,
           process, agents
  <2>. QED
    BY <1>0, <1>1, <2>1, ServesUp
<1>3. /\ Shape(p) /\ Hands(p) /\ Sane(state, hop, p) /\ ReadyOnce /\ Placed
      /\ \A i \in 1..n : p[i].op # "reap"
  BY <1>0, <1>2 DEF PumpShape, PumpState, PumpTab, Boots
<1>4. x.op \in Owing => t \in Task /\ state[t] \in Owed /\ Given(x, n)
  BY <1>1, <1>3, StepTasks DEF Sane, First, Hands
<1>5. \A u \in Task : u \in awaiting \/ terminals[u] # NoHandle => state[u] \in Owed
  <2>1. \A i \in 1..n : p[i].op # "unbind"
    <3>1. \A y : ~(Serves(y) /\ Finishes(y))
      BY DEF Serves, Finishes, Dispatching, Settled, Result
    <3>2. \A i \in 1..n : Serves(p[i])
      BY <1>1, <1>2, <1>3, <3>1 DEF Shape
    <3>. QED
      BY <3>2 DEF Serves, Dispatching
  <2>. QED
    BY <1>0, <2>1 DEF PumpState, Kept, Unbinds
<1>6. ASSUME \A u \in Task : state[u] \in Owed => state'[u] \in Owed,
             n > 1 => terminals' = terminals
      PROVE  \A i \in 2..n : p[i].op = "scan" => Owned(p[i].handle)'
  <2>1. \A i \in 2..n : p[i].op = "scan" => Owned(p[i].handle)
    BY <1>1, <1>3, HandsOfRest
  <2>. QED
    BY <1>1, <1>6, <2>1 DEF Owned
<1>7. ASSUME NEW q, NEW R, q \in Seq(R), Then("pump", q),
             \A i \in 1..Len(q) : q[i].op # "reap",
             \A i \in 2..n : p[i].op = "scan" => Owned(p[i].handle)',
             First(q, Owing) => Given(q[1], Len(q) + n - 1)',
             \A i \in 1..Len(q) : q[i].op \in {"scan", "match"} => Heard(q[i], Len(q) + n - 1)'
      PROVE  Hands(Pump)' /\ Boots'
  <2>1. Pump' = q \o Tail(p)
    BY <1>0, <1>2, <1>7, Turned
  <2>2. Hands(Pump)'
    BY <1>1, <1>3, <1>7, <2>1, SplicedHands
  <2>3. \A i \in 1..Len(Pump') : Pump'[i].op # "reap"
    <3>1. \A i \in 1..Len(Pump') : \/ i \in 1..Len(q) /\ Pump'[i] = q[i]
                                   \/ i - Len(q) + 1 \in 2..n /\ Pump'[i] = p[i - Len(q) + 1]
      BY <1>1, <1>7, <2>1, SplicedFrom
    <3>2. \A i \in 2..n : i \in 1..n
      BY <1>1
    <3>. QED
      BY <1>3, <1>7, <3>1, <3>2
  <2>4. Boots'
    BY <1>2, <2>3 DEF Boots, Bare
  <2>. QED
    BY <2>2, <2>4
<1>8. ASSUME Then("pump", <<>>),
             \A i \in 2..n : p[i].op = "scan" => Owned(p[i].handle)'
      PROVE  Hands(Pump)' /\ Boots'
  <2>. DEFINE q == <<>>
  <2>1. q \in Seq({}) /\ Len(q) = 0 /\ Then("pump", q) /\ ~First(q, Owing)
    BY <1>8 DEF First
  <2>. HIDE DEF q
  <2>2. \A i \in 1..Len(q) : FALSE
    BY <2>1
  <2>. QED
    BY <1>7, <1>8, <2>1, <2>2
<1>9. ASSUME NEW y, Then("pump", <<y>>), y.op # "reap",
             \A i \in 2..n : p[i].op = "scan" => Owned(p[i].handle)',
             y.op \in Owing => Given(y, n)',
             y.op \in {"scan", "match"} => Heard(y, n)'
      PROVE  Hands(Pump)' /\ Boots'
  <2>. DEFINE q == <<y>>
  <2>1. q \in Seq({y}) /\ Len(q) = 1 /\ q[1] = y /\ Then("pump", q)
    BY <1>9
  <2>. HIDE DEF q
  <2>2. Len(q) + n - 1 = n
    BY <1>1, <2>1
  <2>3. First(q, Owing) => Given(q[1], Len(q) + n - 1)'
    BY <1>9, <2>1, <2>2 DEF First
  <2>4. \A i \in 1..Len(q) : q[i].op \in {"scan", "match"} => Heard(q[i], Len(q) + n - 1)'
    BY <1>9, <2>1, <2>2
  <2>. QED
    BY <1>7, <1>9, <2>1, <2>3, <2>4
<1>10. ASSUME UNCHANGED <<pool, terminals>> PROVE ReadyOnce'
  BY <1>2, <1>3, <1>10 DEF ReadyOnce, Waits, Tracked
<1>11. ASSUME UNCHANGED pool, terminals' = [terminals EXCEPT ![t] = h], ~Parked(h),
              \A u \in Task : terminals[u] = h => u = t
       PROVE  ReadyOnce'
  <2>1. \A u \in Task : terminals'[u] = IF u = t THEN h ELSE terminals[u]
    BY <1>11 DEF TaskInv, Tables, Maps
  <2>2. \A i \in 1..Len(pool) : ~Tracked(pool[i])'
    BY <1>3, <1>11, <2>1 DEF ReadyOnce, Tracked, Parked
  <2>3. \A u, v \in Task : u # v /\ terminals'[u] \in Handle => terminals'[u] # terminals'[v]
    BY <1>3, <1>11, <2>1 DEF ReadyOnce
  <2>. QED
    BY <1>2, <1>3, <1>11, <2>2, <2>3 DEF ReadyOnce, Waits
<1>12. ASSUME \A u \in Task : state'[u] \in Owed /\ Landed(u)' =>
                \/ AtWork(u)'
                \/ /\ state[u] \in Owed /\ Landed(u)
                   /\ terminals'[u] = terminals[u] /\ bound'[u] = bound[u]
                   /\ u \in awaiting' => u \in awaiting
                   /\ hop'[u] = hop[u] \/ hop'[u] \in {"busy", "idle"}
       PROVE  Placed'
  BY <1>2, <1>3, <1>12 DEF Placed, AtWork
<1>13. CASE DoReserve("pump")
  <2>. DEFINE y == PopIdle(t, x.origin)
  <2>1. /\ x.op = "reserve" /\ Then("pump", <<y>>)
        /\ awaiting' = awaiting \cup {t} /\ hop' = [hop EXCEPT ![t] = "dispatched"]
        /\ UNCHANGED <<state, bound, terminals, pool>>
    BY <1>0, <1>13 DEF DoReserve, Runs
  <2>2. y.op = "pop_idle" /\ y.task = t
    BY DEF PopIdle
  <2>. HIDE DEF y
  <2>3. t \in Task /\ ~Landed(t)
    BY <1>4, <2>1 DEF Owing, Dispatching, Given
  <2>4. Given(y, n)'
    BY <2>1, <2>2, <2>3 DEF Given, Landed
  <2>5. Hands(Pump)' /\ Boots'
    BY <1>6, <1>9, <2>1, <2>2, <2>4
  <2>6. Placed'
    BY <1>12, <2>1, <2>3 DEF Landed
  <2>. QED
    BY <1>10, <2>1, <2>5, <2>6 DEF PumpTab
<1>14. CASE DoPopIdle("pump")
  <2>1. /\ x.op = "pop_idle" /\ UNCHANGED <<state, bound, hop, terminals>>
        /\ \/ pool = <<>> /\ Then("pump", <<Spawn(t, x.origin)>>) /\ UNCHANGED <<pool, awaiting>>
           \/ /\ pool # <<>> /\ Then("pump", <<Send(t, Last(pool), x.origin)>>)
              /\ pool' = Front(pool) /\ awaiting' = awaiting \ {t}
    BY <1>0, <1>14 DEF DoPopIdle, Runs, db
  <2>2. t \in Task /\ ~Landed(t) /\ n = 1
    BY <1>1, <1>3, <1>4, <2>1 DEF Owing, Dispatching, Given, Shape, Lone
  <2>3. Placed'
    BY <1>12, <2>1 DEF Landed
  <2>4. CASE Then("pump", <<Spawn(t, x.origin)>>) /\ UNCHANGED <<pool, awaiting>>
    <3>. DEFINE y == Spawn(t, x.origin)
    <3>1. y.op = "spawn" /\ y.task = t
      BY DEF Spawn
    <3>. HIDE DEF y
    <3>2. Given(y, n)'
      BY <2>1, <2>2, <3>1 DEF Given, Landed
    <3>3. Hands(Pump)' /\ Boots'
      BY <1>6, <1>9, <2>1, <2>4, <3>1, <3>2 DEF y
    <3>. QED
      BY <1>10, <2>1, <2>3, <2>4, <3>3 DEF PumpTab
  <2>5. CASE /\ pool # <<>> /\ Then("pump", <<Send(t, Last(pool), x.origin)>>)
             /\ pool' = Front(pool) /\ awaiting' = awaiting \ {t}
    <3>. DEFINE m == Len(pool)
    <3>0. PICK y : y = Send(t, Last(pool), x.origin)
      OBVIOUS
    <3>1. pool \in Seq(Used)
      BY DEF TaskInv, Tables, Maps
    <3>2. /\ m \in Nat \ {0} /\ Last(pool) = pool[m] /\ Len(pool') = m - 1
          /\ \A i \in 1..(m - 1) : pool'[i] = pool[i]
      <4>1. m \in Nat \ {0}
        BY <2>5, <3>1, EmptySeq, LenProperties
      <4>2. pool' = SubSeq(pool, 1, m - 1)
        BY <2>5 DEF Front
      <4>3. Len(pool') = m - 1 /\ \A i \in 1..(m - 1) : pool'[i] = pool[i]
        <5>. HIDE DEF m
        <5>1. m - 1 \in Int /\ 1 \in Int /\ \A i \in 1..(m - 1) : i \in 1..m
          BY <4>1
        <5>2. \A i \in 1..(m - 1) : pool[i] \in Used
          BY <3>1, <5>1, ElementOfSeq DEF m
        <5>3. /\ Len(pool') = IF 1 <= m - 1 THEN m - 1 - 1 + 1 ELSE 0
              /\ \A i \in 1..(m - 1 - 1 + 1) : pool'[i] = pool[1 + i - 1]
          BY <4>2, <5>1, <5>2, SubSeqProperties
        <5>. QED
          BY <4>1, <5>3
      <4>. QED
        BY <4>1, <4>3 DEF Last
    <3>3. y.op = "send" /\ y.task = t /\ y.handle = pool[m]
      BY <3>0, <3>2 DEF Send
    <3>. HIDE DEF m
    <3>4. ReadyOnce'
      <4>1. /\ \A i \in 1..m - 1 : i \in 1..m
            /\ \A i, j \in 1..m : pool[i] = pool[j] => i = j
        BY <1>3, <3>2 DEF ReadyOnce, Once, m
      <4>2. Once(pool')
        BY <3>2, <4>1 DEF Once
      <4>3. \A i \in 1..Len(pool') :
              ReadyOf(pool'[i]) \in said /\ ~Waits(pool'[i]) /\ ~Tracked(pool'[i])
        BY <1>3, <3>2, <4>1 DEF ReadyOnce, m
      <4>. QED
        BY <1>2, <1>3, <2>1, <4>2, <4>3 DEF ReadyOnce, Waits, Tracked
    <3>5. Given(y, n)'
      <4>0. PICK k : k = pool[m]
        OBVIOUS
      <4>1. ~Parked(k)'
        <5>1. \A i \in 1..m - 1 : i \in 1..m /\ i # m /\ pool'[i] = pool[i]
          BY <3>2
        <5>2. m \in 1..m /\ Len(pool') = m - 1
          BY <3>2
        <5>. QED
          BY <1>3, <4>0, <5>1, <5>2 DEF ReadyOnce, Once, Parked, m
      <4>2. \A u \in Task : terminals[u] # k
        <5>1. m \in 1..m
          BY <3>2
        <5>. QED
          BY <1>3, <4>0, <5>1 DEF ReadyOnce, Tracked, m
      <4>. QED
        BY <2>1, <2>2, <2>5, <3>3, <4>0, <4>1, <4>2 DEF Given, Landed
    <3>6. Hands(Pump)' /\ Boots'
      BY <1>6, <1>9, <2>1, <2>5, <3>0, <3>3, <3>5
    <3>. QED
      BY <2>3, <3>4, <3>6 DEF PumpTab
  <2>. QED
    BY <2>1, <2>4, <2>5
<1>15. CASE DoSpawn("pump")
  <2>1. /\ x.op = "spawn" /\ UNCHANGED <<state, bound, hop, terminals, pool, awaiting>>
        /\ \/ \E k \in Handle : /\ tab[k] = "unused"
                                /\ Then("pump", <<Bind(t, k), Replay(k), SetState(t, "running")>>)
           \/ Then("pump", OnError(t, x.origin))
    BY <1>0, <1>15 DEF DoSpawn, Runs, db, memory
  <2>2. t \in Task /\ ~Landed(t) /\ n = 1
    BY <1>1, <1>3, <1>4, <2>1 DEF Owing, Dispatching, Given, Shape, Lone
  <2>3. Placed' /\ ReadyOnce'
    BY <1>10, <1>12, <2>1 DEF Landed
  <2>4. \A i \in 2..n : p[i].op = "scan" => Owned(p[i].handle)'
    BY <1>6, <2>1
  <2>5. ASSUME NEW k \in Handle, tab[k] = "unused",
               Then("pump", <<Bind(t, k), Replay(k), SetState(t, "running")>>)
        PROVE  Hands(Pump)' /\ Boots'
    <3>. DEFINE a == Bind(t, k)
                b == Replay(k)
                c == SetState(t, "running")
                q == <<a, b, c>>
    <3>1. a.op = "bind" /\ a.task = t /\ a.handle = k /\ b.op = "replay" /\ c.op = "set_state"
      BY DEF Bind, Replay, SetState
    <3>2. Len(q) = 3 /\ q[1] = a /\ q[2] = b /\ q[3] = c /\ q \in Seq({a, b, c})
      OBVIOUS
    <3>3. Then("pump", q)
      BY <2>5
    <3>. HIDE DEF q, a, b, c
    <3>4. \A i \in 1..Len(q) : q[i].op \notin {"reap", "scan", "match"}
      <4>1. \A i \in 1..Len(q) : i = 1 \/ i = 2 \/ i = 3
        BY <3>2
      <4>. QED
        BY <3>1, <3>2, <4>1
    <3>5. k \notin Used
      BY <2>5 DEF Used
    <3>6. ~Tracked(k) /\ ~Parked(k)
      <4>1. terminals \in [Task -> Used \cup {NoHandle, Blob}] /\ pool \in Seq(Used)
        BY DEF TaskInv, Tables, Maps
      <4>2. k # NoHandle /\ k # Blob
        BY <2>5, TaskAssumption
      <4>3. ~Tracked(k)
        BY <3>5, <4>1, <4>2 DEF Tracked
      <4>4. ~Parked(k)
        BY <3>5, <4>1, ElementOfSeq DEF Parked
      <4>. QED
        BY <4>3, <4>4
    <3>7. Given(q[1], Len(q) + n - 1)'
      BY <2>1, <2>2, <3>1, <3>2, <3>6 DEF Given, Landed, Tracked, Parked
    <3>. QED
      BY <1>7, <2>4, <3>2, <3>3, <3>4, <3>7
  <2>6. CASE Then("pump", OnError(t, x.origin))
    <3>. DEFINE y == EarlyExit(t)
    <3>1. Then("pump", <<>>) \/ Then("pump", <<y>>)
      BY <2>6 DEF OnError
    <3>2. y.op = "early_exit" /\ y.op \notin Owing
      BY DEF EarlyExit, Owing, Dispatching
    <3>. HIDE DEF y
    <3>3. Hands(Pump)' /\ Boots'
      BY <1>8, <1>9, <2>4, <3>1, <3>2
    <3>. QED
      BY <2>3, <3>3 DEF PumpTab
  <2>. QED
    BY <2>1, <2>3, <2>5, <2>6 DEF PumpTab
<1>16. CASE DoBind("pump")
  <2>1. /\ x.op = "bind" /\ Then("pump", <<>>)
        /\ bound' = [bound EXCEPT ![t] = [handle |-> h, json |-> TRUE]]
        /\ terminals' = [terminals EXCEPT ![t] = h]
        /\ UNCHANGED <<state, hop, awaiting, pool>>
    BY <1>0, <1>16 DEF DoBind, Runs
  <2>2. t \in Task /\ ~Tracked(h) /\ ~Parked(h)
    BY <1>4, <2>1 DEF Owing, Given
  <2>3. ReadyOnce'
    BY <1>11, <2>1, <2>2 DEF Tracked
  <2>4. \A i \in 2..n : p[i].op # "scan"
    <3>1. \A i \in 2..n : 1 < i /\ i \in 1..n
      BY <1>1
    <3>. QED
      BY <1>1, <1>3, <2>1, <3>1 DEF Shape
  <2>5. Hands(Pump)' /\ Boots'
    BY <1>8, <2>1, <2>4
  <2>6. ~Landed(t)' /\ \A u \in Task \ {t} : /\ terminals'[u] = terminals[u]
                                             /\ bound'[u] = bound[u]
    BY <2>1, <2>2 DEF Landed, TaskInv, Tables, Rows, Maps
  <2>7. Placed'
    BY <1>12, <2>1, <2>6 DEF Landed
  <2>. QED
    BY <2>3, <2>5, <2>7 DEF PumpTab
<1>17. CASE DoReplay("pump")
  <2>. DEFINE y == Scan(h)
  <2>1. /\ UNCHANGED <<state, bound, hop, terminals, awaiting, pool>>
        /\ \/ Then("pump", <<>>)
           \/ Then("pump", <<y>>) /\ \E u \in Task : terminals[u] = h
        /\ h \in Used
    <3>1. x.op = "replay"
      BY <1>0, <1>17 DEF DoReplay, Runs
    <3>2. h \in Used
      BY <1>1, <3>1, StepFields DEF StepsNow
    <3>. QED
      BY <1>0, <1>17, <3>2 DEF DoReplay, db, memory
  <2>2. y.op = "scan" /\ y.handle = h /\ "scan" \notin Owing
    BY DEF Scan, Owing, Dispatching
  <2>. HIDE DEF y
  <2>3. \A i \in 2..n : p[i].op = "scan" => Owned(p[i].handle)'
    BY <1>6, <2>1
  <2>4. CASE Then("pump", <<y>>) /\ \E u \in Task : terminals[u] = h
    <3>1. h # NoHandle
      BY <2>1, TaskAssumption DEF Used
    <3>2. Heard(y, n)'
      BY <1>5, <2>1, <2>2, <2>4, <3>1 DEF Heard, Owned
    <3>. QED
      BY <1>9, <1>10, <1>12, <2>1, <2>2, <2>3, <2>4, <3>2 DEF PumpTab, Landed
  <2>5. CASE Then("pump", <<>>)
    BY <1>8, <1>10, <1>12, <2>1, <2>3, <2>5 DEF PumpTab, Landed
  <2>. QED
    BY <2>1, <2>4, <2>5
<1>18. CASE DoScan("pump")
  <2>0. PICK y : y = Match(h, OwedTasks(state), FreshTasks(hop))
    OBVIOUS
  <2>1. /\ x.op = "scan" /\ Then("pump", <<y>>)
        /\ UNCHANGED <<state, bound, hop, terminals, awaiting, pool>>
    BY <1>0, <1>18, <2>0 DEF DoScan, Runs, db, memory, OwedTasks, FreshTasks
  <2>2. y.op = "match" /\ y.handle = h /\ "match" \notin Owing
    BY <2>0 DEF Match, Owing, Dispatching
  <2>3. Heard(x, n)
    BY <1>1, <1>3, <2>1 DEF Hands
  <2>4. Heard(y, n)'
    BY <1>2, <2>1, <2>2, <2>3 DEF Heard, Owned, Free, Waits, Parked
  <2>. QED
    BY <1>6, <1>9, <1>10, <1>12, <2>1, <2>2, <2>4 DEF PumpTab, Landed
<1>19. CASE DoMatch("pump")
  <2>. DEFINE owners == {u \in Task : terminals[u] = h}
              waiting == owners \subseteq awaiting \/ owners \cap awaiting # {}
              C == Candidates(h, x.owed, x.fresh)
  <2>1. /\ x.op = "match" /\ UNCHANGED <<state, bound, hop, terminals, awaiting>>
        /\ \/ Then("pump", <<>>) /\ UNCHANGED pool
           \/ waiting /\ C = {} /\ Then("pump", <<>>) /\ pool' = Append(pool, h)
           \/ /\ waiting /\ UNCHANGED pool
              /\ \E u \in C : Then("pump", <<Claim(u, h)>>)
    BY <1>0, <1>19 DEF DoMatch, Runs, db
  <2>2. x.owed = OwedTasks(state) /\ x.fresh = FreshTasks(hop)
    BY <1>1, <1>3, <2>1 DEF Sane, First
  <2>3. Heard(x, n)
    BY <1>1, <1>3, <2>1 DEF Hands
  <2>4. h \in Used /\ h \in Handle /\ h # NoHandle
    <3>1. h \in Used
      BY <1>1, <2>1, StepFields DEF StepsNow
    <3>. QED
      BY <3>1, TaskAssumption DEF Used
  <2>5. ASSUME NEW u \in Task, terminals[u] = h PROVE owners = {u} /\ state[u] \in Owed
    BY <1>3, <1>5, <2>4, <2>5 DEF ReadyOnce
  <2>6. ASSUME NEW u \in Task, terminals[u] = h, waiting PROVE C = {u}
    <3>1. owners = {u} /\ u \in awaiting /\ u \in x.owed
      BY <2>2, <2>5, <2>6 DEF OwedTasks
    <3>. DEFINE eligible == x.owed \cap (x.fresh \cup awaiting)
                exact == {v \in eligible : terminals[v] = h}
    <3>2. eligible \subseteq Task /\ u \in eligible
      BY <2>2, <3>1 DEF OwedTasks
    <3>3. exact = {u}
      BY <2>6, <3>1, <3>2
    <3>4. C = IF exact # {} THEN exact ELSE eligible
      BY DEF Candidates
    <3>. QED
      BY <3>3, <3>4
  <2>7. \A u \in C : /\ u \in Task /\ state[u] \in Owed
                     /\ u \in awaiting \/ hop[u] \in {"", "dispatched", "ready"}
    BY <2>2 DEF Candidates, OwedTasks, FreshTasks
  <2>8. Placed'
    BY <1>12, <2>1 DEF Landed
  <2>9. \A i \in 2..n : p[i].op = "scan" => Owned(p[i].handle)'
    BY <1>6, <2>1
  <2>. HIDE DEF owners, waiting, C
  <2>10. CASE Then("pump", <<>>) /\ UNCHANGED pool
    BY <1>8, <1>10, <2>1, <2>8, <2>9, <2>10 DEF PumpTab
  <2>11. CASE waiting /\ C = {} /\ Then("pump", <<>>) /\ pool' = Append(pool, h)
    <3>1. ~Tracked(h)
      BY <2>6, <2>11 DEF Tracked
    <3>2. Free(h)
      BY <2>3, <3>1 DEF Heard, Owned, Tracked
    <3>3. /\ Len(pool) \in Nat /\ Len(pool') = Len(pool) + 1
          /\ \A i \in 1..Len(pool) : pool'[i] = pool[i]
          /\ pool'[Len(pool) + 1] = h
      <4>1. pool \in Seq(Used)
        BY DEF TaskInv, Tables, Maps
      <4>. QED
        BY <2>4, <2>11, <4>1, AppendProperties, LenProperties
    <3>4. Once(pool')
      BY <1>3, <3>2, <3>3 DEF ReadyOnce, Once, Free, Parked
    <3>5. \A i \in 1..Len(pool') : pool'[i] = h \/ (i \in 1..Len(pool) /\ pool'[i] = pool[i])
      BY <3>3
    <3>6. \A i \in 1..Len(pool') :
            ReadyOf(pool'[i]) \in said /\ ~Waits(pool'[i]) /\ ~Tracked(pool'[i])
      BY <1>3, <3>1, <3>2, <3>5 DEF ReadyOnce, Free
    <3>7. ReadyOnce'
      BY <1>2, <1>3, <2>1, <3>4, <3>6 DEF ReadyOnce, Waits, Tracked
    <3>. QED
      BY <1>8, <2>8, <2>9, <2>11, <3>7 DEF PumpTab
  <2>12. CASE waiting /\ UNCHANGED pool /\ \E u \in C : Then("pump", <<Claim(u, h)>>)
    <3>1. PICK u \in C : Then("pump", <<Claim(u, h)>>)
      BY <2>12
    <3>. DEFINE y == Claim(u, h)
    <3>2. y.op = "claim" /\ y.task = u /\ y.handle = h
      BY DEF Claim
    <3>. HIDE DEF y
    <3>3. ~Landed(u)
      BY <1>2, <1>3, <2>7 DEF Placed, AtWork
    <3>4. ~Parked(h)
      <4>1. Owned(h) => ~Parked(h)
        BY <1>3 DEF Owned, ReadyOnce, Parked, Tracked
      <4>. QED
        BY <2>3, <4>1 DEF Heard, Free
    <3>5. \A v \in Task : terminals[v] = h => v = u
      BY <2>6, <2>12
    <3>6. n > 1 => terminals[u] = h
      <4>0. n \in Nat /\ \A k \in Nat : k > 1 => k # 1
        BY <1>1
      <4>1. n > 1 => n # 1
        BY <4>0
      <4>2. n > 1 => Owned(h)
        BY <2>3, <4>1 DEF Heard
      <4>. QED
        BY <3>5, <4>2 DEF Owned
    <3>7. Given(y, n)'
      BY <2>1, <2>12, <3>2, <3>3, <3>4, <3>5, <3>6 DEF Given, Landed, Parked
    <3>8. Hands(Pump)' /\ Boots'
      BY <1>9, <2>9, <3>1, <3>2, <3>7 DEF y
    <3>. QED
      BY <1>10, <2>1, <2>8, <2>12, <3>8 DEF PumpTab
  <2>. QED
    BY <2>1, <2>10, <2>11, <2>12
<1>20. CASE DoClaim("pump")
  <2>. DEFINE y == Send(t, h, "ready")
  <2>1. /\ x.op = "claim" /\ Then("pump", <<y>>) /\ awaiting' = awaiting \ {t}
        /\ terminals' = [terminals EXCEPT ![t] = h] /\ hop' = [hop EXCEPT ![t] = "ready"]
        /\ UNCHANGED <<state, bound, pool>>
    BY <1>0, <1>20 DEF DoClaim, Runs
  <2>2. y.op = "send" /\ y.task = t /\ y.handle = h
    BY DEF Send
  <2>. HIDE DEF y
  <2>3. /\ t \in Task /\ ~Landed(t) /\ ~Parked(h)
        /\ \A u \in Task : terminals[u] = h => u = t
        /\ n > 1 => terminals[t] = h
    BY <1>4, <2>1 DEF Owing, Given
  <2>4. \A u \in Task : terminals'[u] = IF u = t THEN h ELSE terminals[u]
    BY <2>1 DEF TaskInv, Tables, Maps
  <2>5. n > 1 => terminals' = terminals
    BY <2>1, <2>3 DEF TaskInv, Tables, Maps
  <2>6. Given(y, n)'
    BY <2>1, <2>2, <2>3, <2>4 DEF Given, Landed, Parked
  <2>7. Hands(Pump)' /\ Boots'
    BY <1>6, <1>9, <2>1, <2>2, <2>5, <2>6
  <2>8. ReadyOnce'
    BY <1>11, <2>1, <2>3
  <2>9. Placed'
    BY <1>12, <2>1, <2>3, <2>4 DEF Landed, TaskInv, Tables, Rows
  <2>. QED
    BY <2>7, <2>8, <2>9 DEF PumpTab
<1>21. CASE DoSend("pump")
  <2>. DEFINE y == Land(t, h)
              z == EarlyExit(t)
  <2>1. /\ x.op = "send" /\ UNCHANGED <<state, bound, hop, terminals, awaiting, pool>>
        /\ Then("pump", <<y>>) \/ Then("pump", <<>>) \/ Then("pump", <<z>>)
    BY <1>0, <1>21 DEF DoSend, Runs, db, memory, OnError
  <2>2. /\ y.op = "land" /\ y.task = t /\ y.handle = h
        /\ z.op = "early_exit" /\ z.op \notin Owing
    BY DEF Land, EarlyExit, Owing, Dispatching
  <2>. HIDE DEF y, z
  <2>3. Given(x, n)
    BY <1>4, <2>1 DEF Owing
  <2>4. Given(y, n)'
    BY <2>1, <2>2, <2>3 DEF Given, Landed, Parked
  <2>5. \A i \in 2..n : p[i].op = "scan" => Owned(p[i].handle)'
    BY <1>6, <2>1
  <2>6. Hands(Pump)' /\ Boots'
    BY <1>8, <1>9, <2>1, <2>2, <2>4, <2>5
  <2>. QED
    BY <1>10, <1>12, <2>1, <2>6 DEF PumpTab, Landed
<1>22. CASE DoLand("pump")
  <2>1. /\ x.op = "land" /\ Then("pump", <<>>)
        /\ bound' = [bound EXCEPT ![t] = [handle |-> h, json |-> FALSE]]
        /\ terminals' = [terminals EXCEPT ![t] = h]
        /\ state' = [state EXCEPT ![t] = "running"] /\ hop' = [hop EXCEPT ![t] = "busy"]
        /\ UNCHANGED <<awaiting, pool>>
    BY <1>0, <1>22 DEF DoLand, Runs
  <2>2. /\ t \in Task /\ ~Parked(h) /\ t \notin awaiting /\ state[t] \in Owed
        /\ \A u \in Task : terminals[u] = h => u = t
        /\ n > 1 => terminals[t] = h
    BY <1>4, <2>1 DEF Owing, Given
  <2>3. n > 1 => terminals' = terminals
    BY <2>1, <2>2 DEF TaskInv, Tables, Maps
  <2>4. \A u \in Task : state[u] \in Owed <=> state'[u] \in Owed
    BY <2>1, <2>2 DEF Owed, TaskInv, Tables, Rows
  <2>5. Hands(Pump)' /\ Boots'
    BY <1>6, <1>8, <2>1, <2>3, <2>4
  <2>6. ReadyOnce'
    BY <1>11, <2>1, <2>2
  <2>7. AtWork(t)'
    BY <2>1, <2>2 DEF AtWork, TaskInv, Tables, Rows, Maps
  <2>8. \A u \in Task \ {t} : /\ terminals'[u] = terminals[u] /\ bound'[u] = bound[u]
                              /\ hop'[u] = hop[u]
    BY <2>1
  <2>9. \A u \in Task : u = t => AtWork(u)'
    BY <2>7
  <2>10. Placed'
    BY <1>12, <2>1, <2>4, <2>8, <2>9 DEF Landed
  <2>. QED
    BY <2>5, <2>6, <2>10 DEF PumpTab
<1>23. CASE DoSetHop("pump")
  <2>1. /\ x.op = "set_hop" /\ Then("pump", <<>>) /\ hop' = [hop EXCEPT ![t] = x.state]
        /\ UNCHANGED <<state, bound, terminals, awaiting, pool>>
    BY <1>0, <1>23 DEF DoSetHop, Runs
  <2>2. x.state \in {"busy", "idle"}
    BY <1>1, <2>1, StepFields DEF StepsNow, Hops
  <2>3. \A u \in Task : hop'[u] = hop[u] \/ hop'[u] \in {"busy", "idle"}
    BY <2>1, <2>2 DEF TaskInv, Tables, Rows
  <2>4. Hands(Pump)' /\ Boots'
    BY <1>6, <1>8, <2>1
  <2>. QED
    BY <1>10, <1>12, <2>1, <2>3, <2>4 DEF PumpTab, Landed
<1>. QED
  BY <1>13, <1>14, <1>15, <1>16, <1>17, <1>18, <1>19, <1>20, <1>21, <1>22, <1>23 DEF ServeStep

\* The steps that settle a task.
LEMMA SettleOps ==
    ASSUME NEW t, NEW s
    PROVE  LET T == {"set_state", "record", "unbind"} IN
           /\ \A i \in 1..Len(Settle(t, s)) : Settle(t, s)[i].op \in T
           /\ \A y : \A i \in 1..Len(Settle(t, s) \o <<y>>) :
                (Settle(t, s) \o <<y>>)[i].op \in T \cup {y.op}
<1>. DEFINE a == SetState(t, s)
            b == Record(t, s)
            c == Unbind(t)
            T == {"set_state", "record", "unbind"}
<1>1. a.op \in T /\ b.op \in T /\ c.op \in T
  BY DEF SetState, Record, Unbind
<1>2. Settle(t, s) = <<a, b, c>>
  BY DEF Settle
<1>. HIDE DEF a, b, c, T
<1>3. \A i \in 1..Len(<<a, b, c>>) : <<a, b, c>>[i].op \in T
  <2>. DEFINE q == <<a, b, c>>
  <2>1. Len(q) = 3 /\ q[1] = a /\ q[2] = b /\ q[3] = c
    OBVIOUS
  <2>. HIDE DEF q
  <2>2. \A i \in 1..Len(q) : i = 1 \/ i = 2 \/ i = 3
    BY <2>1
  <2>3. \A i \in 1..Len(q) : q[i].op \in T
    BY <1>1, <2>1, <2>2
  <2>. QED
    BY <2>3 DEF q
<1>4. ASSUME NEW y, NEW i \in 1..Len(<<a, b, c, y>>)
      PROVE  <<a, b, c, y>>[i].op \in T \cup {y.op}
  <2>. DEFINE q == <<a, b, c, y>>
  <2>1. Len(q) = 4 /\ q[1] = a /\ q[2] = b /\ q[3] = c /\ q[4] = y
    OBVIOUS
  <2>. HIDE DEF q
  <2>2. \A j \in 1..Len(q) : j = 1 \/ j = 2 \/ j = 3 \/ j = 4
    BY <2>1
  <2>3. \A j \in 1..Len(q) : q[j].op \in T \cup {y.op}
    BY <1>1, <2>1, <2>2
  <2>. QED
    BY <2>3 DEF q
<1>5. \A y : Settle(t, s) \o <<y>> = <<a, b, c, y>>
  BY <1>2, Fourth
<1>. QED
  BY <1>2, <1>3, <1>4, <1>5 DEF T

LEMMA EndTab ==
    ASSUME TaskInv, PumpShape, PumpState, PumpTab, TabServesOne, Pump # <<>>,
           EndStep \/ DoReap
    PROVE  PumpTab'
<1>0. PICK p, x : p = Pump /\ x = Head(prog["pump"])
  OBVIOUS
<1>. DEFINE t == x.task
            n == Len(p)
<1>1. /\ p \in Seq(StepsNow) /\ p # <<>> /\ p[1] = x /\ x \in StepsNow /\ 1 \in 1..n
      /\ n \in Nat
  BY <1>0, PumpHead
<1>2. Alone /\ up' = up /\ UNCHANGED <<pool, sessions, history, mail, said>>
  BY DEF PumpShape, EndStep, DoSetState, DoRecord, DoUnbind, DoCloseTab, DoEarlyExit, DoRetry,
         DoReap, memory, agents, process
<1>3. /\ Shape(p) /\ Hands(p) /\ Sane(state, hop, p) /\ Granted(state, p, 1)
      /\ ReadyOnce /\ Placed /\ Boots
      /\ p # <<>> => p[1] = x
  BY <1>0, <1>1 DEF PumpShape, PumpState, PumpTab, Sane
<1>4. ASSUME Finishes(x) PROVE \A i \in 2..n : p[i].op # "scan"
  <2>1. \A y : ~(Serves(y) /\ Finishes(y))
    BY DEF Serves, Finishes, Dispatching, Settled, Result
  <2>2. \A i \in 1..n : Finishes(p[i])
    BY <1>1, <1>3, <1>4, <2>1 DEF Shape
  <2>3. \A i \in 2..n : i \in 1..n
    BY <1>1
  <2>. QED
    BY <2>2, <2>3 DEF Finishes
<1>5. ASSUME NEW q, NEW R, q \in Seq(R), Then("pump", q),
             \A i \in 1..Len(q) : q[i].op \notin {"scan", "match", "reap"},
             First(q, Owing) => Given(q[1], Len(q) + n - 1)',
             \A i \in 2..n : p[i].op = "scan" => Owned(p[i].handle)',
             UNCHANGED bound, Bare'
      PROVE  Hands(Pump)' /\ Boots'
  <2>1. Pump' = q \o Tail(p)
    BY <1>0, <1>2, <1>5, Turned
  <2>2. \A i \in 1..Len(q) : q[i].op \in {"scan", "match"} => Heard(q[i], Len(q) + n - 1)'
    BY <1>5
  <2>3. Hands(Pump)'
    BY <1>1, <1>3, <1>5, <2>1, <2>2, SplicedHands
  <2>4. \A i \in 1..Len(Pump') : Pump'[i].op = "reap" =>
          \E j \in 1..n : Pump'[i] = p[j]
    <3>1. \A i \in 1..Len(Pump') : \/ i \in 1..Len(q) /\ Pump'[i] = q[i]
                                   \/ i - Len(q) + 1 \in 2..n /\ Pump'[i] = p[i - Len(q) + 1]
      BY <1>1, <1>5, <2>1, SplicedFrom
    <3>2. \A i \in 2..n : i \in 1..n
      BY <1>1
    <3>. QED
      BY <1>5, <3>1, <3>2
  <2>5. \A j \in 1..n : p[j].op = "reap" => ~up /\ p[j].handle = Text(bound[p[j].task])
    BY <1>0, <1>3 DEF Boots
  <2>6. ASSUME NEW i \in 1..Len(Pump'), Pump'[i].op = "reap"
        PROVE  ~up' /\ Pump'[i].handle = Text(bound'[Pump'[i].task])
    <3>1. PICK j \in 1..n : Pump'[i] = p[j]
      BY <2>4, <2>6
    <3>. QED
      BY <1>2, <1>5, <2>5, <2>6, <3>1
  <2>. QED
    BY <1>5, <2>3, <2>6 DEF Boots
<1>6. ASSUME Then("pump", <<>>), UNCHANGED bound, Bare',
             \A i \in 2..n : p[i].op = "scan" => Owned(p[i].handle)'
      PROVE  Hands(Pump)' /\ Boots'
  <2>. DEFINE q == <<>>
  <2>1. q \in Seq({}) /\ Len(q) = 0 /\ Then("pump", q) /\ ~First(q, Owing)
    BY <1>6 DEF First
  <2>. HIDE DEF q
  <2>2. \A i \in 1..Len(q) : FALSE
    BY <2>1
  <2>. QED
    BY <1>5, <1>6, <2>1, <2>2
<1>7. ASSUME NEW y, Then("pump", <<y>>), y.op \notin {"scan", "match", "reap"},
             y.op \in Owing => Given(y, n)', UNCHANGED bound, Bare',
             \A i \in 2..n : p[i].op = "scan" => Owned(p[i].handle)'
      PROVE  Hands(Pump)' /\ Boots'
  <2>. DEFINE q == <<y>>
  <2>1. q \in Seq({y}) /\ Len(q) = 1 /\ q[1] = y /\ Then("pump", q)
    BY <1>7
  <2>. HIDE DEF q
  <2>2. Len(q) + n - 1 = n /\ \A i \in 1..Len(q) : i = 1
    BY <1>1, <2>1
  <2>3. First(q, Owing) => Given(q[1], Len(q) + n - 1)'
    BY <1>7, <2>1, <2>2 DEF First
  <2>4. \A i \in 1..Len(q) : q[i].op \notin {"scan", "match", "reap"}
    BY <1>7, <2>1, <2>2
  <2>. QED
    BY <1>5, <1>7, <2>1, <2>3, <2>4
\* The place of a task that the step does not end.
<1>8. ASSUME NEW q, NEW R, q \in Seq(R), Then("pump", q),
             \A u \in Task : state'[u] \in Owed /\ Landed(u)' =>
               \/ AtWork(u)'
               \/ /\ state[u] \in Owed /\ bound'[u] = bound[u] /\ hop'[u] = hop[u]
                  /\ terminals'[u] = terminals[u] /\ (u \in awaiting' => u \in awaiting)
                  /\ Ends(x, u) => \E i \in 1..Len(q) : Ends(q[i], u)
      PROVE  Placed'
  <2>1. Pump' = q \o Tail(p)
    BY <1>0, <1>2, <1>8, Turned
  <2>2. SUFFICES ASSUME NEW u \in Task, state'[u] \in Owed, Landed(u)', ~AtWork(u)'
                 PROVE  ~up' /\ Ending(Pump, u)'
    BY DEF Placed
  <2>3. /\ state[u] \in Owed /\ bound'[u] = bound[u] /\ hop'[u] = hop[u]
        /\ terminals'[u] = terminals[u] /\ (u \in awaiting' => u \in awaiting)
        /\ Ends(x, u) => \E i \in 1..Len(q) : Ends(q[i], u)
    BY <1>8, <2>2
  <2>4. Landed(u) /\ ~AtWork(u)
    BY <2>2, <2>3 DEF Landed, AtWork
  <2>5. ~up /\ Ending(p, u)
    BY <1>0, <1>3, <2>3, <2>4 DEF Placed
  <2>6. CASE Ends(x, u)
    <3>1. PICK i \in 1..Len(q) : Ends(q[i], u)
      BY <2>3, <2>6
    <3>2. i \in 1..Len(q \o Tail(p)) /\ (q \o Tail(p))[i] = q[i]
      BY <1>1, <1>8, <3>1, Spliced
    <3>. QED
      BY <1>2, <2>1, <2>5, <3>1, <3>2 DEF Ending
  <2>7. CASE ~Ends(x, u)
    <3>1. Ending(q \o Tail(p), u)
      BY <1>1, <1>8, <2>5, <2>7, EndingStays
    <3>. QED
      BY <1>2, <2>1, <2>5, <3>1
  <2>. QED
    BY <2>6, <2>7
<1>9. ASSUME UNCHANGED terminals PROVE ReadyOnce'
  BY <1>2, <1>3, <1>9 DEF ReadyOnce, Waits, Tracked
<1>10. ASSUME UNCHANGED <<terminals, awaiting, bound>> PROVE Bare'
  BY <1>2, <1>3, <1>10 DEF Boots, Bare, Landed
<1>11. <<>> \in Seq({})
  OBVIOUS
<1>12. CASE DoSetState("pump")
  <2>1. /\ x.op = "set_state" /\ Then("pump", <<>>)
        /\ UNCHANGED <<terminals, awaiting, bound, hop>>
        /\ state' = [state EXCEPT ![t] = x.state]
    BY <1>0, <1>12 DEF DoSetState, Runs, memory
  <2>2. t \in Task /\ x.state \in Settled \cup {"running"}
    BY <1>1, <2>1, StepTasks, StepFields DEF StepsNow
  <2>3. /\ state'[t] = x.state /\ \A u \in Task \ {t} : state'[u] = state[u]
    BY <2>1, <2>2 DEF TaskInv, Tables, Rows
  <2>4. x.state = "running" => state[t] \in Owed
    BY <1>1, <1>3, <2>1 DEF Granted
  <2>5. \A i \in 2..n : p[i].op = "scan" => Owned(p[i].handle)'
    <3>1. CASE x.state \in Settled
      BY <1>4, <2>1, <3>1 DEF Finishes
    <3>2. CASE x.state = "running"
      <4>1. \A u \in Task : state[u] \in Owed => state'[u] \in Owed
        BY <2>3, <3>2 DEF Owed
      <4>2. \A i \in 2..n : p[i].op = "scan" => Owned(p[i].handle)
        BY <1>1, <1>3, HandsOfRest
      <4>. QED
        BY <2>1, <4>1, <4>2 DEF Owned
    <3>. QED
      BY <2>2, <3>1, <3>2
  <2>6. ASSUME NEW u \in Task, state'[u] \in Owed
        PROVE  state[u] \in Owed /\ ~Ends(x, u)
    <3>1. CASE u = t
      BY <2>1, <2>2, <2>3, <2>4, <2>6, <3>1 DEF Owed, Settled, Result, Ends
    <3>2. CASE u # t
      BY <2>3, <2>6, <3>2 DEF Ends
    <3>. QED
      BY <3>1, <3>2
  <2>7. Placed'
    BY <1>8, <1>11, <2>1, <2>6
  <2>8. Hands(Pump)' /\ Boots'
    BY <1>6, <1>10, <2>1, <2>5
  <2>. QED
    BY <1>9, <2>1, <2>7, <2>8 DEF PumpTab
<1>13. CASE DoRecord("pump") \/ DoCloseTab("pump")
  <2>1. /\ x.op \in {"record", "close_tab"} /\ Then("pump", <<>>)
        /\ UNCHANGED <<state, terminals, awaiting, bound, hop>>
    BY <1>0, <1>13 DEF DoRecord, DoCloseTab, Runs, memory, db
  <2>2. Finishes(x) /\ \A u : ~Ends(x, u)
    BY <2>1 DEF Finishes, Ends
  <2>3. Placed'
    BY <1>8, <1>11, <2>1, <2>2
  <2>4. Hands(Pump)' /\ Boots'
    BY <1>4, <1>6, <1>10, <2>1, <2>2
  <2>. QED
    BY <1>9, <2>1, <2>3, <2>4 DEF PumpTab
<1>14. CASE DoUnbind("pump")
  <2>0. PICK y : y = CloseTab(t, terminals[t])
    OBVIOUS
  <2>1. /\ x.op = "unbind" /\ UNCHANGED <<state, bound>> /\ awaiting' = awaiting \ {t}
        /\ hop' = [hop EXCEPT ![t] = ""]
        /\ terminals' = [terminals EXCEPT ![t] = NoHandle]
        /\ Then("pump", <<>>) \/ Then("pump", <<y>>)
    BY <1>0, <1>14, <2>0 DEF DoUnbind, Runs
  <2>2. y.op = "close_tab"
    BY <2>0 DEF CloseTab
  <2>3. Finishes(x) /\ \A u : ~Ends(x, u)
    BY <2>1 DEF Finishes, Ends
  <2>4. t \in Task /\ state[t] \notin Owed
    <3>1. t \in Task
      BY <1>1, <2>1, StepTasks
    <3>2. state[t] \in Settled \/ Settles(p, t)
      BY <1>1, <1>3, <2>1 DEF Granted
    <3>3. ~Settles(p, t)
      BY <1>1, <2>1 DEF Settles, First
    <3>. QED
      BY <3>1, <3>2, <3>3 DEF Owed, Settled, Result
  <2>5. \A u \in Task : terminals'[u] = IF u = t THEN NoHandle ELSE terminals[u]
    BY <2>1 DEF TaskInv, Tables, Maps
  <2>6. ReadyOnce'
    <3>1. \A i \in 1..Len(pool) : pool[i] # NoHandle
      <4>1. pool \in Seq(Used)
        BY DEF TaskInv, Tables, Maps
      <4>. QED
        BY <4>1, ElementOfSeq, TaskAssumption DEF Used
    <3>2. \A i \in 1..Len(pool) : ~Tracked(pool[i])'
      BY <1>2, <1>3, <2>5, <3>1 DEF ReadyOnce, Tracked
    <3>3. \A u, v \in Task : u # v /\ terminals'[u] \in Handle => terminals'[u] # terminals'[v]
      BY <1>3, <2>5, TaskAssumption DEF ReadyOnce
    <3>. QED
      BY <1>2, <1>3, <3>2, <3>3 DEF ReadyOnce, Waits
  <2>7. Bare'
    BY <1>2, <1>3, <2>1, <2>5, TaskAssumption DEF Boots, Bare, Landed
  <2>8. Hands(Pump)' /\ Boots'
    BY <1>4, <1>6, <1>7, <2>1, <2>2, <2>3, <2>7 DEF Owing, Dispatching
  <2>9. \A u \in Task : state'[u] \in Owed =>
          /\ state[u] \in Owed /\ bound'[u] = bound[u] /\ hop'[u] = hop[u]
          /\ terminals'[u] = terminals[u] /\ (u \in awaiting' => u \in awaiting)
    <3>1. \A u \in Task \ {t} : hop'[u] = hop[u]
      <4>1. hop' = [hop EXCEPT ![t] = ""]
        BY <2>1
      <4>. QED
        BY <4>1 DEF TaskInv, Tables, Rows
    <3>2. state' = state /\ bound' = bound /\ awaiting' \subseteq awaiting
      BY <2>1
    <3>. QED
      BY <2>4, <2>5, <3>1, <3>2
  <2>10. Placed'
    <3>1. <<>> \in Seq({y}) /\ <<y>> \in Seq({y})
      OBVIOUS
    <3>2. PICK q \in Seq({y}) : Then("pump", q)
      BY <2>1, <3>1
    <3>. QED
      BY <1>8, <2>3, <2>9, <3>2
  <2>. QED
    BY <2>6, <2>8, <2>10 DEF PumpTab
<1>15. CASE DoEarlyExit("pump")
  <2>. DEFINE q == Settle(t, "failed")
              a == SetState(t, "failed")
  <2>1. /\ x.op = "early_exit" /\ UNCHANGED <<state, terminals, awaiting, bound, hop>>
        /\ \/ state[t] \in {"done", "closed"} /\ Then("pump", <<>>)
           \/ Then("pump", q)
    BY <1>0, <1>15 DEF DoEarlyExit, Runs, memory, db
  <2>2. Finishes(x) /\ \A u : Ends(x, u) => u = t
    BY <2>1 DEF Finishes, Ends
  <2>3. CASE state[t] \in {"done", "closed"} /\ Then("pump", <<>>)
    <3>1. state[t] \notin Owed
      BY <2>3 DEF Owed
    <3>2. Placed'
      BY <1>8, <1>11, <2>1, <2>2, <2>3, <3>1
    <3>3. Hands(Pump)' /\ Boots'
      BY <1>4, <1>6, <1>10, <2>1, <2>2, <2>3
    <3>. QED
      BY <1>9, <2>1, <3>2, <3>3 DEF PumpTab
  <2>4. CASE Then("pump", q)
    <3>1. /\ q \in Seq({SetState(t, "failed"), Record(t, "failed"), Unbind(t)})
          /\ 1 \in 1..Len(q) /\ q[1] = a
      BY DEF Settle
    <3>2. a.op = "set_state" /\ Ends(a, t)
      BY DEF SetState, Ends, Settled, Result
    <3>3. \A i \in 1..Len(q) : q[i].op \in {"set_state", "record", "unbind"}
      BY SettleOps
    <3>. HIDE DEF q, a
    <3>4. ~First(q, Owing)
      BY <3>1, <3>2 DEF First, Owing, Dispatching
    <3>5. Hands(Pump)' /\ Boots'
      BY <1>4, <1>5, <1>10, <2>1, <2>2, <2>4, <3>1, <3>3, <3>4
    <3>6. Placed'
      BY <1>8, <2>1, <2>2, <2>4, <3>1, <3>2
    <3>. QED
      BY <1>9, <2>1, <3>5, <3>6 DEF PumpTab
  <2>. QED
    BY <2>1, <2>3, <2>4
<1>16. CASE DoRetry("pump")
  <2>1. x.op = "retry" /\ UNCHANGED <<terminals, awaiting, bound, hop>>
    BY <1>0, <1>16 DEF DoRetry, Runs, memory, InsertRow, db
  <2>2. Finishes(x) /\ \A u : ~Ends(x, u)
    BY <2>1 DEF Finishes, Ends
  <2>3. CASE UNCHANGED state /\ Then("pump", <<>>)
    <3>1. Placed'
      BY <1>8, <1>11, <2>1, <2>2, <2>3
    <3>2. Hands(Pump)' /\ Boots'
      BY <1>4, <1>6, <1>10, <2>1, <2>2, <2>3
    <3>. QED
      BY <1>9, <2>1, <3>1, <3>2 DEF PumpTab
  <2>4. CASE \E u \in Task : InsertRow(u, x.attempt + 1) /\ Then("pump", <<Reserve(u, "retry")>>)
    <3>1. PICK u \in Task : InsertRow(u, x.attempt + 1) /\ Then("pump", <<Reserve(u, "retry")>>)
      BY <2>4
    <3>. DEFINE y == Reserve(u, "retry")
    <3>2. y.op = "reserve" /\ y.task = u /\ Then("pump", <<y>>)
      BY <3>1 DEF Reserve
    <3>. HIDE DEF y
    <3>3. state[u] = "absent" /\ \A v \in Task \ {u} : state'[v] = state[v]
      BY <3>1 DEF InsertRow
    <3>4. ~Landed(u)'
      BY <2>1, <3>3 DEF Landed, TaskInv, Tables, Rows, Born
    <3>5. Given(y, n)'
      BY <3>2, <3>4 DEF Given
    <3>6. Hands(Pump)' /\ Boots'
      BY <1>4, <1>7, <1>10, <2>1, <2>2, <3>2, <3>5
    <3>7. <<y>> \in Seq({y})
      OBVIOUS
    <3>8. \A v \in Task : state'[v] \in Owed /\ Landed(v)' => state[v] \in Owed
      BY <3>3, <3>4
    <3>9. Placed'
      BY <1>8, <2>1, <2>2, <3>2, <3>7, <3>8
    <3>. QED
      BY <1>9, <2>1, <3>6, <3>9 DEF PumpTab
  <2>. QED
    BY <1>0, <1>16, <2>3, <2>4 DEF DoRetry, db
<1>17. CASE DoReap
  <2>. DEFINE y == EarlyExit(t)
              h == x.handle
  <2>1. /\ x.op = "reap" /\ UNCHANGED <<state, bound, awaiting>>
        /\ \/ /\ h # NoHandle /\ Alive(t, h) /\ Then("pump", <<>>)
              /\ terminals' = [terminals EXCEPT ![t] = h]
              /\ hop' = [hop EXCEPT ![t] = "busy"]
           \/ Then("pump", <<y>>) /\ UNCHANGED <<terminals, hop>>
    BY <1>0, <1>17 DEF DoReap, Runs
  <2>2. Finishes(x) /\ \A u : Ends(x, u) => u = t
    BY <2>1 DEF Finishes, Ends
  <2>3. y.op = "early_exit" /\ Ends(y, t) /\ "early_exit" \notin Owing
    BY DEF EarlyExit, Ends, Owing, Dispatching
  <2>. HIDE DEF y
  <2>4. /\ t \in Task /\ state[t] \in Owed
        /\ ~up /\ h = Text(bound[t])
    <3>1. ~up /\ h = Text(bound[t])
      BY <1>0, <1>1, <1>3, <2>1 DEF Boots
    <3>. QED
      BY <1>1, <1>3, <2>1, <3>1, StepTasks DEF Granted
  <2>5. CASE Then("pump", <<y>>) /\ UNCHANGED <<terminals, hop>>
    <3>1. Hands(Pump)' /\ Boots'
      BY <1>4, <1>7, <1>10, <2>1, <2>2, <2>3, <2>5
    <3>. DEFINE q == <<y>>
    <3>2. q \in Seq({y}) /\ 1 \in 1..Len(q) /\ q[1] = y
      OBVIOUS
    <3>. HIDE DEF q
    <3>3. Placed'
      BY <1>8, <2>1, <2>2, <2>3, <2>5, <3>2 DEF q
    <3>. QED
      BY <1>9, <2>5, <3>1, <3>3 DEF PumpTab
  <2>6. CASE /\ h # NoHandle /\ Alive(t, h) /\ Then("pump", <<>>)
             /\ terminals' = [terminals EXCEPT ![t] = h]
             /\ hop' = [hop EXCEPT ![t] = "busy"]
    <3>1. /\ terminals'[t] = h /\ \A u \in Task \ {t} : terminals'[u] = terminals[u]
          /\ hop'[t] = "busy" /\ \A u \in Task \ {t} : hop'[u] = hop[u]
      BY <2>4, <2>6 DEF TaskInv, Tables, Maps, Rows
    <3>2. h \in Handle => Landed(t) /\ h = bound[t].handle /\ tab[h] = "open"
      <4>1. h \in Handle => ~bound[t].json /\ h = bound[t].handle
        BY <2>4, TaskAssumption DEF Text
      <4>2. sessions[t] = NoHandle
        BY <1>3, <2>4 DEF Boots, Bare
      <4>3. h \in Handle => Target(t, h) = h
        BY <4>1, <4>2 DEF Target
      <4>. QED
        BY <2>6, <4>1, <4>3 DEF Landed, Alive
    <3>3. \A u \in Task \ {t} : h \in Handle => terminals[u] # h
      <4>. SUFFICES ASSUME NEW u \in Task \ {t}, h \in Handle, terminals[u] = h PROVE FALSE
        OBVIOUS
      <4>1. Landed(u) /\ bound[u].handle = h
        BY <1>3, <2>4 DEF Boots, Bare
      <4>2. \A i \in 1..n : p[i].op = "reap"
        <5>1. \A i \in 1..n : i = 1 \/ 1 < i
          BY <1>1
        <5>. QED
          BY <1>1, <1>3, <2>1, <5>1 DEF Shape
      <4>3. ~Unbinds(p, u)
        BY <4>2 DEF Unbinds
      <4>4. h # NoHandle
        BY TaskAssumption
      <4>5. state[u] \in Owed
        BY <1>0, <4>3, <4>4 DEF PumpState, Kept
      <4>. QED
        BY <2>4, <3>2, <4>1, <4>5 DEF TabServesOne
    <3>4. ReadyOnce'
      <4>1. pool' = <<>>
        BY <1>2, <1>3, <2>4 DEF Boots, Bare
      <4>2. \A i \in 1..Len(pool') : FALSE
        BY <4>1
      <4>3. Once(pool')
        BY <4>2 DEF Once
      <4>4. \A u, v \in Task : u # v /\ terminals'[u] \in Handle => terminals'[u] # terminals'[v]
        BY <1>3, <3>1, <3>3 DEF ReadyOnce
      <4>. QED
        BY <1>2, <1>3, <4>2, <4>3, <4>4 DEF ReadyOnce
    <3>5. Bare'
      BY <1>2, <1>3, <2>1, <3>1, <3>2 DEF Boots, Bare, Landed
    <3>6. Hands(Pump)' /\ Boots'
      BY <1>4, <1>6, <2>1, <2>2, <2>6, <3>5
    <3>7. Landed(t)' => AtWork(t)'
      <4>1. t \notin awaiting'
        BY <1>3, <2>1, <2>4 DEF Boots, Bare
      <4>2. Landed(t)' => h = bound'[t].handle
        BY <2>1, <2>4 DEF Landed, Text
      <4>. QED
        BY <3>1, <4>1, <4>2 DEF AtWork
    <3>8. Placed'
      BY <1>8, <1>11, <2>1, <2>2, <2>6, <3>1, <3>7
    <3>. QED
      BY <3>4, <3>6, <3>8 DEF PumpTab
  <2>. QED
    BY <2>1, <2>5, <2>6
<1>. QED
  BY <1>12, <1>13, <1>14, <1>15, <1>16, <1>17 DEF EndStep

LEMMA StartTab ==
    ASSUME TaskInv, PumpShape, PumpState, PumpTab, Starts
    PROVE  PumpTab'
<1>0. PICK e : e = Head(mail)
  OBVIOUS
<1>. DEFINE t == e.task
<1>1. /\ Pump = <<>> /\ Len(Pump) = 0 /\ Alone /\ up /\ up' = up
      /\ UNCHANGED <<bound, hop, terminals, awaiting, sessions, pool, history, said>>
  <2>1. Idle("pump")
    BY DEF Starts, OnTaskInbound, HearReady, HearActivity, HearOut, HearRecycled, Reconnect,
           Hears
  <2>2. UNCHANGED <<bound, hop, terminals, awaiting, sessions, pool, history, said, up>>
    BY DEF Starts, OnTaskInbound, HearReady, HearActivity, HearOut, HearRecycled, Reconnect,
           Hear, InsertRow, db, memory, agents, process
  <2>. QED
    BY <2>1, <2>2 DEF Idle, Pump, PumpShape
<1>2. ReadyOnce /\ Placed /\ \A u \in Task : terminals[u] # NoHandle => state[u] \in Owed
  <2>1. \A u : ~Unbinds(Pump, u)
    BY <1>1 DEF Unbinds
  <2>. QED
    BY <2>1 DEF PumpTab, PumpState, Kept
<1>3. Bare'
  BY <1>1 DEF Bare
\* What is left of the mail after its first event.
<1>4. mail # <<>> /\ mail' = Tail(mail) =>
        /\ e \in EventsNow /\ e = mail[1] /\ 1 \in 1..Len(mail)
        /\ Len(mail') = Len(mail) - 1 /\ Len(mail) \in Nat
        /\ \A i \in 1..Len(mail') : i + 1 \in 1..Len(mail) /\ mail'[i] = mail[i + 1]
  <2>. SUFFICES ASSUME mail # <<>>, mail' = Tail(mail)
                PROVE  /\ e \in EventsNow /\ e = mail[1] /\ 1 \in 1..Len(mail)
                       /\ Len(mail') = Len(mail) - 1 /\ Len(mail) \in Nat
                       /\ \A i \in 1..Len(mail') :
                            i + 1 \in 1..Len(mail) /\ mail'[i] = mail[i + 1]
    OBVIOUS
  <2>1. mail \in Seq(EventsNow)
    BY DEF TaskInv, Tables, World
  <2>2. /\ Head(mail) = mail[1] /\ mail[1] \in EventsNow
        /\ Len(mail) \in Nat \ {0} /\ 1 \in 1..Len(mail)
    BY <2>1, ProgramHead
  <2>3. /\ Len(mail') = Len(mail) - 1
        /\ \A i \in 1..Len(mail') : mail'[i] = mail[i + 1]
    BY <2>1, HeadTailProperties
  <2>. QED
    BY <1>0, <2>2, <2>3
<1>5. \/ mail' = mail
      \/ mail # <<>> /\ mail' = Tail(mail)
  BY DEF Starts, OnTaskInbound, HearReady, HearActivity, HearOut, HearRecycled, Reconnect,
         Hears, Hear, agents
<1>6. ReadyOnce' /\ \A h : Waits(h)' => Waits(h)
  <2>1. CASE mail' = mail
    BY <1>1, <1>2, <2>1 DEF ReadyOnce, Waits, Tracked
  <2>2. CASE mail # <<>> /\ mail' = Tail(mail)
    <3>1. /\ \A i \in 1..Len(mail') : i + 1 \in 1..Len(mail) /\ mail'[i] = mail[i + 1]
          /\ Len(mail') \in Nat
      BY <1>4, <2>2
    <3>2. \A i, j \in 1..Len(mail') : i + 1 = j + 1 => i = j
      BY <3>1
    <3>3. Once(mail')
      BY <1>2, <3>1, <3>2 DEF ReadyOnce, Once
    <3>4. \A h : Waits(h)' => Waits(h)
      BY <3>1 DEF Waits
    <3>5. \A i \in 1..Len(mail') : mail'[i] \in said
      BY <1>2, <3>1 DEF ReadyOnce
    <3>6. \A i \in 1..Len(pool), k \in 1..Len(mail') : mail'[k] # ReadyOf(pool[i])
      BY <1>2, <3>1 DEF ReadyOnce, Waits
    <3>. QED
      BY <1>1, <1>2, <3>3, <3>4, <3>5, <3>6 DEF ReadyOnce, Waits, Tracked
  <2>. QED
    BY <1>5, <2>1, <2>2
<1>7. ASSUME \A u \in Task : state'[u] \in Owed /\ Landed(u)' => state[u] \in Owed
      PROVE  Placed'
  BY <1>1, <1>2, <1>7 DEF Placed, AtWork, Landed
<1>8. ASSUME NEW q, Begin("pump", q),
             \A i \in 1..Len(q) : q[i].op \notin {"match", "reap"},
             First(q, Owing) => Given(q[1], Len(q))',
             \A i \in 1..Len(q) : q[i].op = "scan" => Heard(q[i], Len(q))',
             \A u \in Task : state'[u] \in Owed /\ Landed(u)' => state[u] \in Owed
      PROVE  PumpTab'
  <2>1. Pump' = q
    BY <1>1, <1>8, Begun
  <2>2. Hands(Pump)'
    BY <1>8, <2>1 DEF Hands
  <2>3. Boots'
    BY <1>3, <1>8, <2>1 DEF Boots
  <2>. QED
    BY <1>6, <1>7, <1>8, <2>2, <2>3 DEF PumpTab
<1>9. ASSUME NEW q, Begin("pump", q),
             \A i \in 1..Len(q) : q[i].op \notin {"match", "reap", "scan"},
             ~First(q, Owing), UNCHANGED state
      PROVE  PumpTab'
  BY <1>8, <1>9
<1>10. ASSUME Begin("pump", <<>>), UNCHANGED state PROVE PumpTab'
  <2>. DEFINE q == <<>>
  <2>1. Len(q) = 0 /\ Begin("pump", q) /\ ~First(q, Owing)
    BY <1>10 DEF First
  <2>. HIDE DEF q
  <2>. QED
    BY <1>9, <1>10, <2>1
<1>11. ASSUME NEW y, Begin("pump", <<y>>), y.op \notin {"match", "reap", "scan"},
              y.op \notin Owing, UNCHANGED state
       PROVE  PumpTab'
  <2>. DEFINE q == <<y>>
  <2>1. Len(q) = 1 /\ q[1] = y /\ Begin("pump", q)
    BY <1>11
  <2>. HIDE DEF q
  <2>2. \A i \in 1..Len(q) : q[i] = y
    BY <2>1
  <2>3. ~First(q, Owing)
    BY <1>11, <2>1 DEF First
  <2>. QED
    BY <1>9, <1>11, <2>1, <2>2, <2>3
<1>12. ASSUME UNCHANGED state, NEW s,
              \/ Begin("pump", Settle(t, s))
              \/ \E y : /\ y.op \in {"retry", "set_state"}
                        /\ Begin("pump", Settle(t, s) \o <<y>>)
       PROVE  PumpTab'
  <2>. DEFINE T == {"set_state", "record", "unbind"}
              r == Settle(t, s)
  <2>1. /\ \A i \in 1..Len(r) : r[i].op \in T
        /\ \A y : \A i \in 1..Len(r \o <<y>>) : (r \o <<y>>)[i].op \in T \cup {y.op}
    BY SettleOps
  <2>2. /\ r[1] = SetState(t, s)
        /\ \A y : (r \o <<y>>)[1] = SetState(t, s)
    <3>1. \A y : r \o <<y>> = <<SetState(t, s), Record(t, s), Unbind(t), y>>
      BY Fourth DEF Settle
    <3>. QED
      BY <3>1 DEF Settle
  <2>3. PICK q : /\ Begin("pump", q) /\ q[1] = SetState(t, s)
                 /\ \A i \in 1..Len(q) : q[i].op \in T \cup {"retry"}
    <3>1. CASE Begin("pump", r)
      BY <2>1, <2>2, <3>1
    <3>2. CASE \E y : /\ y.op \in {"retry", "set_state"}
                      /\ Begin("pump", r \o <<y>>)
      <4>1. PICK y : /\ y.op \in {"retry", "set_state"}
                     /\ Begin("pump", r \o <<y>>)
        BY <3>2
      <4>2. \A i \in 1..Len(r \o <<y>>) : (r \o <<y>>)[i].op \in T \cup {"retry"}
        BY <2>1, <4>1
      <4>. QED
        BY <2>2, <4>1, <4>2
    <3>. QED
      BY <1>12, <3>1, <3>2
  <2>4. ~First(q, Owing)
    BY <2>3 DEF First, SetState, Owing, Dispatching
  <2>. QED
    BY <1>9, <1>12, <2>3, <2>4
<1>13. CASE \E u \in Task : OnTaskInbound(u)
  <2>1. PICK u \in Task : OnTaskInbound(u)
    BY <1>13
  <2>. DEFINE y == Reserve(u, "inbound")
              q == <<y>>
  <2>2. InsertRow(u, 1) /\ Begin("pump", q)
    BY <2>1 DEF OnTaskInbound
  <2>3. Len(q) = 1 /\ q[1] = y /\ y.op = "reserve" /\ y.task = u
    BY DEF Reserve
  <2>. HIDE DEF q, y
  <2>4. state[u] = "absent" /\ \A v \in Task \ {u} : state'[v] = state[v]
    BY <2>2 DEF InsertRow
  <2>5. ~Landed(u)'
    BY <1>1, <2>4 DEF Landed, TaskInv, Tables, Rows, Born
  <2>6. Given(q[1], Len(q))'
    BY <2>3, <2>5 DEF Given
  <2>7. \A i \in 1..Len(q) : q[i] = y
    BY <2>3
  <2>8. \A v \in Task : state'[v] \in Owed /\ Landed(v)' => state[v] \in Owed
    BY <2>4, <2>5
  <2>. QED
    BY <1>8, <2>2, <2>3, <2>6, <2>7, <2>8
<1>14. CASE HearReady
  <2>. DEFINE h == e.handle
              y == Scan(h)
              q == <<y>>
  <2>1. /\ Begin("pump", q) /\ UNCHANGED state
        /\ mail # <<>> /\ mail' = Tail(mail) /\ e.kind = "ready"
    BY <1>0, <1>14 DEF HearReady, Hear, Hears, db
  <2>2. e = ReadyOf(h)
    BY <1>4, <2>1 DEF EventsNow, Events, ReadyOf
  <2>3. y.op = "scan" /\ y.handle = h /\ Len(q) = 1 /\ q[1] = y /\ "scan" \notin Owing
    BY DEF Scan, Owing, Dispatching
  <2>. HIDE DEF q, y
  <2>4. ReadyOf(h) \in said
    BY <1>2, <1>4, <2>1, <2>2 DEF ReadyOnce
  <2>5. ~Waits(h)'
    <3>1. \A i \in 1..Len(mail') : mail'[i] # mail[1]
      <4>. SUFFICES ASSUME NEW i \in 1..Len(mail'), mail'[i] = mail[1] PROVE FALSE
        OBVIOUS
      <4>1. /\ i + 1 \in 1..Len(mail) /\ mail[i + 1] = mail[1] /\ 1 \in 1..Len(mail)
            /\ i \in Nat /\ i > 0
        BY <1>4, <2>1
      <4>2. i + 1 = 1
        BY <1>2, <4>1 DEF ReadyOnce, Once
      <4>. QED
        BY <4>1, <4>2
    <3>. QED
      BY <1>4, <2>1, <2>2, <3>1 DEF Waits
  <2>6. ~Parked(h)
    <3>1. Waits(h)
      BY <1>4, <2>1, <2>2 DEF Waits
    <3>. QED
      BY <1>2, <3>1 DEF ReadyOnce, Parked
  <2>7. Heard(y, 1)'
    BY <1>1, <2>3, <2>4, <2>5, <2>6 DEF Heard, Free, Parked
  <2>8. \A i \in 1..Len(q) : q[i] = y
    BY <2>3
  <2>9. ~First(q, Owing)
    BY <2>3 DEF First
  <2>. QED
    BY <1>8, <2>1, <2>3, <2>7, <2>8, <2>9
<1>15. CASE HearActivity
  <2>1. Begin("pump", <<>>) \/ \E s, b : Begin("pump", <<SetHop(t, s, b)>>)
    BY <1>0, <1>15, Zenon DEF HearActivity, Hear
  <2>2. UNCHANGED state
    BY <1>15 DEF HearActivity, Hear, db
  <2>3. \A s, b : SetHop(t, s, b).op = "set_hop" /\ "set_hop" \notin Owing
    BY DEF SetHop, Owing, Dispatching
  <2>. QED
    BY <1>10, <1>11, <2>1, <2>2, <2>3
<1>16. CASE HearOut
  <2>1. \/ Begin("pump", <<>>)
        \/ Begin("pump", Settle(t, "failed"))
        \/ Begin("pump", Settle(t, "done") \o <<SetState(t, "closed")>>)
    BY <1>0, <1>16, Zenon DEF HearOut, Hear, Hears
  <2>2. UNCHANGED state
    BY <1>16 DEF HearOut, Hear, db
  <2>3. SetState(t, "closed").op = "set_state"
    BY DEF SetState
  <2>. QED
    BY <1>10, <1>12, <2>1, <2>2, <2>3
<1>17. CASE HearRecycled
  <2>1. \/ Begin("pump", <<Unbind(t)>>)
        \/ Begin("pump", Settle(t, "failed") \o <<Retry(t, attempt[t])>>)
        \/ Begin("pump", Settle(t, "failed") \o <<>>)
    BY <1>0, <1>17 DEF HearRecycled, Hear, Hears
  <2>2. UNCHANGED state
    BY <1>17 DEF HearRecycled, Hear, db
  <2>3. Settle(t, "failed") \o <<>> = Settle(t, "failed")
    BY DEF Settle
  <2>4. /\ Unbind(t).op = "unbind" /\ "unbind" \notin Owing
        /\ \A k : Retry(t, k).op = "retry"
    BY DEF Unbind, Retry, Owing, Dispatching
  <2>. QED
    BY <1>11, <1>12, <2>1, <2>2, <2>3, <2>4
<1>18. CASE Reconnect
  <2>. DEFINE T == {terminals[u] : u \in Task} \cap history
  <2>1. PICK order \in SetToSeqs(T) : Begin("pump", [i \in DOMAIN order |-> Scan(order[i])])
    BY <1>18 DEF Reconnect
  <2>2. IsFiniteSet(T)
    BY ScannedFinite DEF TaskInv, Tables
  <2>3. /\ Len(order) \in Nat /\ DOMAIN order = 1..Len(order)
        /\ \A i \in 1..Len(order) : order[i] \in T
    BY <2>2, InAnyOrder, ElementOfSeq
  <2>. DEFINE q == [i \in DOMAIN order |-> Scan(order[i])]
  <2>4. Len(q) = Len(order) /\ \A i \in 1..Len(q) : q[i] = Scan(order[i])
    BY <2>3
  <2>5. q = <<>> \/ 1 \in 1..Len(q)
    <3>1. CASE Len(order) = 0
      BY <2>3, <3>1
    <3>2. CASE Len(order) # 0
      BY <2>3, <2>4, <3>2
    <3>. QED
      BY <3>1, <3>2
  <2>6. \A h : Scan(h).op = "scan" /\ Scan(h).handle = h
    BY DEF Scan
  <2>. HIDE DEF q
  <2>7. ASSUME NEW i \in 1..Len(q) PROVE q[i].op = "scan" /\ Owned(q[i].handle)
    <3>1. order[i] \in T /\ q[i].op = "scan" /\ q[i].handle = order[i]
      BY <2>3, <2>4, <2>6
    <3>2. PICK u \in Task : order[i] = terminals[u] /\ order[i] \in history
      BY <3>1
    <3>3. terminals[u] # NoHandle
      BY <3>2, TaskAssumption DEF TaskInv, Tables, World, Used
    <3>. QED
      BY <1>2, <3>1, <3>2, <3>3 DEF Owned
  <2>8. UNCHANGED state
    BY <1>18 DEF Reconnect, db
  <2>9. \A i \in 1..Len(q) : q[i].op = "scan" /\ Heard(q[i], Len(q))'
    BY <1>1, <2>7, <2>8 DEF Heard, Owned
  <2>10. ~First(q, Owing)
    BY <2>5, <2>9 DEF First, Owing, Dispatching
  <2>. QED
    BY <1>8, <2>1, <2>8, <2>9, <2>10 DEF q
<1>. QED
  BY <1>13, <1>14, <1>15, <1>16, <1>17, <1>18 DEF Starts

LEMMA TabNext ==
    ASSUME PumpAlone, TaskInv, PumpShape, PumpState, PumpTab, TabServesOne, [Next]_vars,
           TaskInv'
    PROVE  PumpTab'
<1>1. CASE Crash
  <2>1. /\ UNCHANGED <<state, bound, history, said>> /\ ~up' /\ awaiting' = {}
        /\ pool' = <<>> /\ mail' = <<>>
        /\ sessions' = [t \in Task |-> NoHandle] /\ terminals' = [t \in Task |-> NoHandle]
    BY <1>1 DEF Crash, db
  <2>2. Len(pool') = 0 /\ Len(mail') = 0
    BY <2>1
  <2>3. \A t \in Task : sessions'[t] = NoHandle /\ terminals'[t] \notin Handle
    BY <2>1, TaskAssumption
  <2>4. /\ \A i \in 1..Len(Pump') : \E t \in Task : Pump'[i] = Reap(t, Text(bound[t]))
        /\ \A t \in Task : state[t] \in Owed =>
             \E i \in 1..Len(Pump') : Pump'[i] = Reap(t, Text(bound[t]))
    BY <1>1, CrashProgram
  <2>5. \A t, h : /\ Reap(t, h).op = "reap" /\ Reap(t, h).task = t /\ Reap(t, h).handle = h
                  /\ Ends(Reap(t, h), t)
    BY DEF Reap, Ends
  <2>6. ReadyOnce'
    BY <2>1, <2>2, <2>3 DEF ReadyOnce, PumpTab, Once, Waits
  <2>7. \A i \in 1..Len(Pump') :
          /\ Pump'[i].op = "reap"
          /\ Pump'[i].handle = Text(bound[Pump'[i].task])
    BY <2>4, <2>5
  <2>8. Boots'
    <3>1. Bare'
      BY <2>1, <2>3 DEF Bare
    <3>2. \A t : Text(bound[t]) = Text(bound'[t])
      BY <2>1
    <3>. QED
      BY <2>1, <2>7, <3>1, <3>2 DEF Boots
  <2>9. Hands(Pump)'
    <3>1. Pump' # <<>> => 1 \in 1..Len(Pump')
      <4>1. Pump' \in Seq(StepsNow')
        BY DEF TaskInv, Programs, Pump, AllThreads
      <4>. QED
        BY <4>1, EmptySeq, LenProperties
    <3>. QED
      BY <2>7, <3>1 DEF Hands, First, Owing, Dispatching
  <2>10. Placed'
    <3>1. \A t \in Task : state[t] \in Owed => Ending(Pump', t)
      BY <2>4, <2>5 DEF Ending
    <3>. QED
      BY <2>1, <3>1 DEF Placed
  <2>. QED
    BY <2>6, <2>8, <2>9, <2>10 DEF PumpTab
<1>2. CASE Booted
  <2>1. /\ ~up /\ up' /\ Pump = <<>> /\ Pump' = <<>> /\ Len(Pump) = 0
        /\ UNCHANGED <<state, bound, hop, terminals, awaiting, sessions, pool, history, mail,
                       said>>
    BY <1>2 DEF Booted, Pump, db, memory, agents
  <2>2. ReadyOnce' /\ Boots'
    BY <2>1 DEF PumpTab, ReadyOnce, Boots, Bare, Waits, Tracked
  <2>3. Hands(Pump)'
    BY <2>1 DEF Hands, First
  <2>4. \A t : ~Ending(Pump, t)
    BY <2>1 DEF Ending
  <2>5. Placed'
    BY <2>1, <2>4 DEF PumpTab, Placed, AtWork, Landed
  <2>. QED
    BY <2>2, <2>3, <2>5 DEF PumpTab
<1>3. ASSUME UNCHANGED <<state, bound, hop, terminals, awaiting, sessions, pool, prog, up>>,
             \/ UNCHANGED <<mail, said, history>>
             \/ \E e : /\ e \notin said /\ said' = said \cup {e} /\ mail' = Append(mail, e)
                       /\ \A h \in history' : h \in history \/ ReadyOf(h) = e
      PROVE  PumpTab'
  <2>1. /\ \A h \in history' : ReadyOf(h) \in said'
        /\ \A i \in 1..Len(mail') : mail'[i] \in said'
        /\ Once(mail') /\ said \subseteq said'
        /\ \A h : ReadyOf(h) \in said /\ ~Waits(h) => ~Waits(h)'
    <3>1. CASE UNCHANGED <<mail, said, history>>
      BY <3>1 DEF PumpTab, ReadyOnce, Waits
    <3>2. CASE \E e : /\ e \notin said /\ said' = said \cup {e} /\ mail' = Append(mail, e)
                      /\ \A h \in history' : h \in history \/ ReadyOf(h) = e
      <4>1. PICK e : /\ e \notin said /\ said' = said \cup {e} /\ mail' = Append(mail, e)
                     /\ \A h \in history' : h \in history \/ ReadyOf(h) = e
        BY <3>2
      <4>. DEFINE m == Len(mail)
      <4>2. /\ m \in Nat /\ Len(mail') = m + 1 /\ mail'[m + 1] = e
            /\ \A i \in 1..m : mail'[i] = mail[i]
        <5>1. mail \in Seq(EventsNow \cup {e})
          BY SeqMonotonic DEF TaskInv, Tables, World
        <5>. QED
          BY <4>1, <5>1, AppendProperties, LenProperties
      <4>3. /\ \A i \in 1..m : mail[i] \in said
            /\ Once(mail) /\ \A h \in history : ReadyOf(h) \in said
        BY DEF PumpTab, ReadyOnce
      <4>. HIDE DEF m
      <4>4. \A i \in 1..Len(mail') : (i \in 1..m /\ mail'[i] = mail[i]) \/ (i = m + 1 /\ mail'[i] = e)
        BY <4>2
      <4>5. Once(mail')
        BY <4>1, <4>3, <4>4 DEF Once, m
      <4>6. \A h : ReadyOf(h) \in said /\ ~Waits(h) => ~Waits(h)'
        BY <4>1, <4>4 DEF Waits, m
      <4>7. \A i \in 1..Len(mail') : mail'[i] \in said'
        BY <4>1, <4>3, <4>4
      <4>. QED
        BY <4>1, <4>3, <4>5, <4>6, <4>7
    <3>. QED
      BY <1>3, <3>1, <3>2
  <2>2. ReadyOnce'
    <3>1. \A i \in 1..Len(pool') : /\ ReadyOf(pool'[i]) \in said' /\ ~Tracked(pool'[i])
                                   /\ ReadyOf(pool'[i]) \in said /\ ~Waits(pool'[i])
      BY <1>3, <2>1 DEF PumpTab, ReadyOnce
    <3>2. \A i \in 1..Len(pool'), k \in 1..Len(mail') : mail'[k] # ReadyOf(pool'[i])
      BY <2>1, <3>1 DEF Waits
    <3>. QED
      BY <1>3, <2>1, <3>1, <3>2 DEF PumpTab, ReadyOnce, Waits, Tracked
  <2>3. \A x, k : Given(x, k) => Given(x, k)'
    BY <1>3 DEF Given, Landed, Tracked, Parked
  <2>4. \A x, k : Heard(x, k) => Heard(x, k)'
    BY <1>3, <2>1 DEF Heard, Owned, Free, Parked
  <2>5. Hands(Pump)'
    BY <1>3, <2>3, <2>4 DEF PumpTab, Hands, Pump
  <2>6. Boots' /\ Placed'
    BY <1>3 DEF PumpTab, Boots, Bare, Placed, AtWork, Landed, Pump
  <2>. QED
    BY <2>2, <2>5, <2>6 DEF PumpTab
<1>4. CASE Sessions \/ UNCHANGED vars
  <2>1. UNCHANGED <<state, bound, hop, terminals, awaiting, sessions, pool, prog, up>>
    BY <1>4 DEF Sessions, AgentReady, AgentReports, AgentRecycles, TabDies, db, memory,
                process, vars
  <2>2. CASE \E h \in Handle : AgentReady(h)
    <3>1. PICK h \in Handle : AgentReady(h)
      BY <2>2
    <3>. DEFINE e == ReadyOf(h)
    <3>2. /\ e \notin said /\ said' = said \cup {e} /\ mail' = Append(mail, e)
          /\ history' = history \cup {h}
      BY <3>1 DEF AgentReady, Say, ReadyOf
    <3>3. \A k \in history' : k \in history \/ ReadyOf(k) = e
      BY <3>2
    <3>. HIDE DEF e
    <3>. QED
      BY <1>3, <2>1, <3>2, <3>3
  <2>3. CASE \E u \in Task : AgentReports(u) \/ AgentRecycles(u)
    <3>1. PICK e : /\ e \notin said /\ said' = said \cup {e} /\ mail' = Append(mail, e)
                   /\ UNCHANGED history
      BY <2>3 DEF AgentReports, AgentRecycles, Say
    <3>. QED
      BY <1>3, <2>1, <3>1
  <2>4. CASE (\E h \in Handle : TabDies(h)) \/ UNCHANGED vars
    <3>1. UNCHANGED <<mail, said, history>>
      BY <2>4 DEF TabDies, vars, agents
    <3>. QED
      BY <1>3, <2>1, <3>1
  <2>. QED
    BY <1>4, <2>2, <2>3, <2>4 DEF Sessions
<1>. QED
  BY <1>1, <1>2, <1>4, PumpNext, StartTab, ServeTab, EndTab

\* A restart neither moves a task to another tab nor opens one.
LEMMA BootKeepsTabs ==
    ASSUME PumpAlone, TaskInv, PumpShape, TabServesOne, [Next]_vars, ~up'
    PROVE  TabServesOne'
<1>1. \/ Crash
      \/ Pump # <<>> /\ (EndStep \/ DoReap)
      \/ Sessions \/ UNCHANGED vars
  <2>1. ~Starts /\ ~Booted
    <3>1. Starts => up /\ up' = up
      BY DEF Starts, OnTaskInbound, HearReady, HearActivity, HearOut, HearRecycled,
             Reconnect, Hears, Hear, Idle, process
    <3>2. Booted => up' = TRUE
      BY DEF Booted
    <3>. QED
      BY <3>1, <3>2
  <2>2. Pump # <<>> /\ ServeStep => FALSE
    <3>. SUFFICES ASSUME Pump # <<>>, ServeStep PROVE FALSE
      OBVIOUS
    <3>1. Serves(Pump[1]) /\ 1 \in 1..Len(Pump) /\ up' = up
      <4>1. Pump[1] = Head(prog["pump"]) /\ 1 \in 1..Len(Pump)
        BY PumpHead
      <4>2. Serves(Pump[1]) /\ up' = up
        BY <4>1 DEF ServeStep, DoReserve, DoPopIdle, DoSpawn, DoBind, DoReplay, DoScan,
           DoMatch, DoClaim, DoSend, DoLand, DoSetHop, Runs, Serves, Dispatching, process
      <4>. QED
        BY <4>1, <4>2
    <3>. QED
      BY <3>1, ServesUp
  <2>. QED
    BY <2>1, <2>2, PumpNext
<1>2. SUFFICES ASSUME UNCHANGED bound,
                      \A t \in Task : state'[t] \in Owed => state[t] \in Owed,
                      \A h \in Handle : tab'[h] = "open" => tab[h] = "open"
               PROVE  TabServesOne'
  <2>1. CASE Pump # <<>> /\ (EndStep \/ DoReap)
    <3>. DEFINE x == Head(prog["pump"])
    <3>1. ~up /\ UNCHANGED bound
      <4>1. up' = up
        BY <2>1 DEF EndStep, DoSetState, DoRecord, DoUnbind, DoCloseTab, DoEarlyExit, DoRetry,
                    DoReap, process
      <4>2. UNCHANGED bound
        BY <2>1 DEF EndStep, DoSetState, DoRecord, DoUnbind, DoCloseTab, DoEarlyExit, DoRetry,
                    DoReap, InsertRow, db
      <4>. QED
        BY <4>1, <4>2
    <3>2. Finishes(x) /\ x.op # "retry" /\ x \in StepsNow
      BY <2>1, <3>1, PumpHead DEF PumpShape, Recovers
    <3>3. /\ \/ UNCHANGED state
             \/ x.op = "set_state" /\ state' = [state EXCEPT ![x.task] = x.state]
          /\ \/ UNCHANGED tab
             \/ \E h \in Handle : tab' = [tab EXCEPT ![h] = "gone"]
      BY <2>1, <3>2 DEF EndStep, DoSetState, DoRecord, DoUnbind, DoCloseTab, DoEarlyExit,
                        DoRetry, DoReap, Runs, db, agents
    <3>4. x.op = "set_state" => x.state \in Settled
      BY <3>2 DEF Finishes
    <3>5. \A t \in Task : state'[t] \in Owed => state[t] \in Owed
      BY <3>3, <3>4 DEF Owed, Settled, Result, TaskInv, Tables, Rows
    <3>6. \A h \in Handle : tab'[h] = "open" => tab[h] = "open"
      BY <3>3 DEF TaskInv, Tables, World
    <3>. QED
      BY <1>2, <3>1, <3>5, <3>6
  <2>2. CASE Crash \/ UNCHANGED vars
    <3>1. UNCHANGED <<bound, state, tab>>
      BY <2>2 DEF Crash, vars, db, agents
    <3>. QED
      BY <1>2, <3>1
  <2>3. CASE Sessions
    <3>1. /\ UNCHANGED <<bound, state>>
          /\ UNCHANGED tab \/ \E h : tab' = [tab EXCEPT ![h] = "gone"]
      BY <2>3 DEF Sessions, AgentReady, AgentReports, AgentRecycles, TabDies, db
    <3>2. \A h \in Handle : tab'[h] = "open" => tab[h] = "open"
      BY <3>1 DEF TaskInv, Tables, World
    <3>. QED
      BY <1>2, <3>1, <3>2
  <2>. QED
    BY <1>1, <2>1, <2>2, <2>3
<1>3. \A t \in Task : Landed(t) => bound[t].handle \in Handle
  BY DEF Landed, TaskInv, Tables, Rows, Used
<1>. QED
  BY <1>2, <1>3 DEF TabServesOne, Landed

\* With the pump alone, a ready event is heard once and its tab given to one
\* task: no two owed tasks are recorded as delivered to one open tab, through
\* replayed and parked ready events, lost answers, crashes and adoptions.
THEOREM TabsServeOneTask ==
    ASSUME PumpAlone PROVE Spec => []TabServesOne
<1>1. Init => PumpTab /\ TabServesOne
  <2>. SUFFICES ASSUME Init PROVE PumpTab /\ TabServesOne
    OBVIOUS
  <2>1. /\ Pump = <<>> /\ Len(Pump) = 0 /\ Len(mail) = 0 /\ Len(pool) = 0 /\ up
        /\ \A t \in Task : terminals[t] \notin Handle /\ state[t] \notin Owed
        /\ history = {}
    BY TaskAssumption DEF Init, Pump, AllThreads, Owed
  <2>2. ReadyOnce /\ Boots /\ Placed /\ TabServesOne
    BY <2>1 DEF ReadyOnce, Once, Boots, Bare, Placed, TabServesOne
  <2>3. Hands(Pump)
    BY <2>1 DEF Hands, First
  <2>. QED
    BY <2>2, <2>3 DEF PumpTab
<1>2. /\ TaskInv /\ PumpShape /\ PumpState /\ PumpTab /\ TabServesOne /\ TaskInv'
      /\ [Next]_vars
      => PumpTab' /\ TabServesOne'
  <2>. SUFFICES ASSUME TaskInv, PumpShape, PumpState, PumpTab, TabServesOne, TaskInv',
                       [Next]_vars
                PROVE  PumpTab' /\ TabServesOne'
    OBVIOUS
  <2>1. PumpTab'
    BY TabNext
  <2>2. CASE up'
    BY <2>1, <2>2, TabApart DEF PumpTab
  <2>3. CASE ~up'
    BY <2>1, <2>3, BootKeepsTabs
  <2>. QED
    BY <2>1, <2>2, <2>3
<1>. QED
  BY <1>1, <1>2, PumpStateHolds, PTL DEF Spec

-----------------------------------------------------------------------------
(***************************************************************************)
(* What the pump writes into the ledger file.  A result is recorded by the *)
(* step behind the one that settles the row, so the pump settles a row     *)
(* once and its lines tell of it once.                                     *)
(***************************************************************************)

Written == {t \in Task : Told(t) # {}}

\* Where the steps of a settlement stand in a program, and what they rely on.
Booked(st, wr, p) ==
    \A i \in 1..Len(p) :
      /\ p[i].op = "record" =>
           \/ i = 1 /\ st[p[1].task] = p[1].state /\ p[1].task \notin wr
           \/ i = 2 /\ p[1] = SetState(p[2].task, p[2].state)
      /\ p[i].op = "early_exit" => i = 1 /\ st[p[1].task] \notin Settled
      /\ p[i].op = "set_state" /\ p[i].state \in Result =>
           /\ i = 1 /\ st[p[1].task] \notin Settled
           /\ Len(p) > 1 /\ p[2] = Record(p[1].task, p[1].state)
      /\ p[i].op = "set_state" /\ p[i].state = "closed" =>
           st[p[i].task] \in {"done", "closed"} \/ p[1] = SetState(p[i].task, "done")

\* Without a crash a settled row agrees with its line, or the line is next.
PumpBook ==
    /\ OneResult /\ crashes \in Nat
    /\ \A t \in Written : state[t] \in Settled
    /\ Booked(state, Written, Pump)
    /\ crashes = 0 =>
         \A t \in Task : state[t] \in Settled =>
           Agrees(t) \/ (First(Pump, {"record"}) /\ Pump[1].task = t)

\* A step with nothing to say about the file.
Plain(x) ==
    /\ x.op \notin {"record", "early_exit"}
    /\ x.op = "set_state" => x.state = "running"

LEMMA BookedPlain ==
    ASSUME NEW st, NEW wr, NEW p, \A i \in 1..Len(p) : Plain(p[i])
    PROVE  Booked(st, wr, p)
BY DEF Booked, Plain, Result

LEMMA BookedExit ==
    ASSUME NEW st, NEW wr, NEW t, st[t] \notin Settled
    PROVE  Booked(st, wr, <<EarlyExit(t)>>)
<1>. DEFINE x == EarlyExit(t)
            p == <<x>>
<1>1. x.op = "early_exit" /\ x.task = t /\ Len(p) = 1 /\ p[1] = x
  BY DEF EarlyExit
<1>. HIDE DEF x, p
<1>2. Booked(st, wr, p)
  BY <1>1 DEF Booked
<1>. QED
  BY <1>2 DEF p, x

\* What Settle begins, alone or with the step that closes or replays the task.
LEMMA BookedSettle ==
    ASSUME NEW st, NEW wr, NEW t, NEW s \in Result, st[t] \notin Settled, NEW y,
           \/ y.op = "retry"
           \/ y = SetState(t, "closed") /\ s = "done"
    PROVE  Booked(st, wr, Settle(t, s)) /\ Booked(st, wr, Settle(t, s) \o <<y>>)
<1>. DEFINE a == SetState(t, s)
            b == Record(t, s)
            c == Unbind(t)
            q == <<a, b, c>>
            r == <<a, b, c, y>>
<1>1. /\ a.op = "set_state" /\ a.state = s /\ a.task = t
      /\ b.op = "record" /\ b.state = s /\ b.task = t /\ c.op = "unbind"
  BY DEF SetState, Record, Unbind
<1>2. y.op = "retry" \/ (/\ y.op = "set_state" /\ y.state = "closed"
                         /\ a = SetState(y.task, "done"))
  BY DEF SetState
<1>3. a = SetState(b.task, b.state) /\ b = Record(a.task, a.state)
  BY <1>1
<1>4. /\ Len(q) = 3 /\ q[1] = a /\ q[2] = b /\ q[3] = c
      /\ Len(r) = 4 /\ r[1] = a /\ r[2] = b /\ r[3] = c /\ r[4] = y
  OBVIOUS
<1>5. Settle(t, s) = q /\ Settle(t, s) \o <<y>> = r
  BY Fourth DEF Settle
<1>. HIDE DEF a, b, c, q, r
<1>6. s # "closed"
  BY DEF Result
<1>7. Booked(st, wr, q)
  <2>1. \A i \in 1..Len(q) : i = 1 \/ i = 2 \/ i = 3
    BY <1>4
  <2>. QED
    BY <1>1, <1>3, <1>4, <1>6, <2>1 DEF Booked
<1>8. Booked(st, wr, r)
  <2>1. \A i \in 1..Len(r) : i = 1 \/ i = 2 \/ i = 3 \/ i = 4
    BY <1>4
  <2>. QED
    BY <1>1, <1>2, <1>3, <1>4, <1>6, <2>1 DEF Booked, Result
<1>. QED
  BY <1>5, <1>7, <1>8

\* The steps that wait behind another say nothing but that a done task closes.
LEMMA SplicedBook ==
    ASSUME NEW S, NEW p \in Seq(S), p # <<>>, NEW R, NEW q \in Seq(R),
           NEW st, NEW st2, NEW wr, NEW wr2, p[1].op # "set_state",
           Booked(st, wr, p), Booked(st2, wr2, q),
           \A i \in 2..Len(p) : p[i].op = "set_state" /\ st[p[i].task] \in {"done", "closed"}
                                  => st2[p[i].task] \in {"done", "closed"}
    PROVE  Booked(st2, wr2, q \o Tail(p))
<1>. DEFINE r == q \o Tail(p)
            n == Len(q)
            m == Len(p)
<1>1. /\ m \in Nat \ {0} /\ n \in Nat /\ Len(r) = n + m - 1
      /\ \A i \in 1..Len(r) : r[i] = IF i <= n THEN q[i] ELSE p[i - n + 1]
      /\ \A i \in 1..n : i \in 1..Len(r) /\ r[i] = q[i]
  BY Spliced
<1>2. \A i \in 1..Len(r) : i > n => i - n + 1 \in 2..m /\ i - n + 1 \in 1..m
  BY <1>1
<1>. HIDE DEF r
<1>3. \A k \in 2..m : /\ p[k].op \notin {"record", "early_exit"}
                      /\ p[k].op = "set_state" => p[k].state \notin Result
                      /\ p[k].op = "set_state" /\ p[k].state = "closed" =>
                           st2[p[k].task] \in {"done", "closed"}
  <2>1. \A t, s : SetState(t, s).op = "set_state"
    BY DEF SetState
  <2>2. \A t, s : p[1] # SetState(t, s)
    BY <2>1
  <2>. SUFFICES ASSUME NEW k \in 2..m
                PROVE  /\ p[k].op \notin {"record", "early_exit"}
                       /\ p[k].op = "set_state" => p[k].state \notin Result
                       /\ p[k].op = "set_state" /\ p[k].state = "closed" =>
                            st2[p[k].task] \in {"done", "closed"}
    OBVIOUS
  <2>3. k \in 1..m /\ k # 1
    BY <1>1
  <2>. QED
    BY <2>2, <2>3 DEF Booked
<1>4. SUFFICES ASSUME NEW i \in 1..Len(r)
               PROVE  /\ r[i].op = "record" =>
                           \/ i = 1 /\ st2[r[1].task] = r[1].state /\ r[1].task \notin wr2
                           \/ i = 2 /\ r[1] = SetState(r[2].task, r[2].state)
                      /\ r[i].op = "early_exit" => i = 1 /\ st2[r[1].task] \notin Settled
                      /\ r[i].op = "set_state" /\ r[i].state \in Result =>
                           /\ i = 1 /\ st2[r[1].task] \notin Settled
                           /\ Len(r) > 1 /\ r[2] = Record(r[1].task, r[1].state)
                      /\ r[i].op = "set_state" /\ r[i].state = "closed" =>
                           \/ st2[r[i].task] \in {"done", "closed"}
                           \/ r[1] = SetState(r[i].task, "done")
  BY DEF Booked, r
<1>5. CASE i > n
  <2>1. r[i] = p[i - n + 1] /\ i - n + 1 \in 2..m
    BY <1>1, <1>2, <1>5
  <2>. QED
    BY <1>3, <2>1
<1>6. CASE i <= n
  <2>1. i \in 1..n /\ r[i] = q[i] /\ 1 \in 1..n /\ r[1] = q[1] /\ n <= Len(r)
    BY <1>1, <1>6
  <2>2. n > 1 => 2 \in 1..n /\ r[2] = q[2] /\ Len(r) > 1
    BY <1>1, <2>1
  <2>3. i = 2 => n > 1
    BY <1>6
  <2>. QED
    BY <2>1, <2>2, <2>3 DEF Booked
<1>. QED
  BY <1>1, <1>5, <1>6

LEMMA LinesType ==
    ASSUME TaskInv, NEW t \in Task
    PROVE  /\ Len(lines[t]) \in Nat /\ DOMAIN lines[t] = 1..Len(lines[t])
           /\ Told(t) \subseteq 1..Len(lines[t])
<1>1. lines[t] \in Seq(Result \cup {"adopted"})
  BY DEF TaskInv, Tables, Rows
<1>. QED
  BY <1>1, LenProperties DEF Told

\* What one more line tells.
LEMMA OneLineMore ==
    ASSUME TaskInv, NEW t \in Task, NEW s \in Result \cup {"adopted"},
           lines' = [lines EXCEPT ![t] = Append(@, s)]
    PROVE  /\ \A u \in Task \ {t} : lines'[u] = lines[u] /\ Told(u)' = Told(u)
           /\ Told(t)' = Told(t) \cup (IF s \in Result THEN {Len(lines[t]) + 1} ELSE {})
           /\ \A i \in Told(t) : lines'[t][i] = lines[t][i]
           /\ lines'[t][Len(lines[t]) + 1] = s
<1>. DEFINE L == Result \cup {"adopted"}
            a == lines[t]
            b == Append(a, s)
<1>1. lines \in [Task -> Seq(L)] /\ a \in Seq(L) /\ s \in L
  BY DEF TaskInv, Tables, Rows
<1>. HIDE DEF L
<1>2. lines' = [lines EXCEPT ![t] = b]
  OBVIOUS
<1>3. /\ b \in Seq(L) /\ Len(a) \in Nat /\ Len(b) = Len(a) + 1 /\ b[Len(a) + 1] = s
      /\ \A i \in 1..Len(a) : b[i] = a[i]
      /\ DOMAIN a = 1..Len(a) /\ DOMAIN b = 1..Len(b)
  BY <1>1, AppendProperties, LenProperties
<1>. HIDE DEF b
<1>4. lines'[t] = b /\ \A u \in Task \ {t} : lines'[u] = lines[u]
  BY <1>1, <1>2
<1>5. \A u \in Task \ {t} : Told(u)' = Told(u)
  BY <1>4 DEF Told
<1>6. Told(t)' = {i \in DOMAIN b : b[i] \in Result}
  BY <1>4 DEF Told
<1>7. {i \in DOMAIN b : b[i] \in Result}
        = Told(t) \cup (IF s \in Result THEN {Len(a) + 1} ELSE {})
  <2>1. \A i : i \in DOMAIN b <=> i \in DOMAIN a \/ i = Len(a) + 1
    BY <1>3
  <2>. QED
    BY <1>3, <2>1 DEF Told
<1>8. \A i \in Told(t) : b[i] = a[i]
  BY <1>3 DEF Told
<1>. QED
  BY <1>3, <1>4, <1>5, <1>6, <1>7, <1>8

\* A step that writes no result and settles nothing.
LEMMA BookStays ==
    ASSUME TaskInv, PumpBook, NEW st, NEW q,
           state' = st, Pump' = q, crashes' = crashes,
           \A t \in Task : /\ Told(t)' = Told(t)
                           /\ \A i \in Told(t) : lines'[t][i] = lines[t][i],
           \A t \in Task : /\ st[t] \in Settled => st[t] = state[t]
                           /\ state[t] \in Settled => st[t] \in Settled,
           ~First(Pump, {"record"}),
           Booked(st, Written, q)
    PROVE  PumpBook'
<1>1. Written' = Written
  BY DEF Written
<1>2. OneResult'
  BY DEF PumpBook, OneResult
<1>3. \A t \in Written : state'[t] \in Settled
  BY DEF PumpBook, Written
<1>4. Booked(state, Written, Pump)'
  BY <1>1
<1>5. \A t \in Task : state[t] \in Settled /\ st[t] = state[t] /\ Agrees(t) => Agrees(t)'
  BY DEF Agrees
<1>6. crashes' = 0 => \A t \in Task : state'[t] \in Settled => Agrees(t)'
  BY <1>5 DEF PumpBook
<1>. QED
  BY <1>1, <1>2, <1>3, <1>4, <1>6 DEF PumpBook

LEMMA ServeBook ==
    ASSUME TaskInv, PumpShape, PumpState, PumpBook, Pump # <<>>, ServeStep
    PROVE  PumpBook'
<1>. DEFINE p == Pump
            x == Head(prog["pump"])
            t == x.task
<1>1. p \in Seq(StepsNow) /\ p[1] = x /\ x \in StepsNow /\ 1 \in 1..Len(p) /\ Len(p) \in Nat
  BY PumpHead
<1>2. Serves(x) /\ x.op \notin {"set_state", "record"} /\ Alone
  BY DEF ServeStep, DoReserve, DoPopIdle, DoSpawn, DoBind, DoReplay, DoScan, DoMatch,
         DoClaim, DoSend, DoLand, DoSetHop, Runs, Serves, Dispatching, PumpShape
<1>3. x.op \in Owing => t \in Task /\ state[t] \in Owed
  BY <1>1, StepTasks DEF PumpState, Sane, First, Pump
<1>4. UNCHANGED <<lines, crashes>>
  BY DEF ServeStep, DoReserve, DoPopIdle, DoSpawn, DoBind, DoReplay, DoScan, DoMatch,
         DoClaim, DoSend, DoLand, DoSetHop, db, process
<1>5. \A u \in Task : Told(u)' = Told(u) /\ \A i \in Told(u) : lines'[u][i] = lines[u][i]
  BY <1>4 DEF Told
<1>6. ~First(p, {"record"})
  BY <1>1, <1>2 DEF First
<1>7. ASSUME NEW q, NEW R, q \in Seq(R), Then("pump", q), Booked(state', Written, q),
             state' = state \/ (t \in Task /\ state[t] \in Owed
                                /\ state' = [state EXCEPT ![t] = "running"])
      PROVE  PumpBook'
  <2>1. \A u \in Task : /\ state'[u] \in Settled => state'[u] = state[u]
                        /\ state[u] \in Settled => state'[u] \in Settled
    BY <1>7 DEF TaskInv, Tables, Rows, Owed, Settled, Result
  <2>2. \A i \in 2..Len(p) : p[i].op = "set_state" /\ state[p[i].task] \in {"done", "closed"}
                               => state'[p[i].task] \in {"done", "closed"}
    <3>1. \A i \in 2..Len(p) : p[i].op = "set_state" => p[i].task \in Task
      BY <1>1, StepTasks, ElementOfSeq
    <3>2. \A u \in Task : state[u] \in {"done", "closed"} => state'[u] \in {"done", "closed"}
      BY <1>7 DEF TaskInv, Tables, Rows, Owed
    <3>. QED
      BY <3>1, <3>2
  <2>3. Booked(state, Written, p)
    BY DEF PumpBook
  <2>4. PICK st : st = state'
    OBVIOUS
  <2>5. Booked(st, Written, q \o Tail(p))
    BY <1>1, <1>2, <1>7, <2>2, <2>3, <2>4, SplicedBook
  <2>6. PICK r : r = q \o Tail(p)
    OBVIOUS
  <2>7. Pump' = r
    BY <1>2, <1>7, <2>6, Turned
  <2>. QED
    BY <1>4, <1>5, <1>6, <2>1, <2>4, <2>5, <2>6, <2>7, BookStays
<1>8. ASSUME UNCHANGED state, NEW q, NEW R, q \in Seq(R), Then("pump", q),
             \A i \in 1..Len(q) : Plain(q[i])
      PROVE  PumpBook'
  <2>1. Booked(state', Written, q)
    BY <1>8, BookedPlain
  <2>. QED
    BY <1>7, <1>8, <2>1
<1>9. <<>> \in Seq({}) /\ Len(<<>>) = 0
  OBVIOUS
<1>10. ASSUME UNCHANGED state, Then("pump", <<>>) PROVE PumpBook'
  <2>1. Booked(state', Written, <<>>)
    BY <1>9, BookedPlain
  <2>. QED
    BY <1>7, <1>9, <1>10, <2>1
<1>11. ASSUME UNCHANGED state, NEW y, Then("pump", <<y>>), Plain(y) PROVE PumpBook'
  <2>1. <<y>> \in Seq({y}) /\ Len(<<y>>) = 1 /\ <<y>>[1] = y
    OBVIOUS
  <2>2. \A i \in 1..Len(<<y>>) : Plain(<<y>>[i])
    BY <1>11, <2>1
  <2>3. Booked(state', Written, <<y>>)
    BY <2>2, BookedPlain
  <2>. QED
    BY <1>7, <1>11, <2>1, <2>3
<1>12. ASSUME UNCHANGED state, Then("pump", OnError(t, x.origin)), x.op \in Owing
       PROVE  PumpBook'
  <2>1. CASE OnError(t, x.origin) = <<>>
    BY <1>10, <1>12, <2>1
  <2>2. CASE OnError(t, x.origin) = <<EarlyExit(t)>>
    <3>1. <<EarlyExit(t)>> \in Seq({EarlyExit(t)})
      OBVIOUS
    <3>2. state[t] \notin Settled
      BY <1>3, <1>12 DEF Owed, Settled, Result
    <3>3. Booked(state, Written, <<EarlyExit(t)>>)
      BY <3>2, BookedExit
    <3>. QED
      BY <1>7, <1>12, <2>2, <3>1, <3>3
  <2>. QED
    BY <2>1, <2>2 DEF OnError
<1>13. CASE DoReserve("pump")
  <2>1. Then("pump", <<PopIdle(t, x.origin)>>) /\ UNCHANGED state
    BY <1>13 DEF DoReserve
  <2>2. Plain(PopIdle(t, x.origin))
    BY DEF PopIdle, Plain
  <2>. QED
    BY <1>11, <2>1, <2>2
<1>14. CASE DoPopIdle("pump")
  <2>1. UNCHANGED state /\ \E y \in {Spawn(t, x.origin), Send(t, Last(pool), x.origin)} :
                             Then("pump", <<y>>)
    BY <1>14 DEF DoPopIdle, db
  <2>2. \A y \in {Spawn(t, x.origin), Send(t, Last(pool), x.origin)} : Plain(y)
    BY DEF Spawn, Send, Plain
  <2>. QED
    BY <1>11, <2>1, <2>2
<1>15. CASE DoSpawn("pump")
  <2>1. /\ x.op = "spawn" /\ UNCHANGED state
        /\ \/ \E h \in Handle : Then("pump", <<Bind(t, h), Replay(h), SetState(t, "running")>>)
           \/ Then("pump", OnError(t, x.origin))
    BY <1>15 DEF DoSpawn, Runs, db
  <2>2. ASSUME NEW h \in Handle, Then("pump", <<Bind(t, h), Replay(h), SetState(t, "running")>>)
        PROVE  PumpBook'
    <3>. DEFINE a == Bind(t, h)
                b == Replay(h)
                c == SetState(t, "running")
                q == <<a, b, c>>
    <3>1. Plain(a) /\ Plain(b) /\ Plain(c)
      BY DEF Bind, Replay, SetState, Plain
    <3>2. Len(q) = 3 /\ q[1] = a /\ q[2] = b /\ q[3] = c /\ q \in Seq({a, b, c})
      OBVIOUS
    <3>3. Then("pump", q)
      BY <2>2
    <3>. HIDE DEF a, b, c, q
    <3>4. \A i \in 1..Len(q) : i = 1 \/ i = 2 \/ i = 3
      BY <3>2
    <3>5. \A i \in 1..Len(q) : Plain(q[i])
      BY <3>1, <3>2, <3>4
    <3>. QED
      BY <1>8, <2>1, <3>2, <3>3, <3>5
  <2>3. x.op \in Owing
    BY <2>1 DEF Owing, Dispatching
  <2>. QED
    BY <1>12, <2>1, <2>2, <2>3
<1>16. CASE DoBind("pump")
  BY <1>10, <1>16 DEF DoBind
<1>17. CASE DoReplay("pump")
  <2>1. UNCHANGED state /\ (Then("pump", <<>>) \/ Then("pump", <<Scan(x.handle)>>))
    BY <1>17 DEF DoReplay, db
  <2>2. Plain(Scan(x.handle))
    BY DEF Scan, Plain
  <2>. QED
    BY <1>10, <1>11, <2>1, <2>2
<1>18. CASE DoScan("pump")
  <2>1. UNCHANGED state /\ \E h, o, f : Then("pump", <<Match(h, o, f)>>)
    BY <1>18, Zenon DEF DoScan, db
  <2>2. \A h, o, f : Plain(Match(h, o, f))
    BY DEF Match, Plain
  <2>. QED
    BY <1>11, <2>1, <2>2
<1>19. CASE DoMatch("pump")
  <2>1. UNCHANGED state /\ (Then("pump", <<>>) \/ \E u, h : Then("pump", <<Claim(u, h)>>))
    BY <1>19 DEF DoMatch, db
  <2>2. \A u, h : Plain(Claim(u, h))
    BY DEF Claim, Plain
  <2>. QED
    BY <1>10, <1>11, <2>1, <2>2
<1>20. CASE DoClaim("pump")
  <2>1. UNCHANGED state /\ \E h, o : Then("pump", <<Send(t, h, o)>>)
    BY <1>20 DEF DoClaim
  <2>2. \A h, o : Plain(Send(t, h, o))
    BY DEF Send, Plain
  <2>. QED
    BY <1>11, <2>1, <2>2
<1>21. CASE DoSend("pump")
  <2>1. /\ x.op \in Owing /\ UNCHANGED state
        /\ Then("pump", <<Land(t, x.handle)>>) \/ Then("pump", OnError(t, x.origin))
    BY <1>21 DEF DoSend, Runs, Owing, db
  <2>2. Plain(Land(t, x.handle))
    BY DEF Land, Plain
  <2>. QED
    BY <1>11, <1>12, <2>1, <2>2
<1>22. CASE DoLand("pump")
  <2>1. x.op \in Owing /\ Then("pump", <<>>) /\ state' = [state EXCEPT ![t] = "running"]
    BY <1>22 DEF DoLand, Runs, Owing
  <2>2. Booked(state', Written, <<>>)
    BY <1>9, BookedPlain
  <2>. QED
    BY <1>3, <1>7, <1>9, <2>1, <2>2
<1>23. CASE DoSetHop("pump")
  BY <1>10, <1>23 DEF DoSetHop
<1>. QED
  BY <1>13, <1>14, <1>15, <1>16, <1>17, <1>18, <1>19, <1>20, <1>21, <1>22, <1>23
     DEF ServeStep

LEMMA EndBook ==
    ASSUME TaskInv, PumpShape, PumpState, PumpBook, Pump # <<>>, EndStep \/ DoReap
    PROVE  PumpBook'
<1>. DEFINE p == Pump
            x == Head(prog["pump"])
            t == x.task
<1>1. p \in Seq(StepsNow) /\ p[1] = x /\ x \in StepsNow /\ 1 \in 1..Len(p) /\ Len(p) \in Nat
  BY PumpHead
<1>2. Alone /\ Sane(state, hop, p) /\ Granted(state, p, 1) /\ Booked(state, Written, p)
  BY <1>1 DEF PumpShape, PumpState, Sane, PumpBook
<1>3. crashes' = crashes
  BY DEF EndStep, DoSetState, DoRecord, DoUnbind, DoCloseTab, DoEarlyExit, DoRetry, DoReap,
         process
<1>4. <<>> \in Seq({}) /\ Len(<<>>) = 0 /\ \A st, wr : Booked(st, wr, <<>>)
  BY BookedPlain
<1>5. \A y : <<y>> \in Seq({y}) /\ Len(<<y>>) = 1 /\ <<y>>[1] = y
  OBVIOUS
<1>6. \A i \in 2..Len(p) : p[i].op = "set_state" => p[i].task \in Task
  BY <1>1, StepTasks, ElementOfSeq
<1>7. ASSUME x.op \notin {"set_state", "record"}, NEW q, NEW R, q \in Seq(R), Then("pump", q),
             Booked(state', Written, q),
             \A u \in Task : Told(u)' = Told(u) /\ \A i \in Told(u) : lines'[u][i] = lines[u][i],
             \A u \in Task : state'[u] = state[u] \/ (state[u] = "absent" /\ state'[u] = "pending")
      PROVE  PumpBook'
  <2>1. \A u \in Task : /\ state'[u] \in Settled => state'[u] = state[u]
                        /\ state[u] \in Settled => state'[u] \in Settled
    BY <1>7 DEF Settled, Result
  <2>2. \A i \in 2..Len(p) : p[i].op = "set_state" /\ state[p[i].task] \in {"done", "closed"}
                               => state'[p[i].task] \in {"done", "closed"}
    BY <1>6, <1>7
  <2>3. ~First(p, {"record"})
    BY <1>1, <1>7 DEF First
  <2>4. PICK st : st = state'
    OBVIOUS
  <2>5. Booked(st, Written, q \o Tail(p))
    BY <1>1, <1>2, <1>7, <2>2, <2>4, SplicedBook
  <2>6. PICK r : r = q \o Tail(p)
    OBVIOUS
  <2>7. Pump' = r
    BY <1>2, <1>7, <2>6, Turned
  <2>. QED
    BY <1>3, <1>7, <2>1, <2>3, <2>4, <2>5, <2>6, <2>7, BookStays
<1>8. ASSUME UNCHANGED lines
      PROVE  \A u \in Task : Told(u)' = Told(u) /\ \A i \in Told(u) : lines'[u][i] = lines[u][i]
  BY <1>8 DEF Told
<1>9. CASE DoSetState("pump")
  <2>. DEFINE r == Tail(p)
              st == [state EXCEPT ![t] = x.state]
  <2>1. /\ x.op = "set_state" /\ Then("pump", <<>>) /\ UNCHANGED lines /\ state' = st
    BY <1>9 DEF DoSetState, Runs
  <2>2. t \in Task /\ st[t] = x.state /\ \A u \in Task \ {t} : st[u] = state[u]
    BY <1>1, <2>1, StepTasks DEF TaskInv, Tables, Rows
  <2>3. /\ r \in Seq(StepsNow) /\ Len(r) = Len(p) - 1
        /\ \A i \in 1..Len(r) : r[i] = p[i + 1] /\ i + 1 \in 2..Len(p) /\ i + 1 \in 1..Len(p)
    BY <1>1, HeadTailProperties
  <2>4. r # <<>> <=> Len(p) > 1
    <3>1. r = <<>> <=> Len(r) = 0
      BY <2>3, EmptySeq
    <3>. QED
      BY <1>1, <2>3, <3>1
  <2>5. Pump' = r
    <3>1. Pump' = <<>> \o r
      BY <1>2, <2>1, Turned
    <3>. QED
      BY <2>3, <3>1, ConcatEmptySeq
  <2>6. x.state \in Settled \cup {"running"}
    BY <1>1, <2>1, StepFields DEF StepsNow
  <2>7. \A k \in 2..Len(p) : p[k].op \in {"set_state", "record"} =>
          p[k].task \in Task /\ (p[k].op = "record" => p[k].state \in Result)
    <3>. SUFFICES ASSUME NEW k \in 2..Len(p), p[k].op \in {"set_state", "record"}
                  PROVE  p[k].task \in Task /\ (p[k].op = "record" => p[k].state \in Result)
      OBVIOUS
    <3>1. p[k] \in StepsNow
      BY <1>1, ElementOfSeq
    <3>2. p[k].op = "record" => p[k].state \in Result
      BY <3>1, StepFields DEF StepsNow
    <3>. QED
      BY <3>1, <3>2, StepTasks
  <2>8. \A u, s : SetState(u, s).task = u /\ SetState(u, s).state = s
    BY DEF SetState
  <2>. HIDE DEF r, st
  <2>9. \A u \in Task : Told(u)' = Told(u)
    BY <1>8, <2>1
  <2>10. Written' = Written
    BY <2>9 DEF Written
  <2>11. OneResult'
    BY <2>9 DEF PumpBook, OneResult
  <2>12. x.state \in Result => state[t] \notin Settled /\ r # <<>> /\ p[2] = Record(t, x.state)
    BY <1>1, <1>2, <2>1, <2>4 DEF Booked
  <2>13. x.state = "closed" => state[t] \in {"done", "closed"}
    <3>1. x.state = "closed" => x # SetState(t, "done")
      BY <2>8
    <3>. QED
      BY <1>1, <1>2, <2>1, <3>1 DEF Booked
  <2>14. x.state = "running" => state[t] \in Owed
    BY <1>1, <1>2, <2>1 DEF Granted
  <2>15. \A u \in Written : st[u] \in Settled
    <3>. SUFFICES ASSUME NEW u \in Written PROVE st[u] \in Settled
      OBVIOUS
    <3>1. state[u] \in Settled /\ u \in Task
      BY DEF PumpBook, Written
    <3>2. u = t => x.state = "closed"
      BY <2>6, <2>12, <2>14, <3>1 DEF Settled, Result, Owed
    <3>. QED
      BY <2>2, <3>1, <3>2 DEF Settled
  <2>16. Booked(st, Written, r)
    <3>. SUFFICES ASSUME NEW i \in 1..Len(r)
                  PROVE  /\ r[i].op = "record" =>
                              /\ i = 1 /\ st[r[1].task] = r[1].state
                              /\ r[1].task \notin Written
                         /\ r[i].op # "early_exit"
                         /\ r[i].op = "set_state" => r[i].state \notin Result
                         /\ r[i].op = "set_state" /\ r[i].state = "closed" =>
                              st[r[i].task] \in {"done", "closed"}
      BY DEF Booked
    <3>1. r[i] = p[i + 1] /\ i + 1 \in 2..Len(p) /\ i + 1 \in 1..Len(p) /\ i + 1 # 1
      BY <2>3
    <3>2. r[i].op # "early_exit" /\ (r[i].op = "set_state" => r[i].state \notin Result)
      BY <1>2, <3>1 DEF Booked
    <3>3. ASSUME r[i].op = "record"
          PROVE  i = 1 /\ st[r[1].task] = r[1].state /\ r[1].task \notin Written
      <4>1. i + 1 = 2 /\ x = SetState(r[i].task, r[i].state)
        BY <1>1, <1>2, <3>1, <3>3 DEF Booked
      <4>2. t = r[i].task /\ x.state = r[i].state
        BY <2>8, <4>1
      <4>3. x.state \in Result
        BY <2>7, <3>1, <3>3, <4>2
      <4>4. t \notin Written
        BY <2>12, <4>3 DEF PumpBook
      <4>5. i = 1
        BY <4>1
      <4>. QED
        BY <2>2, <4>2, <4>4, <4>5
    <3>4. ASSUME r[i].op = "set_state", r[i].state = "closed"
          PROVE  st[r[i].task] \in {"done", "closed"}
      <4>. DEFINE u == r[i].task
      <4>1. state[u] \in {"done", "closed"} \/ x = SetState(u, "done")
        BY <1>1, <1>2, <3>1, <3>4 DEF Booked
      <4>2. u \in Task
        BY <2>7, <3>1, <3>4
      <4>3. CASE x = SetState(u, "done")
        BY <2>2, <2>8, <4>3
      <4>4. CASE state[u] \in {"done", "closed"} /\ u # t
        BY <2>2, <4>2, <4>4
      <4>5. CASE state[u] \in {"done", "closed"} /\ u = t
        <5>1. x.state = "closed"
          BY <2>6, <2>12, <2>14, <4>5 DEF Settled, Result, Owed
        <5>. QED
          BY <2>2, <4>5, <5>1
      <4>. QED
        BY <4>1, <4>3, <4>4, <4>5
    <3>. QED
      BY <3>2, <3>3, <3>4
  <2>17. ASSUME crashes' = 0, NEW u \in Task, st[u] \in Settled
         PROVE  Agrees(u)' \/ (First(r, {"record"}) /\ r[1].task = u)
    <3>1. ASSUME state[u] \in Settled, st[u] = state[u] \/ (st[u] = "closed" /\ state[u] = "done")
          PROVE  Agrees(u)'
      <4>1. Agrees(u)
        BY <1>1, <1>3, <2>1, <2>17, <3>1 DEF PumpBook, First
      <4>2. state'[u] = st[u]
        BY <2>1
      <4>. QED
        BY <1>8, <2>1, <3>1, <4>1, <4>2 DEF Agrees
    <3>2. CASE u # t
      BY <2>2, <2>17, <3>1, <3>2
    <3>3. CASE u = t /\ x.state = "closed"
      BY <2>2, <2>13, <3>1, <3>3 DEF Settled, Result
    <3>4. CASE u = t /\ x.state \in Result
      <4>1. r # <<>> /\ p[2] = Record(t, x.state) /\ 1 \in 1..Len(r)
        BY <2>3, <2>4, <2>12, <3>4
      <4>2. r[1] = Record(t, x.state)
        BY <2>3, <4>1
      <4>. QED
        BY <3>4, <4>1, <4>2 DEF First, Record
    <3>. QED
      BY <2>2, <2>6, <2>17, <3>2, <3>3, <3>4 DEF Settled, Result
  <2>18. Booked(state, Written, Pump)'
    BY <2>1, <2>5, <2>10, <2>16
  <2>19. \A u \in Written' : state'[u] \in Settled
    BY <2>1, <2>10, <2>15
  <2>20. crashes' = 0 => \A u \in Task : state'[u] \in Settled =>
           Agrees(u)' \/ (First(Pump', {"record"}) /\ Pump'[1].task = u)
    BY <2>1, <2>5, <2>17
  <2>. QED
    BY <1>3, <2>11, <2>18, <2>19, <2>20 DEF PumpBook
<1>10. CASE DoRecord("pump")
  <2>1. /\ x.op = "record" /\ Then("pump", <<>>) /\ UNCHANGED state
        /\ lines' = [lines EXCEPT ![t] = Append(@, x.state)]
    BY <1>10 DEF DoRecord, Runs
  <2>2. t \in Task /\ x.state \in Result
    BY <1>1, <2>1, StepFields, StepTasks DEF StepsNow
  <2>3. PICK v \in Task, s \in Result, n \in Nat :
          v = t /\ s = x.state /\ n = Len(lines[v]) + 1
    BY <2>2, LinesType
  <2>4. state[v] = s /\ v \notin Written
    <3>1. p[1].op = "record" /\ \A u, z : p[1] # SetState(u, z)
      BY <1>1, <2>1 DEF SetState
    <3>. QED
      BY <1>1, <1>2, <2>3, <3>1 DEF Booked
  <2>5. /\ \A u \in Task \ {v} : lines'[u] = lines[u] /\ Told(u)' = Told(u)
        /\ Told(v)' = {n} /\ lines'[v][n] = s
    <3>1. Told(v) = {}
      BY <2>4 DEF Written
    <3>2. lines' = [lines EXCEPT ![v] = Append(@, s)]
      BY <2>1, <2>3
    <3>3. s \in Result \cup {"adopted"}
      OBVIOUS
    <3>4. /\ \A u \in Task \ {v} : lines'[u] = lines[u] /\ Told(u)' = Told(u)
          /\ Told(v)' = Told(v) \cup (IF s \in Result THEN {Len(lines[v]) + 1} ELSE {})
          /\ lines'[v][Len(lines[v]) + 1] = s
      BY <3>2, <3>3, OneLineMore
    <3>. QED
      BY <2>3, <3>1, <3>4
  <2>6. OneResult'
    <3>1. \A u \in Task : \A i, j \in Told(u)' : i = j
      BY <2>5 DEF PumpBook, OneResult
    <3>. QED
      BY <3>1 DEF OneResult
  <2>7. \A u \in Written' : state'[u] \in Settled
    <3>1. \A u \in Written' : u \in Task /\ (u = v \/ u \in Written)
      BY <2>5 DEF Written
    <3>. QED
      BY <2>1, <2>4, <3>1 DEF PumpBook, Settled
  <2>8. Booked(state, Written, Pump)'
    <3>1. PICK wr : wr = Written'
      OBVIOUS
    <3>2. Booked(state, wr, <<>> \o Tail(p))
      BY <1>1, <1>2, <1>4, <2>1, SplicedBook
    <3>3. Pump' = <<>> \o Tail(p)
      BY <1>2, <2>1, Turned
    <3>. QED
      BY <2>1, <3>1, <3>2, <3>3
  <2>9. ASSUME crashes' = 0, NEW u \in Task, state'[u] \in Settled PROVE Agrees(u)'
    <3>1. CASE u = v
      <4>1. state'[v] = s /\ s # "closed" /\ n <= n
        BY <2>1, <2>4 DEF Result
      <4>. QED
        BY <2>5, <3>1, <4>1 DEF Agrees
    <3>2. CASE u # v
      <4>1. Agrees(u)
        BY <1>1, <1>3, <2>1, <2>3, <2>9, <3>2 DEF PumpBook
      <4>. QED
        BY <2>1, <2>5, <3>2, <4>1 DEF Agrees
    <3>. QED
      BY <3>1, <3>2
  <2>. QED
    BY <1>3, <2>6, <2>7, <2>8, <2>9 DEF PumpBook
<1>11. CASE DoUnbind("pump")
  <2>1. /\ x.op = "unbind" /\ UNCHANGED <<state, lines>>
        /\ Then("pump", <<>>) \/ \E h : Then("pump", <<CloseTab(t, h)>>)
    BY <1>11 DEF DoUnbind, Runs
  <2>2. \A h : Booked(state', Written, <<CloseTab(t, h)>>)
    <3>1. \A h : Plain(CloseTab(t, h))
      BY DEF CloseTab, Plain
    <3>. QED
      BY <1>5, <3>1, BookedPlain
  <2>. QED
    BY <1>4, <1>5, <1>7, <1>8, <2>1, <2>2
<1>12. CASE DoCloseTab("pump")
  <2>1. x.op = "close_tab" /\ UNCHANGED <<state, lines>> /\ Then("pump", <<>>)
    BY <1>12 DEF DoCloseTab, Runs, db
  <2>. QED
    BY <1>4, <1>7, <1>8, <2>1
<1>13. CASE DoEarlyExit("pump")
  <2>1. /\ x.op = "early_exit" /\ UNCHANGED <<state, lines>>
        /\ Then("pump", IF state[t] \in {"done", "closed"} THEN <<>> ELSE Settle(t, "failed"))
    BY <1>13 DEF DoEarlyExit, Runs, db
  <2>2. state[t] \notin Settled
    BY <1>1, <1>2, <2>1 DEF Booked
  <2>3. Then("pump", Settle(t, "failed"))
    BY <2>1, <2>2 DEF Settled, Result
  <2>4. Booked(state', Written, Settle(t, "failed"))
    <3>1. Retry(t, 0).op = "retry"
      BY DEF Retry
    <3>. QED
      BY <2>1, <2>2, <3>1, BookedSettle DEF Result
  <2>5. Settle(t, "failed") \in Seq({SetState(t, "failed"), Record(t, "failed"), Unbind(t)})
    BY DEF Settle
  <2>. QED
    BY <1>7, <1>8, <2>1, <2>3, <2>4, <2>5
<1>14. CASE DoRetry("pump")
  <2>1. /\ x.op = "retry" /\ UNCHANGED lines
        /\ \/ UNCHANGED state /\ Then("pump", <<>>)
           \/ \E u \in Task : /\ state[u] = "absent"
                              /\ state' = [state EXCEPT ![u] = "pending"]
                              /\ Then("pump", <<Reserve(u, "retry")>>)
    BY <1>14 DEF DoRetry, Runs, InsertRow, db
  <2>2. CASE UNCHANGED state /\ Then("pump", <<>>)
    BY <1>4, <1>7, <1>8, <2>1, <2>2
  <2>3. ASSUME NEW u \in Task, state[u] = "absent", state' = [state EXCEPT ![u] = "pending"],
               Then("pump", <<Reserve(u, "retry")>>)
        PROVE  PumpBook'
    <3>1. \A v \in Task : \/ state'[v] = state[v]
                          \/ state[v] = "absent" /\ state'[v] = "pending"
      BY <2>3 DEF TaskInv, Tables, Rows
    <3>2. Plain(Reserve(u, "retry"))
      BY DEF Reserve, Plain
    <3>3. Booked(state', Written, <<Reserve(u, "retry")>>)
      BY <1>5, <3>2, BookedPlain
    <3>. QED
      BY <1>5, <1>7, <1>8, <2>1, <2>3, <3>1, <3>3
  <2>. QED
    BY <2>1, <2>2, <2>3
<1>15. CASE DoReap
  <2>1. x.op = "reap" /\ UNCHANGED state
    BY <1>15 DEF DoReap, Runs
  <2>2. t \in Task /\ state[t] \in Owed
    BY <1>1, <1>2, <2>1, StepTasks DEF Granted
  <2>3. CASE UNCHANGED lines /\ Then("pump", <<EarlyExit(t)>>)
    <3>1. state[t] \notin Settled
      BY <2>2 DEF Owed, Settled, Result
    <3>2. Booked(state', Written, <<EarlyExit(t)>>)
      BY <2>1, <3>1, BookedExit
    <3>. QED
      BY <1>5, <1>7, <1>8, <2>1, <2>3, <3>2
  <2>4. CASE lines' = [lines EXCEPT ![t] = Append(@, "adopted")] /\ Then("pump", <<>>)
    <3>1. "adopted" \notin Result
      BY DEF Result
    <3>2. PICK v \in Task : v = t
      BY <2>2
    <3>3. lines' = [lines EXCEPT ![v] = Append(@, "adopted")]
      BY <2>4, <3>2
    <3>4. "adopted" \in Result \cup {"adopted"}
      OBVIOUS
    <3>5. /\ \A u \in Task \ {v} : lines'[u] = lines[u] /\ Told(u)' = Told(u)
          /\ Told(v)' = Told(v) \cup {}
          /\ \A i \in Told(v) : lines'[v][i] = lines[v][i]
      BY <3>1, <3>3, <3>4, OneLineMore
    <3>6. \A u \in Task : Told(u)' = Told(u) /\ \A i \in Told(u) : lines'[u][i] = lines[u][i]
      BY <3>5
    <3>. QED
      BY <1>4, <1>7, <2>1, <2>4, <3>6
  <2>. QED
    BY <1>15, <2>3, <2>4 DEF DoReap
<1>. QED
  BY <1>9, <1>10, <1>11, <1>12, <1>13, <1>14, <1>15 DEF EndStep

LEMMA StartBook ==
    ASSUME TaskInv, PumpShape, PumpBook, Starts
    PROVE  PumpBook'
<1>. DEFINE e == Head(mail)
            t == e.task
<1>1. Alone /\ Pump = <<>> /\ ~First(Pump, {"record"})
  <2>1. Idle("pump")
    BY DEF Starts, OnTaskInbound, HearReady, HearActivity, HearOut, HearRecycled, Reconnect,
           Hears
  <2>. QED
    BY <2>1 DEF Idle, PumpShape, Pump, First
<1>2. UNCHANGED <<lines, crashes>>
  BY DEF Starts, OnTaskInbound, HearReady, HearActivity, HearOut, HearRecycled, Reconnect,
         InsertRow, Hear, db, process
<1>3. \A u \in Task : Told(u)' = Told(u) /\ \A i \in Told(u) : lines'[u][i] = lines[u][i]
  BY <1>2 DEF Told
<1>4. ASSUME NEW q, Begin("pump", q), Booked(state', Written, q),
             \A u \in Task : state'[u] = state[u] \/ (state[u] = "absent" /\ state'[u] = "pending")
      PROVE  PumpBook'
  <2>1. \A u \in Task : /\ state'[u] \in Settled => state'[u] = state[u]
                        /\ state[u] \in Settled => state'[u] \in Settled
    BY <1>4 DEF Settled, Result
  <2>2. Pump' = q
    BY <1>1, <1>4, Begun
  <2>3. PICK st : st = state'
    OBVIOUS
  <2>. QED
    BY <1>1, <1>2, <1>3, <1>4, <2>1, <2>2, <2>3, BookStays
<1>5. ASSUME UNCHANGED state, NEW q, Begin("pump", q), \A i \in 1..Len(q) : Plain(q[i])
      PROVE  PumpBook'
  <2>1. Booked(state', Written, q)
    BY <1>5, BookedPlain
  <2>. QED
    BY <1>4, <1>5, <2>1
<1>6. ASSUME UNCHANGED state, Begin("pump", <<>>) PROVE PumpBook'
  <2>1. \A i \in 1..Len(<<>>) : Plain(<<>>[i])
    OBVIOUS
  <2>. QED
    BY <1>5, <1>6, <2>1
<1>7. \A y : Plain(y) => \A st, wr : Booked(st, wr, <<y>>)
  <2>. SUFFICES ASSUME NEW y, Plain(y), NEW st, NEW wr PROVE Booked(st, wr, <<y>>)
    OBVIOUS
  <2>1. Len(<<y>>) = 1 /\ <<y>>[1] = y
    OBVIOUS
  <2>. QED
    BY <2>1, BookedPlain
<1>8. ASSUME UNCHANGED state, NEW y, Begin("pump", <<y>>), Plain(y) PROVE PumpBook'
  <2>1. Booked(state', Written, <<y>>)
    BY <1>7, <1>8
  <2>. QED
    BY <1>4, <1>8, <2>1
<1>9. CASE \E u \in Task : OnTaskInbound(u)
  <2>1. PICK u \in Task : OnTaskInbound(u)
    BY <1>9
  <2>2. /\ state[u] = "absent" /\ state' = [state EXCEPT ![u] = "pending"]
        /\ Begin("pump", <<Reserve(u, "inbound")>>)
    BY <2>1 DEF OnTaskInbound, InsertRow
  <2>3. \A v \in Task : state'[v] = state[v] \/ (state[v] = "absent" /\ state'[v] = "pending")
    BY <2>2 DEF TaskInv, Tables, Rows
  <2>4. Plain(Reserve(u, "inbound"))
    BY DEF Reserve, Plain
  <2>5. Booked(state', Written, <<Reserve(u, "inbound")>>)
    BY <1>7, <2>4
  <2>. QED
    BY <1>4, <2>2, <2>3, <2>5
<1>10. CASE HearReady
  <2>1. Begin("pump", <<Scan(e.handle)>>) /\ UNCHANGED state
    BY <1>10 DEF HearReady, Hear, db
  <2>2. Plain(Scan(e.handle))
    BY DEF Scan, Plain
  <2>. QED
    BY <1>8, <2>1, <2>2
<1>11. CASE HearActivity
  <2>1. Begin("pump", <<>>) \/ \E s, b : Begin("pump", <<SetHop(t, s, b)>>)
    BY <1>11, Zenon DEF HearActivity, Hear
  <2>2. UNCHANGED state
    BY <1>11 DEF HearActivity, Hear, db
  <2>3. \A s, b : Plain(SetHop(t, s, b))
    BY DEF SetHop, Plain
  <2>. QED
    BY <1>6, <1>8, <2>1, <2>2, <2>3
<1>12. CASE HearOut
  <2>1. \/ Begin("pump", <<>>)
        \/ /\ state[t] \notin Settled
           /\ \/ Begin("pump", Settle(t, "failed"))
              \/ Begin("pump", Settle(t, "done") \o <<SetState(t, "closed")>>)
    BY <1>12, Zenon DEF HearOut, Hear
  <2>2. UNCHANGED state
    BY <1>12 DEF HearOut, Hear, db
  <2>3. state[t] \notin Settled =>
          /\ Booked(state', Written, Settle(t, "failed"))
          /\ Booked(state', Written, Settle(t, "done") \o <<SetState(t, "closed")>>)
    <3>1. Retry(t, 0).op = "retry"
      BY DEF Retry
    <3>2. state[t] \notin Settled => Booked(state, Written, Settle(t, "failed"))
      BY <3>1, BookedSettle DEF Result
    <3>3. state[t] \notin Settled =>
            Booked(state, Written, Settle(t, "done") \o <<SetState(t, "closed")>>)
      BY BookedSettle DEF Result
    <3>. QED
      BY <2>2, <3>2, <3>3
  <2>. QED
    BY <1>4, <1>6, <2>1, <2>2, <2>3
<1>13. CASE HearRecycled
  <2>1. \/ Begin("pump", <<Unbind(t)>>)
        \/ /\ state[t] \notin Settled
           /\ \/ Begin("pump", Settle(t, "failed") \o <<Retry(t, attempt[t])>>)
              \/ Begin("pump", Settle(t, "failed") \o <<>>)
    BY <1>13 DEF HearRecycled, Hear
  <2>2. UNCHANGED state
    BY <1>13 DEF HearRecycled, Hear, db
  <2>3. Settle(t, "failed") \o <<>> = Settle(t, "failed")
    BY DEF Settle
  <2>4. Plain(Unbind(t))
    BY DEF Unbind, Plain
  <2>5. state[t] \notin Settled =>
          /\ Booked(state, Written, Settle(t, "failed"))
          /\ Booked(state, Written, Settle(t, "failed") \o <<Retry(t, attempt[t])>>)
    <3>1. Retry(t, attempt[t]).op = "retry"
      BY DEF Retry
    <3>. QED
      BY <3>1, BookedSettle DEF Result
  <2>. QED
    BY <1>4, <1>8, <2>1, <2>2, <2>3, <2>4, <2>5
<1>14. CASE Reconnect
  <2>. DEFINE T == {terminals[u] : u \in Task} \cap history
  <2>1. PICK order \in SetToSeqs(T) : Begin("pump", [i \in DOMAIN order |-> Scan(order[i])])
    BY <1>14 DEF Reconnect
  <2>2. IsFiniteSet(T)
    BY ScannedFinite DEF TaskInv, Tables
  <2>3. Len(order) \in Nat /\ DOMAIN order = 1..Len(order)
    BY <2>2, InAnyOrder
  <2>. DEFINE q == [i \in DOMAIN order |-> Scan(order[i])]
  <2>4. Len(q) = Len(order) /\ \A i \in 1..Len(q) : q[i] = Scan(order[i])
    BY <2>3
  <2>5. \A h : Plain(Scan(h))
    BY DEF Scan, Plain
  <2>. HIDE DEF q
  <2>6. \A i \in 1..Len(q) : Plain(q[i])
    BY <2>4, <2>5
  <2>7. UNCHANGED state
    BY <1>14 DEF Reconnect, db
  <2>. QED
    BY <1>5, <2>1, <2>6, <2>7 DEF q
<1>. QED
  BY <1>9, <1>10, <1>11, <1>12, <1>13, <1>14 DEF Starts

LEMMA BookNext ==
    ASSUME PumpAlone, TaskInv, PumpShape, PumpState, PumpBook, [Next]_vars
    PROVE  PumpBook'
<1>1. CASE Crash
  <2>1. UNCHANGED <<state, lines>> /\ crashes' # 0 /\ crashes' \in Nat
    <3>1. crashes \in Nat /\ crashes' = crashes + 1
      BY <1>1 DEF Crash, PumpBook
    <3>2. crashes' # 0 /\ crashes' \in Nat
      BY ONLY <3>1
    <3>3. UNCHANGED <<state, lines>>
      BY <1>1 DEF Crash, db
    <3>. QED
      BY <3>2, <3>3
  <2>2. \A i \in 1..Len(Pump') : Plain(Pump'[i])
    <3>1. \A i \in 1..Len(Pump') : \E u \in Task : Pump'[i] = Reap(u, Text(bound[u]))
      BY <1>1, CrashProgram
    <3>2. \A u, h : Plain(Reap(u, h))
      BY DEF Reap, Plain
    <3>. QED
      BY <3>1, <3>2
  <2>3. Booked(state, Written, Pump)'
    <3>1. PICK q : q = Pump'
      OBVIOUS
    <3>2. PICK st, wr : st = state' /\ wr = Written'
      OBVIOUS
    <3>3. Booked(st, wr, q)
      BY <2>2, <3>1, BookedPlain
    <3>. QED
      BY <3>1, <3>2, <3>3
  <2>4. OneResult' /\ \A u \in Written' : state'[u] \in Settled
    BY <2>1 DEF PumpBook, OneResult, Written, Told
  <2>. QED
    BY <2>1, <2>3, <2>4 DEF PumpBook
<1>2. ASSUME UNCHANGED <<state, lines, crashes, prog>> PROVE PumpBook'
  BY <1>2 DEF PumpBook, OneResult, Written, Told, Agrees, Pump
<1>3. CASE Booted
  BY <1>2, <1>3 DEF Booted, db, process
<1>4. CASE Sessions
  BY <1>2, <1>4 DEF Sessions, AgentReady, AgentReports, AgentRecycles, TabDies, db, process
<1>5. CASE UNCHANGED vars
  BY <1>2, <1>5 DEF vars, db, process
<1>. QED
  BY <1>1, <1>3, <1>4, <1>5, PumpNext, StartBook, ServeBook, EndBook

LEMMA PumpBookHolds ==
    ASSUME PumpAlone PROVE Spec => [](TaskInv /\ PumpShape /\ PumpState /\ PumpBook)
<1>1. Init => PumpBook
  <2>. SUFFICES ASSUME Init PROVE PumpBook
    OBVIOUS
  <2>1. Pump = <<>> /\ \A u \in Task : lines[u] = <<>> /\ state[u] = "absent"
    BY DEF Init, Pump, AllThreads
  <2>2. \A u \in Task : Told(u) = {}
    <3>1. DOMAIN <<>> = {}
      OBVIOUS
    <3>. QED
      BY <2>1, <3>1 DEF Told
  <2>3. Booked(state, Written, <<>>)
    BY BookedPlain
  <2>4. crashes = 0
    BY DEF Init
  <2>. QED
    BY <2>1, <2>2, <2>3, <2>4 DEF PumpBook, OneResult, Written, Settled, Result
<1>2. TaskInv /\ PumpShape /\ PumpState /\ PumpBook /\ [Next]_vars => PumpBook'
  BY BookNext
<1>. QED
  BY <1>1, <1>2, PumpStateHolds, PTL DEF Spec

\* The pump writes at most one result line for a task, wherever a crash falls.
THEOREM ResultsToldOnce ==
    ASSUME PumpAlone PROVE Spec => []OneResult
<1>1. PumpBook => OneResult
  BY DEF PumpBook
<1>. QED
  BY <1>1, PumpBookHolds, PTL

\* Once the pump is done with a settled task, its last result line tells the
\* state of its row, unless a crash came between the two.
THEOREM LedgerTellsTheRow ==
    ASSUME PumpAlone PROVE Spec => []LedgerAgrees
<1>1. TaskInv /\ PumpShape /\ PumpState /\ PumpBook => LedgerAgrees
  <2>. SUFFICES ASSUME TaskInv, PumpShape, PumpBook, NEW t \in Task,
                       state[t] \in Settled, Quiet(t), crashes = 0
                PROVE  Agrees(t)
    BY DEF LedgerAgrees
  <2>1. Agrees(t) \/ (First(Pump, {"record"}) /\ Pump[1].task = t)
    BY DEF PumpBook
  <2>2. ASSUME First(Pump, {"record"}), Pump[1].task = t PROVE FALSE
    <3>1. Pump # <<>> /\ Pump[1].op = "record"
      BY <2>2 DEF First
    <3>2. Pump[1] \in StepsNow /\ 1 \in 1..Len(Pump) /\ Pump \in Seq(StepsNow)
      BY <3>1, PumpHead
    <3>3. 1 \in DOMAIN prog["pump"]
      BY <3>2, LenProperties DEF Pump
    <3>4. "task" \in DOMAIN Pump[1]
      BY <3>1, <3>2 DEF StepsNow, Steps
    <3>5. Concerns(Pump[1], t)
      BY <2>2, <3>4 DEF Concerns, About
    <3>. QED
      BY <3>3, <3>5 DEF Quiet, Pump, AllThreads
  <2>. QED
    BY <2>1, <2>2
<1>. QED
  BY <1>1, PumpBookHolds, PTL
=============================================================================
