# onlyne-swarm in TLA+

`onlyne-swarm` is a scheduler for reactive multi-agent workflows.  Each
workspace of a swarm has a local message daemon; each task becomes a terminal
tab with an agent session in it, and one scheduler process per swarm root moves
tasks from "submitted" to "settled" while sessions start, hang, die, answer
late or twice, and while the scheduler itself may be killed and restarted.

This directory holds a model of that scheduler, of the ledgers at its heart and of
the commands around it, the TLC configurations that check it, and proofs about it.
Paths below are relative to the repository, lines are those of the commit the model
was written from.

- The **session ledger** (`src/lifecycle.rs`, `src/reconcile.rs`, `src/repair.rs`,
  `src/db.rs`): one row per task that says what is known of the session of that
  task.  A pure reducer decides which evidence may change it.
- The **task ledger** (`src/sched.rs`, `src/ipc.rs`, `src/events.rs`,
  `src/db.rs`): the task rows, the in-memory maps of the scheduler, and the
  threads that dispatch, deliver, watch, retry, cancel and settle tasks.
- The **intent ledger** (`src/reconcile.rs`, `src/db.rs`, `src/repair.rs`): one
  row per control frame the scheduler owes a session, written before it is sent,
  and the fault queue that names the frames it gave up.
- **Recovery** (`src/reconcile.rs`, `src/repair.rs`, `src/sched.rs`): the pass that
  compares session rows with the world, the faults it queues, the recovery tasks it
  opens, and the repairs of an operator, over task rows and session rows together.
- The **console** (`src/tui.rs`, with the queries of `src/db.rs`), the
  **workspaces** a sync makes (`src/template.rs`, `src/sync.rs`), and the
  **processes** that serve a root (`src/main.rs`, `src/daemon.rs`, `src/ipc.rs`).

Contents: [inventory](#inventory), [modules](#modules),
[how to run](#how-to-run), [runs](#runs-and-what-they-show),
[proofs](#what-is-proved), [disagreements](#where-the-code-and-its-words-disagree),
[limits](#what-is-not-modelled-and-why), [plan](#plan).

## Inventory

| Component | State it keeps | Operations that change it | Model |
| --- | --- | --- | --- |
| lifecycle reducer, `lifecycle.rs` | none; a pure function of (tuple, event) | `apply`, `is_legal`, `project`, the constructors | `Lifecycle`: all of it |
| session ledger, `reconcile.rs` `db.rs` | one `task_sessions` row per task: the tuple, (generation, sequence), the mismatch counter | `apply_persist`, `apply_at_next`, the `feed_*` helpers, `settle`, `apply_report`, the gated upsert, the rebuild of a corrupt row | `SessionRow`, `Session`, `SessionLedger` |
| repair commands, `repair.rs` | the same row, plus `operator_rev` | adopt, rebind, retry, fail, close, ack | `Recovery`: all of them; adopt and rebind also in `Session` and `SessionLedger`, ack and the re-arming of retry in `Intents` |
| reconcile pass, `reconcile.rs` | none; reads open rows and a probe | mirror, mismatch ladder, proof of death, faults, intents | `Recovery`; its feeds to one row, split, in `SessionLedger` |
| intents and faults, `reconcile.rs` `db.rs` | rows of `intents` and `faults` | open, claim, send, receipt, retry, exhaust, re-arm; record, dedupe, ack; open a recovery task | `Intents` the frames, `Recovery` the faults and recoveries |
| scheduler, `sched.rs` | `awaiting_ready`, `terminals`, `sessions`, `running_since`, `hop_since`, `idle_pending_exit`, idle pool | submit, dispatch, `on_ready`, `on_hop_activity`, `on_out`, `on_early_exit`, `on_recycled`, `cancel_force` | `TaskLedger` |
| task ledger, `db.rs` | `tasks` rows (state, hop_state, terminal, attempt), ledger lines | the SQL statements the above issue | `TaskLedger` |
| serve and reap loop, `ipc.rs` | the thread and its tick | `reap_previous_run`, sweep, ready replay, busy check, hop timeouts | `TaskLedger` |
| event pump, `events.rs` | a subscription per workspace | event dispatch, reconnect, replay of history | `TaskLedger` |
| frame format, `proto.rs` | none | parse and render | not modelled: a conversion without state |
| template sync, `template.rs` `sync.rs` | the description files, the files of each workspace | load the tree, bootstrap a child, look at an old one; `toggle_swarm` of `ipc.rs` | `Workspaces` |
| terminal UI, `tui.rs` | the last snapshot, focus, cursors, filter, search line | pull, keep selection and detail, every key | `Console` |
| command line, `main.rs` `daemon.rs` `root.rs` | socket file, pid file, daemons | run, run detached, stop; `serve` around the accept loop | `Process` |
| workspace tree, `hierarchy.rs` | none | path arithmetic | not modelled |
| session backends, `runtime/*`, `orca*.rs` | external multiplexers | spawn, send, close, probe | external: a choice of outcomes |
| `init.rs`, `skill.rs` | none | write files once | not modelled |

**How they interact.**  An event pump per workspace turns daemon events into
calls of the scheduler (`on_ready`, `on_out`, ...).  Connections on the Unix
socket call it too (submit, cancel, repair), and the reap loop calls it on every
tick.  All of them share one `Sched`: its maps are behind one mutex *each*, and
the database connection behind another, so only a single critical section or a
single SQL statement is atomic; a handler is a chain of them with calls out to a
terminal multiplexer and a daemon in between.  Every handler also feeds the
session ledger of its task, through `apply_persist`, which has no lock around its
read, its reduction and its write.  Whoever closes a terminal opens an intent for
it and sends the frame at once; the pump at the end of a reconcile pass sends again
what failed and is due.  The pass itself runs at boot and on every tick: it reads the
session rows, probes their tabs, feeds the rows, and queues a fault for work that was
lost, for which it opens and dispatches a recovery task at the parent role.

Around the scheduler, and without any lock in common: other starts and stops of it
meet in the socket file and the pid file; a sync and the scheduler's toggle meet in
the `config.toml` of a workspace; and the monitor shows rows that are two seconds old
and acts on them by key.

**What is hard here, and what should hold.**

- *Read, reduce, write without a lock* (session ledger).  Two handlers of one
  task interleave inside a feed.  The `(generation, sequence)` gate of the upsert
  has to make the composite behave as if it were atomic: no lost update, no
  rewound watermark, no revival of a dead generation.
- *Evidence in any order* (reducer).  Late, repeated and contradictory reports
  meet a tuple of seven correlated dimensions.  The tuple must stay legal, a
  death must always be recordable, and a settled result must stay.
- *Chains of steps over maps and rows* (scheduler).  A task must never end up
  owed to somebody and watched by nobody; its result must be recorded once and
  agree with the ledger file; a settled task must not be revived.
- *Crash and restart.*  Maps vanish, rows and tabs survive, and boot decides
  task by task whether to trust what it finds.
- *Timeouts against late answers.*  Five clocks, each armed by one handler and
  read by another thread.
- *Write first, then send* (intents).  The row must have one sender at a time, stay
  within its attempts, and end delivered or reported, also when the scheduler dies
  between the write, the send and the receipt.
- *Lost, repeated and reordered events* across reconnects and history replays.
- *Lost work must be found* (recovery).  The pass must tell before it ends a session,
  tell once, open recoveries one layer deep, and get to every lost session in the
  end, across crashes and probes that err.
- *Acting on a stale picture* (console).  Selection, detail, filter and rows are
  changed by keys and by refreshes; a cancel takes seconds over a family read once.
- *Files as the only state* (workspaces, processes).  A crash leaves some of them,
  truncated ones too, and another process reads or removes them at any moment.

`PROJECT.json` lists each such hazard at its line, with the properties that would
catch it.

## Modules

```
Lifecycle                     the reducer, a pure function
   |
SessionRow                    the stored row: versions, reduce, gated upsert, rebuild
   |        |        \
Session     |     SessionLedger      one row: calls atomic / calls split over threads
            |        \___ implements Session (INSTANCE Session)
         Recovery             rows of all tasks, pass, faults, recoveries, repairs, boot

LifecycleProofs               lemmas about the reducer and the stored row
   |-> SessionProofs          theorems about Session
   |-> SessionLedgerProofs    theorems about SessionLedger, the implementation of Session
   |-> RecoveryProofs         theorems about Recovery

TaskLedger   ->  TaskLedgerProofs             tasks, maps, threads, tabs, events, crash
Intents      ->  IntentProofs                 control frames and their faults
Workspaces   ->  WorkspacesProofs             descriptions, sync, toggle
Process  \
          -->  RootProofs                     schedulers, stop, socket, pid file
Console  /                                    the terminal UI, list and cancel requests

MC...                         constants of the runs
```

### Lifecycle (lifecycle.rs)

The tuple, every event kind and `Apply`.  `Apply` returns a verdict record with
`tag` in `applied`, `noop`, `stale`, `rejected`, as `apply` returns `Verdict`; the
reason text inside a verdict is left out, because callers only log it.  The
generation and sequence gates come first, then the rule of the event kind, then
`is_legal` on what the rule produced, in the order of the source.  The two
thresholds of the mismatch ladder are the constants `IsolateAfter` and
`TerminateAfter`, both assumed positive and nothing more.

### SessionRow, Session (reconcile.rs, repair.rs, db.rs)

`SessionRow` is what every caller shares: `NextVersion`, `Stored`, `Reduce`
(a missing row reduces from the initial observation), `Upsert` with its
`WHERE` clause on the watermark, and `Rebuild`, which gives a row whose JSON does
not parse the tuple that `reconcile.rs` reconstructs.  `Session` is the
**abstract specification**: one variable, the row, and one action per caller
(`FeedCreated`, `Feed`, `Settle`, `Report`, `Adopt`, `Rebind`, `Corrupt`), each
atomic.  Any action may follow any other, since nothing in the code orders them.

### SessionLedger

The same calls as the threads really make them.  A handler is the sequence of
feeds it makes (`feed_dispatched` is `<<"created", "resource_attach">>`,
`reconcile_dead` is `<<"fail", "agent_gone">>`, ...); a feed goes through the
program counter `check` (`feed_created` looks for the row), `allocate` (first read:
next version), `reduce` (second read), `write` (the upsert).  `feed_delivered`
continues after its first feed only when that was applied, and `adopt` gives up
when the death it recorded was refused.  `Crash` drops all calls and keeps the
row.  Nothing is assumed about the threads: any handler may start at any time the
row it has to have read allows.  `ImplementsSession` states that, with the
identity on the row, every step is an action of `Session` or leaves the row alone.

### TaskLedger (sched.rs, ipc.rs, events.rs, db.rs)

| Variable | Source |
| --- | --- |
| `state` `hop` `bound` `attempt` | columns of `tasks`; `bound` remembers whether `terminal` holds the JSON of the session (as `dispatch` stores it) or a bare handle (as delivery does) |
| `lines` | lines of the ledger file for a task |
| `awaiting` `terminals` `sessions` `running` `clock` `pending_exit` `pool` | the maps of `Sched` |
| `prog` | per thread, the steps its handler has left |
| `up` `replays` | whether boot is over; handles a replay thread was spawned for |
| `tab` `holder` `history` `mail` `said` | external: tabs, who got which payload, the daemon's history, undelivered events |

A thread runs a **program**: a sequence of steps, each one SQL statement, one
critical section, or one call out.  `Do...` actions execute the head of a program
and may prepend more, so a handler that returns early or calls another handler is
modelled by what it prepends.  Events start a program on the pump (`OnTaskInbound`,
`HearReady`, `HearActivity`, `HearOut`, `HearRecycled`, `Reconnect`), ticks start
one on the reaper (`StartTick`), `Submit` and `StartCancel` on a connection,
`StartReplay` on a replay thread.  Statements that follow each other with nothing
another thread could change in between are one step.

Feeds of the session ledger are not repeated here: no guard of these handlers
reads the session row.

Two assumptions about time replace the clocks.  A tick acts only on clocks that
have run out, since otherwise it changes nothing.  And a clock of a task does not
run out while another thread is in the middle of a handler of that very task
(`Expired`) nor, for the handshake, delivery and idle guards, while an event about
it lies unread (`Unheard`): the guards are 15 seconds and more, a step is a few
seconds at worst, and the pump reads within one second.  The dead-terminal sweep and the
busy check have no such margin and get none.

### Intents (reconcile.rs, db.rs, repair.rs)

| Variable | Source |
| --- | --- |
| `state` `attempt` | columns of `intents` |
| `due` | the rows with `next_attempt_at` in the past |
| `queued` | the `intent_exhausted` rows of `faults` about a line, open and acked |
| `job` | per thread, the statement of `open_intent` or `run_intent` it is at |
| `window` `left` | the clock the pump read for its tick, as the rows it finds due; the attempts the tick has left |
| `rearm` | the list `repair retry` made and works through |
| `sends` | history: sends since the row was armed |

A *line* is one op id, `recycle:<task>:g<generation>`.  A closer opens one
(`Open`, `Insert`), claims it itself (`ClaimOwn`) or finds that the pump did
(`ClaimDue`), and makes one attempt: `Send`, then `Receipt`, or `Retry`, or
`Exhaust` with `LookForFault` and `RecordFault`.  The send is the only call out and
may fail; each statement on the database is one step, so that the pump, another
closer, an operator and a crash come in between any two.

Every caller that closes a terminal has settled the task first, so that the fault of
a spent line opens no recovery task, and `repair retry` re-arms such a line only when
the task has an older fault with a recovery, and the new one is acked: the constant
`Recovered` says which lines have one.  One operator re-arms at a time.  A backoff
does not run out while a thread is still in the middle of an attempt of that very
line (`Elapse`): it is a second or more, and after a send the thread has one
statement left.  A statement the database refuses is not modelled.

### Recovery (reconcile.rs, repair.rs, sched.rs, ipc.rs)

| Variable | Source |
| --- | --- |
| `state` `cause` | columns `state` and `failure_of` of `tasks`; `cause` is the fault a recovery answers |
| `row` | the `task_sessions` row of each task, through `SessionRow` |
| `faults` | the rows of `faults`: kind, generation, state, recovery |
| `prog` | per thread, the steps it has left, as in `TaskLedger` |
| `phase` `tracked` | whether boot is over; the keys of `terminals` |
| `tab` `said` | external: what a probe would find; the frames agents have sent |

The composition of the session ledger with the task rows.  The pass is the steps
`List`, then per row `Look` (mirror a result), `Reread`, `Probe`, and what the answer
asks for: `Dead` (fault, `fail`, `agent_gone`), `Mismatch` (the ladder, with its fault
at the limit), a re-attach, a matching check.  It carries the tuple it listed, as
`reconcile_row` does, while other threads move the row.  `record_fault` is a lookup and
an insert, `open_recovery_task` its gates, the insert of the task, the link and the
dispatch.  Each repair is the chain of reads, feeds and calls of its command.  `Crash`
drops programs and maps; boot runs the pass and then the reaper.  A feed is one step
here, which `FeedsSerialise` of `SessionLedger` allows; hops, clocks and replays are
left to `TaskLedger` and the frames of a closing tab to `Intents`.

### Console (tui.rs, ipc.rs, db.rs)

`tasks`, `alarms`, `enabled` and `jobs` are the scheduler behind the socket; `focus`,
`cursor`, `filter`, `search`, `snap`, `chosen` and `detail` the monitor, whose thread is
at `pc`.  The queries (`list_page`, `edges`, `family`) and what the monitor makes of
their answers (`graph_task_ids`, `role_body`, the cycles of the filter keys, the clamp of
the cursors) are operators; `Pull`, `Sync` and one action per key are the loop.  A pull
asks several requests, each of which may fail and then leaves its part empty.  A cancel
is a job of the scheduler, over a family read once, for which the monitor waits or
stops waiting.  The queries that are lists are recursive functions over an interval
(`Keep`) and the family is the least set that holds its root and the children of its
elements (`HoldsChildren`), which is what SQL's recursive `UNION` computes.

### Workspaces (template.rs, sync.rs, ipc.rs)

`layer` holds the descriptions of the root and the schedule, `file`, `word` and `on` the
files of each workspace: absent, truncated, written by a sync, or somebody else's.
`Effective` is the merge of the layers and `Normalize` the reading of an edge, step by
step (`Resolve`, `Walk`).  A sync
loads the tree once and goes from workspace to workspace; a new one gets four files, each
by `OpenPart` (truncate) and `FillPart`, and a crash may come before any of these.
`toggle_swarm` is a read, a truncation and a write of `config.toml`.  The owner edits
layers and overlays, removes directories, and takes away the packages a bootstrap needs.

### Process (main.rs, daemon.rs, ipc.rs, root.rs)

`at` says how far each start of the scheduler is, from `ensure` (daemons) through the pid
file, the look at the socket, its removal, the ledger, the boot pass and the bind to
`serve`, and from there through the two ways out (`leave` when the flag was seen, `bail`
on an error, which skips the daemons).  `sock` is who bound the socket file that is there,
`pid` whose number the pid file holds, `daemon` who started the daemon of a workspace.
The stop command reads the pid file, signals, waits, kills, and removes both files.
Signals are a flag once `serve` has installed its handler, and death before.  `stolen`
remembers whether somebody removed the socket of a serving process.

## How to run

```
tlc -workers 2 -config MCSession.cfg MCSession.tla
tlapm SessionProofs.tla
```

## Runs and what they show

| Run | Shows | Bounds |
| --- | --- | --- |
| `session` | For one row under every feed, settle, frame and repair, with a stored tuple that may become unreadable at any point: the tuple is legal (`LegalRow`) and what is rebuilt does not rewind the watermark (`WatermarkNeverRewinds`); the ladder ends at its limit with the generation dead (`LadderTerminates`); a death can always be recorded (`DeathRecordable`); no history leaves a row that refuses its task's result (`MirrorAccepted`); ended generations and settled results stay so, until evidence that says otherwise by its kind (`DeadStaysDead`, `SettledStaysSettled`) | 2 generations, sequences to 9, ladder 1/3 |
| `ledger` | Two threads, the handlers a dispatched session meets, calls split, crashes: the split row implements `Session` (`ImplementsSession`) | 1 generation, sequences to 4 |
| `ledger_reports` | One writer is the agent, with versions of its own, and repairs open generations: feeds still serialise (`FeedsSerialise`) and the watermark advances (`WatermarkAdvances`) | 2 generations, sequences to 4 |
| `tasks` | The pump alone, handlers uninterrupted, with failing spawns and sends, lost answers, lost events, dying tabs, unbounded replay and one crash: no owed task is forgotten (`NoOrphan`), one result line (`OneResult`), state and ledger agree (`LedgerAgrees`), one tab works for one task (`TabServesOne`), settled stays settled (`SettledStays`) | 2 tasks (each from outside or a replay of the other), 2 tabs, 1 crash; tasks and tabs symmetric |
| `tasks_threads` | Pump, reap loop, replay thread and a submitting and cancelling connection, in any interleaving of their steps: a busy hop has its payload (`BusyHasPayload`) | 1 task, 1 tab, 1 tick |
| `intents` | Two closers, the pump, an operator, a crash: one thread attempts a line and it is claimed meanwhile (`OneSender`); no more sends than attempts between two armings (`WithinBudget`); a spent line is in the fault queue, exactly once (`SpentIsReported`); a delivered line is never armed again (`ReceiptIsFinal`); a pending line is delivered or given up unless the scheduler dies first, and then the next life does it (`PendingSettles`) | 2 lines, 2 closers, 3 attempts, 1 attempt per tick, 2 re-arms, 1 crash |
| `intents_crash` | A violation; see below | 1 line, 1 crash |
| `recovery` | Reap loop, pump and repairs next to each other: recoveries stay one layer deep (`SingleLayer`), no lost generation is queued twice (`FaultOnce`), and the pass ends no lost session before its loss is in the queue (`LossIsQueued`), wherever a crash falls | 1 dispatched task, 2 fresh ids, 2 generations, ladder 1/2, one of a frame, a repair, a detachment or a crash; probes, spawns and closes that fail |
| `recovery_ends` | Liveness: the session of a tab that is gone ends, whatever repair, frame or crash comes in between (`LostSessionEnds`) | the same with 1 fresh id |
| `console` | Whatever moved the selection, the detail is that of the selected row (`DetailFollows`); the rows are those of the filter in the title (`RowsMatchFilter`); a cancel ends the family it read, however it moved meanwhile (`CancelReachesFamily`); the screen catches up after any failures (`ViewCatchesUp`) | a role and its child, 2 tasks, pages of 1 row, 2 keys or failed requests besides tab |
| `workspaces` | A config a sync wrote stands for a complete workspace (`Complete`); a sync that succeeds reports what is half made (`NothingHalfMade`); a snapshot means the same when it is read back (`SnapshotRoundTrips`) | a workspace and one inside it, 3 edits or toggles, 2 crashes |
| `process` | Two schedulers serve only after somebody removed the socket of one that serves (`OneServing`); no file a dead process left keeps a lone starter from serving (`LoneStarterServes`) | 3 starts, 1 workspace, 1 crash, failure or Ctrl-C |

**Fairness.**  `Session`, `SessionLedger`, `TaskLedger` and `Workspaces` are specified by
safety alone.  `Intents` assumes weak fairness of each thread's next statement, of the
pump's tick and of the clock: a thread that has a statement to execute executes it, the
reap loop in `ipc.rs` is a `loop` that runs a pass, and with it the pump, every tick, and a
backoff is a number of seconds.  `Recovery` assumes the same of the reap loop and of boot,
and that a probe of a tab which is made again and again is answered at some time (strong
fairness per task, since the pass asks once per tick).  `Console` assumes that its one
thread runs, that two seconds pass again and again (strong fairness, since an open search
line or a waiting cancel takes the refresh away for a while), and that the scheduler works
on a cancel it accepted.  `Process` assumes that a process which can take its next step
takes it, and that a stop that was begun goes on.  Nothing is assumed of operators and
their keys, of agents, of closers that have not begun, of the answer to a send, nor that
there is no crash.

**Deadlock** is not checked where the system comes to rest by itself: `TaskLedger` and
`Intents` when everything within the bounds is settled, `Console` when its bounded keys and
rows are used up and the operator leaves the search line open, `Process` when every start
is over.

**Why the bounds are enough.**  The ladder 1/3 has a step before isolation, one
between isolation and termination, and the limit; the code's own numbers only add
steps of the kind already there.  Two generations show a repair that opens one and
every late event of the generation before it; nine sequences let a row climb the
whole ladder, settle, die and still receive an event.  In `ledger` every pair of
handlers meets inside every pair of steps, with at least one sequence to spare
after both wrote.  For tasks, two of them in two tabs exercise every
sharing of a tab and every replay; a crash may fall between any two steps.  With several threads the
state space grows with the product of their programs, so `tasks_threads` has one
task and one tab: what it looks for, a race about one task, needs no second one.
For intents, three attempts are the code's own number; one attempt per tick makes the
second line wait in every tick; two re-arms let a line be spent, acked and spent again.
In `recovery` two fresh ids are a recovery and what would be the recovery of that one;
the single event falls anywhere in the pass, in boot and in the recovery it opened, next
to tabs that die and probes, spawns and closes that fail without a bound.
In `console` one page is shorter than the rows there are, so that every clamp and page
turn acts; two events are a key and what disturbs it.  In `workspaces` two directories,
one inside the other, give every relation of layers, and three edits are a toggle under a
sync between two changes of the owner.  In `process` the third start is the one that meets
what the first two and a stop left.  Every disjunct of every next-state relation fires in
some passing run.

`NoOrphan` and `BusyHasPayload` exempt tasks that a restart adopted.  The exemption
is where the code's choice is visible: `reap_previous_run` marks a task busy when
its tab is open, whether or not its payload had been sent; see below.
`LedgerAgrees` is about runs without a crash, because the row and the file are
two writes.  `SpentIsReported` likewise: a crash between the two leaves a spent line
out of the queue, where only a listing of the rows shows it.  `LossIsQueued` is about
dispatched work and not about recoveries, since `repair retry` may dispatch one that
ended.  `OneServing` is about the time until somebody removes the socket of a serving
scheduler, which the code does not prevent; see below.  `RowsMatchFilter` does not look at
the role while an edge is chosen.

`PROJECT.json` pairs every property of a passing run with a mutant: a small wrong
change to a modelled definition under which TLC finds the property violated.  The
`Mut...` operators of the modules are these.

## What is proved

`LifecycleProofs` has the lemmas about the reducer and the stored row; `RootProofs` has
the theorems about `Process` and `Console`, two specifications that share no variable;
every other `...Proofs` module has the theorems about the module it is named for.  They
hold for every value of the thresholds, bounds and sets of kinds, so in particular for the
thresholds of the code and an unbounded number of generations and sequences; for every
number of tasks, tabs, lines, threads, attempts, re-arms and crashes; for every tree,
every set of descriptions and any number of edits; for any number of starts; and for every
height of the screen, length of a page, and number of keys, cancels and failed requests.

Every invariant a run checks is stated by a theorem, and so is every property of steps and
the refinement; what is left to TLC is liveness.

| Module | Theorem | States | Assumes |
| --- | --- | --- | --- |
| `SessionProofs` | `TypeCorrect` | `[]TypeOK` | |
| | `RowIsLegal` | `[]LegalRow`, corrupt rows included | |
| | `WatermarkIsMonotone` | `WatermarkNeverRewinds`, corrupt rows included | |
| | `DeadAndGoneAgree` | `[]DeadIffGone` | `"created" \notin Feeds` |
| | `DeathAlwaysRecordable` | `[]DeathRecordable` | the same |
| | `MirrorAlwaysAccepted` | `[]MirrorAccepted` | the same |
| | `DeathIsFinal` | `DeadStaysDead`, steps that lose the tuple excepted | the same |
| | `ResultIsFinal` | `SettledStaysSettled` | the same |
| | `LadderIsBounded` | `LadderTerminates`: a step keeps the counter within the ladder, corrupt rows excepted | |
| | `LadderHolds` | the counter is always within the ladder | `MayCorrupt = FALSE` |
| `SessionLedgerProofs` | `CallsTrackTheRow` | `[]LedgerInv`, the inductive invariant of the split calls | |
| | `ConcurrentRowIsLegal` | `[]LegalRow` | |
| | `NoLostUpdate` | `[]FeedsSerialise` | |
| | `WatermarkOnlyAdvances` | `WatermarkAdvances` | |
| | `FeedsImplementSession` | `ImplementsSession`, the refinement | `FeedsAlone` |
| `TaskLedgerProofs` | `TaskTypes` | `[]TypeOK` | |
| | `BusyIsDelivered` | `[]BusyHasPayload` | |
| | `SettledTasksStay` | `SettledStays` | `PumpAlone` |
| | `ResultsToldOnce` | `[]OneResult` | `PumpAlone` |
| | `LedgerTellsTheRow` | `[]LedgerAgrees` | `PumpAlone` |
| | `TabsServeOneTask` | `[]TabServesOne` | `PumpAlone` |
| | `NoTaskForgotten` | `[]NoOrphan` | `PumpAlone`, `Doubtless` |
| `IntentProofs` | `IntentTypes` | `[]TypeOK` | |
| | `OneSenderAlways` | `[]OneSender` | |
| | `BudgetHolds` | `[]WithinBudget` | |
| | `ReceiptStays` | `ReceiptIsFinal` | |
| | `SpentLinesAreReported` | `[]SpentIsReported` | `MaxAttempts > 1` |
| `RecoveryProofs` | `RecoveryTypes` | `[]TypeOK` | |
| | `RecoveriesStayOneLayer` | `[]SingleLayer` | |
| | `FaultsQueuedOnce` | `[]FaultOnce` | |
| | `NoSilentLoss` | `LossIsQueued` | |
| `WorkspacesProofs` | `WorkspaceTypes` | `[]TypeOK` | |
| | `SyncsComplete` | `[]Complete` | |
| | `SyncsLeaveNoHalf` | `[]NothingHalfMade` | |
| | `SnapshotsKeepMeaning` | `[]SnapshotRoundTrips` | |
| `RootProofs` | `OneServes` | `[]OneServing` | |
| | `MonitorTypes` | `[]TypeOK` of `Console` | |
| | `DetailIsOfSelection` | `[]DetailFollows` | |
| | `RowsAreFiltered` | `[]RowsMatchFilter` | |
| | `CancelsReach` | `[]CancelReachesFamily` | |
| | `PanelsAreOfTasks` | the graph lists a task once, and both panels list rows of the table: `[]PanelsListTasks` | |
| | `PagesCover` | whatever task a filter asks for, some page shows it (about `ListPage`, in any state) | `PageSize =< ListCap` |

**What is assumed.**  The modules that declare constants name what they assume of them;
beyond types that is

- finiteness of the set of tasks (`TaskLedger`, `Recovery`: a table of a database);
- for `Workspaces`, that `Dirs` is a sequence of different directories, that directories
  and edges are finite paths, and that no step of a directory is `..`: the names come from
  `read_dir`, which never yields it (`template.rs:221`).  Edges may have any steps;
- for `Console`, that the tree has a root and lists each path once, that the tasks which
  are submitted or handed on name paths of the tree, and that no path is `"any"`, which
  stands for the `None` of the filter's `Option`.  A page and an answer have at least one
  row (`limit.clamp(1, 500)`, `db.rs:661`).

The theorems add:

- `"created" \notin Feeds`: `created` is only fed for a missing row, which is what
  `feed_created` checks.  When two callers race through that check the hypothesis fails, as
  told below.
- `MayCorrupt = FALSE`, for `LadderHolds` only, because a rebuilt row is live again and
  keeps its mismatch counter.
- `FeedsAlone`: no report frames and no adopt or rebind.  These carry versions of their
  own, and then a write may put back what another call replaced (see the disagreements).
  It is the setting of the run `ledger`; the other four theorems of the module do without.
- `PumpAlone`: the pump is the only thread, as in the run `tasks`.  With other
  threads next to it several of them are false (the `set_state` after a cancel, the two
  retries of one tick), as told below.  What the pump hears, in which order, what fails
  and when it crashes is not restricted.
- `Doubtless`: no answer to a delivery is lost, or sessions tell neither of busy hops nor
  of exits that are pending.  Without it `NoOrphan` is false, see below; the run `tasks` is
  inside it.
- `PageSize =< ListCap`, for `PagesCover` only: an answer is cut at 500 rows and a page is
  as long as the panel is high, so that it takes a terminal of more than 800 lines to make
  this false, and then the rows between the two are on no page.
- `MaxAttempts > 1`: the code has three (`reconcile.rs:845`).  With one attempt TLC finds a
  spent line that is reported twice.

**The argument.**  Each inductive invariant named here was an invariant of a TLC run, on
the instance of the module's run or a smaller one, before it was proved.

*Session.*  Legality is not inductive by itself: `apply` checks `is_legal` on
most of its results, but one branch of the mismatch ladder returns without it, and
there legality follows from the type and legality of the tuple before.  So the
inductive invariant is `RowInv`, a row that is typed *and* legal.  The lemmas of
`LifecycleProofs` go through the rules of `apply` one event kind at a time and show
that each takes a typed legal observation to a typed legal one with the version it
was given.  `SessionProofs` has one step per action of `Session`.  `DeadIffGone` and
`LadderTerminates` are inductive relative to `RowInv`, and the last theorems use
them as lemmas: whether a death or a result is accepted depends on the agreement of
the generation flag with the agent, and whether a settled result is kept (`Retains`) on
which kinds may override it.

*SessionLedger.*  A call holds what it read while others write.  `LedgerInv` says of each
position of a call what still binds the two: the version it allocated is ahead of the row
it read; and if its write can still pass the gate, then the row is the one it reduced
against, so that the write is what the reducer makes of the present row.  That is
the whole of `FeedsSerialise`.  For the refinement `FeedInv` adds that the program of
a feed has only the kinds its handler feeds, and each write is mapped to the action of
`Session` for its kind, every other step to a stutter.

*TaskLedger.*  `TaskInv` types rows, maps, world and the steps of every program, by
what a step may be about: a task with a row, a delivered task, a tab that was spawned.
It holds for all threads, and with it `BusyHasPayload`: the adoption
aside, each step that sets a hop busy carries the name of a delivered task.  The rest is about the pump, in five layers.
`PumpShape`: a program is one handler at work, serving or ending, in an order that tells
what may stand behind what.  `PumpState`: what its steps take for granted of the rows, for
instance that a task is owed when it is served, and that nothing unbinds a task which
is not settled.  `PumpBook`: a record stands right behind the step that settles its row,
so a row that is not settled has no line, and a settled one has its line or the record is
next.  `PumpWatch`: an owed task is running at the tab its row names, under a clock, or a
step to come looks at it (`Guarded`).  `PumpTab`: a ready is heard once; its tab is parked,
handed on by the present program, or tracked by one task; and a task that was delivered is
tracked at the tab its row names.  A restart is the hard case of the last: boot rebuilds the
maps from rows, one task at a time, and until it is over the argument is about the rows
that the remaining steps name (`Boots`, `BootKeepsTabs`).

*Intents.*  That a thread which is past its claim
still owns the line rests on no column: the row does not say who claimed it.  It
follows from the claim being the only way into an attempt and every way out of
`claimed` being a step of the claimer.  `IntentInv` therefore adds what the
statements rely on without reading it: a line that is pending has an attempt left, a
thread about to send has counted the attempt and not yet spent it, one about to
schedule a retry was not at its last attempt, and a line an operator listed as spent
is still spent, because nothing but that operator leaves that state.  `ReceiptIsFinal` then
needs only the last of these.  `ReportInv` counts the fault of a line through the two
statements that look for it and insert it: with more than one attempt the operator cannot
re-arm the line and have it spent again before the reporter has inserted.

*Recovery.*  A recovery that is inserted and not yet linked is known to one thread (`Own`):
no row, fault, frame or step of another thread names it, which is why no loss of it can be
looked at before it is marked as a recovery.  Each kind of fault is recorded by one running
thread (`KindsOf`; boot and reap loop never run together), so nothing comes between the
lookup and the insert of the same fault.  And the step that queues a loss stands before
the two that fail the session (`LossInv`), wherever a crash cuts the program.

*Workspaces.*  `Complete` alone is not inductive: a write into a workspace could break
it if the config were there already, and a toggle could put back a config it read before
the rest existed.  `SyncInv` says why neither happens.  The workspace a sync is writing had
no config when it was visited, nobody but the sync makes one that is `whole`, and the parts
before the present one are readable (`Writing`); a toggle that holds the text of a complete
workspace is aimed at one that is complete and stays so (`Holding`).  The two need each
other: a toggle that held such a text could finish the workspace under the sync.
`Visited` adds what a sync left behind it in each workspace it is done with.

For `SnapshotRoundTrips` the invariant is `Snapshots`: the edges the sync holds, and those
it wrote into a snapshot that is still whole, are `Plain`, without a step up, and a plain
edge is its own normal form.  That resolving any edge of a plain workspace leaves a plain
path is an induction over the edge (`ResolveSteps`, `NormalizeFacts`); a step up at the
root is the case that could go wrong, and there `parts.pop()` leaves the empty path.

*Process.*  That at most one serves follows from a stronger fact: until a socket was
stolen, the socket file is that of whoever serves (`Bound`), because a bind needs the file
gone and the only steps that remove it are those of its owner or are a theft.  The stop
command needs `Stopped`, that the process it aims at is gone when it comes to the files,
and `Begun`, that a pid is written only by a process that was started, so that it cannot
start after it was stopped.  `ProcessInv` is these with the types, proved action by action.

*Console.*  None of the invariants is inductive: they speak of the states between two
pulls, and say nothing of what a pull finds.  `ConsoleInv` adds it.  `Screen`: the rows
match the filter unless a pull is due, because every key that changes the filter asks for
one; a task keeps its addressees, so that rows which matched still do when tasks move.
`Followed`: as long as no request failed the detail is the one asked for, and when the
thread is at rest the one asked for is the selected one; the cursor is a position, so the
step that clamps it must be the one that compares.  `Snapshot`: the rows are of tasks of the
table, no more than there are, and no active task twice.  `JobRead` is about a cancel at
work: what it read is closed under handing on as far as the table went at that time; every
row of it is still to come or settled; and a row it will skip, being read as over, is over
still.  The cancel does not look at the row again when it gets there; that this is enough
is because no step of `Console` reopens a cancelled or closed task.  That what a cancel read is closed under
handing on follows from `Family` being the least such set.

Lists are where the work is: what `Keep`, `Reverse`, `FlattenSeq`, `SubSeq` and the pages
made from them contain, in which order and how often (`KeepRow`, `FlattenRow`, `PageOf`).

*Recursion.*  Both modules need what a function defined by recursion over `0..n` computes.
`IntervalRecursion` says that such a definition has a solution and `IntervalInduction`
is induction over an interval as a fact about a set; both follow from the well-foundedness
of `<` on the naturals by way of its least elements (`Least`), without an operator as a
parameter.  `RootProofs` and `WorkspacesProofs` each have these few lemmas, because they
prove about specifications whose names clash.

**Only model-checked**: liveness, which rests on fairness and `ENABLED` and is out of the
proof system's reach: `LostSessionEnds`, `PendingSettles`, `LoneStarterServes`,
`ViewCatchesUp`, and the violation of `ClaimSettles`.  The pump next to the other threads
is checked for `BusyHasPayload` and proved for that and for the types.

## Where the code and its words disagree

`intents_crash` is a run that expects a violation, with the line quoted in
`PROJECT.json`: a scheduler that dies after a claim and before the receipt leaves
the row claimed.  Both claims take pending rows only, a re-arm skips claimed ones
and boot does not look, so that nothing "re-sends" (`reconcile.rs:824`, `db.rs:450`).

The rest was seen while modelling; a property that meets one of these says so, and is
stated for what does hold.

*Session ledger*

- A matching check is dropped as a no-op before it resets the counter of "consecutive"
  mismatches (`lifecycle.rs:153`, `lifecycle.rs:701`): mismatches that were never
  consecutive add up to a termination.
- An agent frame reduced before a death and stored after it, with a sequence ahead of
  the row, overwrites the death (`reconcile.rs:248` against `reconcile.rs:8`).  Feeds
  cannot do this to each other, because they allocate their sequences from the row.
- `sched.rs:811` calls the resource-close event legal in both branches; the reducer
  rejects it for a cancelled session and for one that failed after it accepted.
- A `rebind` between the read and the write of an `adopt` lets the adoption replace
  a live generation.
- `feed_created` looks for the row (`reconcile.rs:435`), then allocates a version from
  a second read and reduces against a third.  When the other of its two callers seeds
  the row and marks it ready in between, `Created` takes a ready session back to
  booting.  The next ready report repairs it.

*Task ledger*

- `dispatch` ends with an unconditional `set_state(Running)` (`sched.rs:317`): a cancel
  on another connection that came while the tab was spawned is overwritten, although
  `sched.rs:791` says it "settles the result and proceeds to exit".
- After a crash, a task adopted before its payload was sent is busy without a
  payload; `busy` hops are never timed out, so only the death of the tab ends it.
  A pending task that is adopted is watched by nothing.
- A failed answer to a delivery whose payload did arrive, followed by a session
  that idles with a pending exit, leaves the task to its plugin alone.
- The grace of the dead-terminal sweep runs from the delivery and not from the exit
  (`sched.rs:46`, `ipc.rs:238`): a session that worked past it, sent its result and
  exited may be failed by a probe before the pump reads the result, which is dropped.
- A sweep and a busy check of one tick may both retry one task.
- A delivery whose answer is lost leaves its task owed with the hop "ready", so that the
  ready of an untracked tab moves it there; a ready of its first tab that is still unread is
  then given to another task, and two payloads went to one tab.  TLC finds it with three
  tasks and three tabs, in 39 steps.
  `TabServesOne` therefore speaks of what rows record as delivered.
- A replay served from the idle pool whose answer was lost, and whose session then reports
  busy, is pending with a busy hop and without a clock or a tab in its row: no watchdog looks
  at it.  TLC finds it when sessions report busy, with three tasks and two tabs; `Doubtless`
  excludes it, and the sessions of the run `tasks` do not report busy.

*Intents*

- After a re-arm that is spent again, the old acked fault keeps the new exhaustion out
  of the queue.
- Two operators who retry at once may re-arm a line one of them already had delivered.
- A receipt the database refuses is reported as a retry and leaves the row claimed.

*Recovery*

- `reconcile.rs:1358` says the probe "must never relabel a delivered hop as a lost
  generation".  The pass mirrors a result it sees and then goes on with the tuple it
  read; a handoff that settles the task between that read and the death of its tab is
  followed by `fail`, which the reducer lets override a done outcome.
- A retry takes the latest fault that is not acked.  For a settled task it opens no
  recovery, so that after a crash between the insert of a fault and its recovery,
  followed by a boot that settles the task, "`repair retry` can open it later"
  (`reconcile.rs:642`) is no longer so; nor can it re-arm a spent recycle of such a task.
- A retry dispatches the recovery it opens twice, once in `open_recovery_task` and once
  itself, and dispatches one that runs or has ended again; the second `set_state`
  takes a settled recovery back to running.
- A retry next to the pass may open two recoveries of one fault; the second link
  replaces the first.  A link also takes back the ack an operator gave meanwhile.
- A crash between the insert of a recovery and its link leaves a task that nothing marks
  as a recovery, so that its own loss opens another layer.
- A crash between the feed of an agent's `fail` and its fault loses the fault: the
  session is over, and the pass lists open rows only.  The same holds at the limit of the
  ladder, where the row is written before its fault (`reconcile_mismatch`).
- A late or repeated fault frame is recorded at the generation the row has by then.
- A recovery opened at boot whose spawn is refused is failed by the reaper of that same
  boot, before any `repair retry` could pick it up (`ipc.rs:88`, `reconcile.rs:764`).

*Console*

- `t` asks for the opposite of `swarm_enabled`, a field no status answer has; it can
  disable the swarm and never enable it again.
- A refresh between the last drawing and a key moves rows under the selection, and `c`
  cancels another task than the one that was highlighted.
- With a role and an edge chosen, the request sends the edge only, and rows break the
  role in the title.  A page past the end of a list that became shorter is empty.
- A failed detail request is not repeated while the selection stays.
- The monitor stops waiting after three seconds, a cancel may take five per task; a second
  `c` then writes the ledger lines of the family again.
- A child handed on after the family was read escapes the cancel; a row that was done or
  failed is overwritten with cancelled.

*Workspaces*

- A crash inside the write of a snapshot leaves an empty file, which `load_tree` does not
  parse: every later sync and dispatch fails until it is repaired by hand.  If the owner
  had written an overlay there, it is lost: where `config.toml` is missing the bootstrap
  overwrites it, against `TEMPLATE.md:9` ("the scheduler never rewrites that file").
- A toggle aimed at a half-made workspace creates its `config.toml`, and no sync
  bootstraps that workspace again; the sync reports it as a gap.
- A toggle of a `[swarm]` table without an `enabled` line answers ok and changes nothing.
- Removing the directory an edge of a snapshot leads to makes `load_tree` fail, since the
  snapshot keeps the edge.
- `TEMPLATE.md:40` speaks of a union over the layers; the edges of intermediate
  ancestors are not in it (`template.rs`).
- `ipc.rs:872` says that disabling "stops new session creation"; dispatch has no such gate,
  only the submission over the socket has.

*Processes*

- `root.rs:10` says "The scheduler remains single-instance at the root socket".  Nothing
  locks it.  TLC finds, without any crash: one scheduler serves in a pane; a detached
  second one writes the pid file on its way to being refused; `stop` reads that file,
  stops the second and removes the socket of the first; a third start finds no socket and
  serves too.  Other ways are two starters that both found a stale socket, and a stale
  pid file with a `stop`.  `OneServing` states what is left.
- A detached starter that is refused has overwritten the pid file of the serving one, and
  removes it on its way out: `stop` no longer finds the one that serves (`main.rs:205`).
- A second starter between its look and its bind runs the boot pass over the ledger of
  the first.
- A start that overlaps a shutdown counts the daemons of the leaving scheduler as its own
  and loses them.  When `serve` fails, `stop_all` is skipped and the daemons run on.

## What is not modelled, and why

- `repair inspect`, status, tail, tree and attach: views that change nothing.  The
  operator revision: a counter nothing reads back.
- The feeds an attempt of a control frame makes to the session row: `Intents` and
  `SessionLedger` each model their half and are not composed.
- In `Recovery` a handler of another thread meets the pass between two feeds and not
  within one; `SessionLedger` looks into a feed, for one row.
- The parent role a recovery is addressed to, its payload, and the replay a recycle
  orders.  Stub agents of the idle pool; `force_kill`; alerts.
- Several workspaces.  Their pumps are threads like the one pump modelled, and meet
  in the same maps; the interleavings of two threads are those of the other
  threads in `tasks_threads`.
- Statements SQLite refuses, and a disk that is full.
- `init` and `skill` write files once and nothing else happens meanwhile; the root's own
  `config.toml`; the guard against a nested root; the walk over Orca's tree.
- Two syncs at once: each may overwrite a workspace the other finished.
- Rendering, parsing, logging, terminal and HTTP details.  Backends enter as the
  choice of what a call may answer.

## Plan

Done: the session ledger with its refinement, the task ledger with its threads, faults and
crash, the intents, recovery, the console with families and cancels, the workspaces and the
processes; and proofs of every safety property the runs check.

Left, most important first.

1. `TaskLedgerProofs`: the properties of the pump with the reap loop next to it, stated for
   what holds then; `PumpShape` becomes a shape per thread, and `Expired` the reason why two
   programs are seldom about one task.
2. The feeds of an attempt in `Intents` composed with the session row.
3. The idle pool's stub agents, and two workspaces that hand work to each other.
