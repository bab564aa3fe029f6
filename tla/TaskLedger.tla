----------------------------- MODULE TaskLedger -----------------------------
(***************************************************************************)
(* The scheduler of one workspace: the task rows, the maps it keeps in     *)
(* memory, and the threads that run its handlers.  The event pump hears    *)
(* the sessions, the reap loop watches them, a connection submits and      *)
(* cancels, and a replay thread repeats ready events from the history of   *)
(* the workspace daemon.                                                   *)
(*                                                                         *)
(* A thread runs a program: the sequence of steps its handler has left.  A *)
(* step is one statement on the database, one critical section over the    *)
(* maps, or one call to a backend or a daemon; a step may prepend more.    *)
(* Statements that follow each other without a call out or a read of what  *)
(* another thread writes are one step.  Feeds of the session ledger are    *)
(* left to SessionLedger, and nothing here depends on their verdicts.      *)
(*                                                                         *)
(* External, as the scheduler sees them: the tabs and the sessions in      *)
(* them, and the loopback channel.  A clock that a tick reads has always   *)
(* run out: a tick that finds it running changes nothing.                  *)
(***************************************************************************)
EXTENDS Naturals, Sequences, FiniteSets, SequencesExt

CONSTANTS
    Task,          \* task ids
    Handle,        \* terminal handles, each for one tab
    NoHandle,
    Blob,          \* the JSON text of a session where a handle is expected
    Threads,       \* the threads that run, a subset of AllThreads
    MaxAttempts,   \* retry.max_attempts, or MAX_ATTEMPTS when not configured
    Speech,        \* the kinds of event sessions emit, a subset of AllSpeech
    Faults,        \* what may go wrong outside, a subset of AllFaults
    Orders,        \* what connections ask for, a subset of AllOrders
    MaxTicks,      \* bound: how often the reap loop ticks
    MaxCrashes     \* bound: how often the scheduler dies and restarts

AllThreads == {"pump", "reaper", "conn", "replay"}
AllSpeech == {"ready", "busy", "idle", "idle_pending_exit", "out", "out_failed",
              "recycled"}

\* A spawn fails; a send fails, or only its answer does; events are lost.
AllFaults == {"spawn", "send", "answer", "mail"}

AllOrders == {"submit", "cancel"}

ASSUME TaskAssumption ==
    /\ IsFiniteSet(Task)
    /\ NoHandle \notin Handle /\ Blob \notin Handle /\ NoHandle # Blob
    /\ Threads \subseteq AllThreads
    /\ Speech \subseteq AllSpeech
    /\ MaxAttempts \in Nat /\ MaxTicks \in Nat /\ MaxCrashes \in Nat
    /\ Orders \subseteq AllOrders
    /\ Faults \subseteq AllFaults

VARIABLES
    state,         \* tasks.state; "absent" before the row exists
    hop,           \* tasks.hop_state
    bound,         \* tasks.terminal: the handle, and whether it is JSON
    attempt,       \* tasks.attempt
    lines,         \* the ledger lines appended for a task
    awaiting,      \* awaiting_ready
    terminals,     \* terminals
    sessions,      \* sessions, by the handle of the spawned tab
    running,       \* the keys of running_since
    clock,         \* hop_since, "" for no entry
    pending_exit,  \* idle_pending_exit
    pool,          \* the idle terminals
    replays,       \* the handles replay threads were spawned for
    prog,          \* the program of each thread
    up,            \* boot is over: the pump, the reap loop and the listener run
    ticks, crashes,
    tab,           \* "unused", "open" or "gone"
    holder,        \* the tab a task's payload was delivered for
    history,       \* handles whose ready is in the daemon's history
    mail,          \* events the pump has not read yet
    said           \* what sessions have emitted: each event once

db == <<state, hop, bound, attempt, lines>>
memory == <<awaiting, terminals, sessions, running, clock, pending_exit, pool>>
agents == <<tab, holder, history, mail, said>>
process == <<replays, up, ticks, crashes>>
vars == <<db, memory, agents, process, prog>>

Result == {"done", "failed", "cancelled"}
Settled == Result \cup {"closed"}
Owed == {"pending", "running"}
HopState == {"", "dispatched", "ready", "busy", "idle"}

Unbound == [handle |-> NoHandle, json |-> FALSE]

\* What a reader of tasks.terminal takes for the handle.
Text(terminal) == IF terminal.json THEN Blob ELSE terminal.handle

MayReplay == MaxAttempts = 0

-----------------------------------------------------------------------------
(***************************************************************************)
(* The steps of a program.                                                 *)
(***************************************************************************)

\* dispatch, from a message, a submission or a retry.
Reserve(t, origin) == [op |-> "reserve", task |-> t, origin |-> origin]
PopIdle(t, origin) == [op |-> "pop_idle", task |-> t, origin |-> origin]
Spawn(t, origin) == [op |-> "spawn", task |-> t, origin |-> origin]
Bind(t, h) == [op |-> "bind", task |-> t, handle |-> h]
Replay(h) == [op |-> "replay", handle |-> h]

\* on_ready and deliver_to_terminal.
Scan(h) == [op |-> "scan", handle |-> h]
Match(h, owed, fresh) ==
    [op |-> "match", handle |-> h, owed |-> owed, fresh |-> fresh]
Claim(t, h) == [op |-> "claim", task |-> t, handle |-> h]
Send(t, h, origin) ==
    [op |-> "send", task |-> t, handle |-> h, origin |-> origin]
Land(t, h) == [op |-> "land", task |-> t, handle |-> h]

\* Results and the end of a tab.
SetState(t, s) == [op |-> "set_state", task |-> t, state |-> s]
Record(t, s) == [op |-> "record", task |-> t, state |-> s]
Unbind(t) == [op |-> "unbind", task |-> t]
CloseTab(t, h) == [op |-> "close_tab", task |-> t, handle |-> h]
EarlyExit(t) == [op |-> "early_exit", task |-> t]
Retry(t, n) == [op |-> "retry", task |-> t, attempt |-> n]
SetHop(t, s, pending) ==
    [op |-> "set_hop", task |-> t, state |-> s, pending |-> pending]

\* One tick of the reap loop, and the tasks it found.
Tick(part) == [op |-> part]
Probe(t, h, n) == [op |-> "probe", task |-> t, handle |-> h, attempt |-> n]
BusyProbe(t, h) == [op |-> "busy_probe", task |-> t, handle |-> h]
Handshake(t) == [op |-> "handshake", task |-> t]
Stalled(t) == [op |-> "stalled", task |-> t]
Reap(t, h) == [op |-> "reap", task |-> t, handle |-> h]

Settle(t, s) == <<SetState(t, s), Record(t, s), Unbind(t)>>

\* on_task_inbound fails a task whose dispatch returned an error.
OnError(t, origin) == IF origin = "inbound" THEN <<EarlyExit(t)>> ELSE <<>>

Idle(w) == w \in Threads /\ up /\ prog[w] = <<>>

Runs(w, op) == prog[w] # <<>> /\ Head(prog[w]).op = op

Begin(w, steps) == prog' = [prog EXCEPT ![w] = steps]

\* The step is over and `steps` come next.
Then(w, steps) == prog' = [prog EXCEPT ![w] = steps \o Tail(@)]

\* The step found the tasks of S, in an order of its own.
ThenEach(w, S, Step(_)) ==
    \E order \in SetToSeqs(S) :
      Then(w, [i \in DOMAIN order |-> Step(order[i])])

About(x, t) == "task" \in DOMAIN x /\ x.task = t

\* The guards of the reap loop run 15 seconds and more, a step of a handler
\* at most a few: no clock runs out within a handler of its task.
Expired(t) ==
    \A w \in AllThreads \ {"reaper"} :
      \A i \in DOMAIN prog[w] : ~About(prog[w][i], t)

\* Nor does a handshake, delivery or idle guard while an event waits: the pump
\* reads within a second.
Unheard(t) == \E i \in DOMAIN mail : About(mail[i], t)

-----------------------------------------------------------------------------
Init ==
    /\ state = [t \in Task |-> "absent"]
    /\ hop = [t \in Task |-> ""]
    /\ bound = [t \in Task |-> Unbound]
    /\ attempt = [t \in Task |-> 0]
    /\ lines = [t \in Task |-> <<>>]
    /\ awaiting = {}
    /\ terminals = [t \in Task |-> NoHandle]
    /\ sessions = [t \in Task |-> NoHandle]
    /\ running = {}
    /\ clock = [t \in Task |-> ""]
    /\ pending_exit = {}
    /\ pool = <<>>
    /\ replays = {}
    /\ prog = [w \in AllThreads |-> <<>>]
    /\ up = TRUE
    /\ ticks = 0
    /\ crashes = 0
    /\ tab = [h \in Handle |-> "unused"]
    /\ holder = [t \in Task |-> NoHandle]
    /\ history = {}
    /\ mail = <<>>
    /\ said = {}

-----------------------------------------------------------------------------
(***************************************************************************)
(* Submission and dispatch.                                                *)
(***************************************************************************)

\* insert_task: INSERT OR IGNORE.
InsertRow(t, n) ==
    /\ state[t] = "absent"
    /\ state' = [state EXCEPT ![t] = "pending"]
    /\ attempt' = [attempt EXCEPT ![t] = n]
    /\ UNCHANGED <<hop, bound, lines>>

OnTaskInbound(t) ==
    /\ Idle("pump")
    /\ InsertRow(t, 1)
    /\ Begin("pump", <<Reserve(t, "inbound")>>)
    /\ UNCHANGED <<memory, agents, process>>

Submit(t) ==
    /\ Idle("conn") /\ "submit" \in Orders
    /\ InsertRow(t, 1)
    /\ Begin("conn", <<Reserve(t, "submit")>>)
    /\ UNCHANGED <<memory, agents, process>>

MutReserveNoClock(w) ==
    /\ Runs(w, "reserve")
    /\ LET t == Head(prog[w]).task IN
         /\ awaiting' = awaiting \cup {t}
         /\ hop' = [hop EXCEPT ![t] = "dispatched"]
         /\ Then(w, <<PopIdle(t, Head(prog[w]).origin)>>)
    /\ UNCHANGED <<state, bound, attempt, lines, terminals, sessions, running,
                   clock, pending_exit, pool, agents, process>>

\* The reservation comes before the tab: a ready may arrive while it spawns.
DoReserve(w) ==
    /\ Runs(w, "reserve")
    /\ LET t == Head(prog[w]).task IN
         /\ awaiting' = awaiting \cup {t}
         /\ hop' = [hop EXCEPT ![t] = "dispatched"]
         /\ clock' = [clock EXCEPT ![t] = "dispatched"]
         /\ Then(w, <<PopIdle(t, Head(prog[w]).origin)>>)
    /\ UNCHANGED <<state, bound, attempt, lines, terminals, sessions, running,
                   pending_exit, pool, agents, process>>

\* A pane from the idle pool is ready already: its handshake is over.
DoPopIdle(w) ==
    /\ Runs(w, "pop_idle")
    /\ LET t == Head(prog[w]).task
           origin == Head(prog[w]).origin IN
         IF pool = <<>>
         THEN /\ Then(w, <<Spawn(t, origin)>>)
              /\ UNCHANGED <<pool, awaiting>>
         ELSE /\ Then(w, <<Send(t, Last(pool), origin)>>)
              /\ pool' = Front(pool)
              /\ awaiting' = awaiting \ {t}
    /\ UNCHANGED <<db, terminals, sessions, running, clock, pending_exit,
                   agents, process>>

\* The backend may refuse; out of handles, it does.
DoSpawn(w) ==
    /\ Runs(w, "spawn")
    /\ LET t == Head(prog[w]).task
           origin == Head(prog[w]).origin
           free == {h \in Handle : tab[h] = "unused"} IN
         \/ \E h \in free :
              /\ tab' = [tab EXCEPT ![h] = "open"]
              /\ Then(w, <<Bind(t, h), Replay(h), SetState(t, "running")>>)
         \/ /\ "spawn" \in Faults \/ free = {}
            /\ Then(w, OnError(t, origin))
            /\ UNCHANGED tab
    /\ UNCHANGED <<db, memory, holder, history, mail, said, process>>

DoBind(w) ==
    /\ Runs(w, "bind")
    /\ LET t == Head(prog[w]).task
           h == Head(prog[w]).handle IN
         /\ sessions' = [sessions EXCEPT ![t] = h]
         /\ terminals' = [terminals EXCEPT ![t] = h]
         /\ bound' = [bound EXCEPT ![t] = [handle |-> h, json |-> TRUE]]
    /\ Then(w, <<>>)
    /\ UNCHANGED <<state, hop, attempt, lines, awaiting, running, clock,
                   pending_exit, pool, agents, process>>

\* replay_ready_history, for the handle of one tab that is still tracked.
DoReplay(w) ==
    /\ Runs(w, "replay")
    /\ LET h == Head(prog[w]).handle
           tracked == \E t \in Task : terminals[t] = h IN
         Then(w, IF tracked /\ h \in history THEN <<Scan(h)>> ELSE <<>>)
    /\ UNCHANGED <<db, memory, agents, process>>

-----------------------------------------------------------------------------
(***************************************************************************)
(* The ready handshake.                                                    *)
(***************************************************************************)

\* on_ready reads the rows before it takes the locks.
DoScan(w) ==
    /\ Runs(w, "scan")
    /\ Then(w, <<Match(Head(prog[w]).handle,
                       {t \in Task : state[t] \in Owed},
                       {t \in Task : hop[t] \in {"", "dispatched", "ready"}})>>)
    /\ UNCHANGED <<db, memory, agents, process>>

MutCandidatesSettled(h, owed, fresh) ==
    LET eligible == fresh \cup awaiting
        exact == {t \in eligible : terminals[t] = h}
    IN IF exact # {} THEN exact ELSE eligible

\* match_candidate: the task the handle was created for, else any waiting one.
Candidates(h, owed, fresh) ==
    LET eligible == owed \cap (fresh \cup awaiting)
        exact == {t \in eligible : terminals[t] = h}
    IN IF exact # {} THEN exact ELSE eligible

MutMatchRepeated(w) ==
    /\ Runs(w, "match")
    /\ LET h == Head(prog[w]).handle
           candidates == Candidates(h, Head(prog[w]).owed, Head(prog[w]).fresh)
       IN IF candidates = {}
          THEN Then(w, <<>>) /\ pool' = Append(pool, h)
          ELSE (\E t \in candidates : Then(w, <<Claim(t, h)>>)) /\ UNCHANGED pool
    /\ UNCHANGED <<db, awaiting, terminals, sessions, running, clock,
                   pending_exit, agents, process>>

\* A handle whose task completed its handshake is a repetition; a handle with
\* no task to take is parked.
DoMatch(w) ==
    /\ Runs(w, "match")
    /\ LET h == Head(prog[w]).handle
           owners == {t \in Task : terminals[t] = h}
           candidates == Candidates(h, Head(prog[w]).owed, Head(prog[w]).fresh)
       IN
         \/ /\ owners \ awaiting # {}
            /\ Then(w, <<>>)
            /\ UNCHANGED pool
         \/ /\ owners \subseteq awaiting \/ owners \cap awaiting # {}
            /\ IF candidates = {}
               THEN /\ Then(w, <<>>)
                    /\ pool' = Append(pool, h)
               ELSE /\ \E t \in candidates : Then(w, <<Claim(t, h)>>)
                    /\ UNCHANGED pool
    /\ UNCHANGED <<db, awaiting, terminals, sessions, running, clock,
                   pending_exit, agents, process>>

MutClaimBusy(w) ==
    /\ Runs(w, "claim")
    /\ LET t == Head(prog[w]).task
           h == Head(prog[w]).handle IN
         /\ awaiting' = awaiting \ {t}
         /\ terminals' = [terminals EXCEPT ![t] = h]
         /\ hop' = [hop EXCEPT ![t] = "busy"]
         /\ clock' = [clock EXCEPT ![t] = "busy"]
         /\ Then(w, <<Send(t, h, "ready")>>)
    /\ UNCHANGED <<state, bound, attempt, lines, sessions, running,
                   pending_exit, pool, agents, process>>

DoClaim(w) ==
    /\ Runs(w, "claim")
    /\ LET t == Head(prog[w]).task
           h == Head(prog[w]).handle IN
         /\ awaiting' = awaiting \ {t}
         /\ terminals' = [terminals EXCEPT ![t] = h]
         /\ hop' = [hop EXCEPT ![t] = "ready"]
         /\ clock' = [clock EXCEPT ![t] = "ready"]
         /\ Then(w, <<Send(t, h, "ready")>>)
    /\ UNCHANGED <<state, bound, attempt, lines, sessions, running,
                   pending_exit, pool, agents, process>>

\* The loopback call.  Its answer may be lost after the payload arrived.  The
\* daemon knows a repeated payload by its operation id.
DoSend(w) ==
    /\ Runs(w, "send")
    /\ LET t == Head(prog[w]).task
           h == Head(prog[w]).handle
           taken == [holder EXCEPT ![t] = h] IN
         \/ /\ holder' = taken
            /\ Then(w, <<Land(t, h)>>)
         \/ /\ \/ "send" \in Faults /\ UNCHANGED holder
               \/ "answer" \in Faults /\ holder' = taken
            /\ Then(w, OnError(t, Head(prog[w]).origin))
    /\ UNCHANGED <<db, memory, tab, history, mail, said, process>>

DoLand(w) ==
    /\ Runs(w, "land")
    /\ LET t == Head(prog[w]).task
           h == Head(prog[w]).handle IN
         /\ running' = running \cup {t}
         /\ bound' = [bound EXCEPT ![t] = [handle |-> h, json |-> FALSE]]
         /\ terminals' = [terminals EXCEPT ![t] = h]
         /\ state' = [state EXCEPT ![t] = "running"]
         /\ hop' = [hop EXCEPT ![t] = "busy"]
         /\ clock' = [clock EXCEPT ![t] = "busy"]
    /\ Then(w, <<>>)
    /\ UNCHANGED <<attempt, lines, awaiting, sessions, pending_exit, pool,
                   agents, process>>

-----------------------------------------------------------------------------
(***************************************************************************)
(* Results and the end of a tab.                                           *)
(***************************************************************************)

DoSetState(w) ==
    /\ Runs(w, "set_state")
    /\ state' = [state EXCEPT ![Head(prog[w]).task] = Head(prog[w]).state]
    /\ Then(w, <<>>)
    /\ UNCHANGED <<hop, bound, attempt, lines, memory, agents, process>>

MutRecordSkipped(w) ==
    /\ Runs(w, "record")
    /\ Then(w, <<>>)
    /\ UNCHANGED <<db, memory, agents, process>>

\* set_ledger and append_ledger_line.
DoRecord(w) ==
    /\ Runs(w, "record")
    /\ lines' = [lines EXCEPT ![Head(prog[w]).task] =
                   Append(@, Head(prog[w]).state)]
    /\ Then(w, <<>>)
    /\ UNCHANGED <<state, hop, bound, attempt, memory, agents, process>>

\* The session object a handle of the task stands for: session_for_handle.
Target(t, h) ==
    IF sessions[t] # NoHandle THEN sessions[t]
    ELSE IF bound[t].json THEN bound[t].handle
    ELSE h

Alive(t, h) ==
    LET target == Target(t, h) IN target \in Handle => tab[target] = "open"

\* close_terminal and close_tab_only: forget the task, then close its tab.  The
\* first asks the session to recycle as well; a session may quit without it.
DoUnbind(w) ==
    /\ Runs(w, "unbind")
    /\ LET t == Head(prog[w]).task
           h == terminals[t] IN
         /\ awaiting' = awaiting \ {t}
         /\ running' = running \ {t}
         /\ clock' = [clock EXCEPT ![t] = ""]
         /\ hop' = [hop EXCEPT ![t] = ""]
         /\ terminals' = [terminals EXCEPT ![t] = NoHandle]
         /\ Then(w, IF h # NoHandle THEN <<CloseTab(t, h)>> ELSE <<>>)
    /\ UNCHANGED <<state, bound, attempt, lines, sessions, pending_exit, pool,
                   agents, process>>

\* Up to five seconds later, with or without the recycle ack.
DoCloseTab(w) ==
    /\ Runs(w, "close_tab")
    /\ LET target == Target(Head(prog[w]).task, Head(prog[w]).handle) IN
         tab' = IF target \in Handle THEN [tab EXCEPT ![target] = "gone"] ELSE tab
    /\ Then(w, <<>>)
    /\ UNCHANGED <<db, memory, holder, history, mail, said, process>>

\* on_early_exit: only a delivered result is spared.
DoEarlyExit(w) ==
    /\ Runs(w, "early_exit")
    /\ LET t == Head(prog[w]).task IN
         Then(w, IF state[t] \in {"done", "closed"} THEN <<>>
                 ELSE Settle(t, "failed"))
    /\ UNCHANGED <<db, memory, agents, process>>

\* A failed replay is inserted under a fresh id, and dispatched.
DoRetry(w) ==
    /\ Runs(w, "retry")
    /\ LET fresh == {t \in Task : state[t] = "absent"} IN
         \/ \E t \in fresh :
              /\ InsertRow(t, Head(prog[w]).attempt + 1)
              /\ Then(w, <<Reserve(t, "retry")>>)
         \/ /\ fresh = {}
            /\ Then(w, <<>>)
            /\ UNCHANGED db
    /\ UNCHANGED <<memory, agents, process>>

-----------------------------------------------------------------------------
(***************************************************************************)
(* What the pump hears.                                                    *)
(***************************************************************************)

Hears(kind) == Idle("pump") /\ mail # <<>> /\ Head(mail).kind = kind

Hear(steps) ==
    /\ mail' = Tail(mail)
    /\ Begin("pump", steps)
    /\ UNCHANGED <<db, memory, tab, holder, history, said, process>>

HearReady == Hears("ready") /\ Hear(<<Scan(Head(mail).handle)>>)

\* on_hop_activity: dropped for a settled task, and when it repeats the hop.
HearActivity ==
    \E kind \in {"busy", "idle", "idle_pending_exit"} :
      /\ Hears(kind)
      /\ LET t == Head(mail).task
             s == IF kind = "busy" THEN "busy" ELSE "idle" IN
           Hear(IF state[t] \in Settled \/ hop[t] = s THEN <<>>
                ELSE <<SetHop(t, s, kind = "idle_pending_exit")>>)

DoSetHop(w) ==
    /\ Runs(w, "set_hop")
    /\ LET t == Head(prog[w]).task
           s == Head(prog[w]).state IN
         /\ hop' = [hop EXCEPT ![t] = s]
         /\ clock' = [clock EXCEPT ![t] = s]
         /\ running' = IF s = "busy" THEN running \cup {t} ELSE running
         /\ pending_exit' = IF Head(prog[w]).pending
                            THEN pending_exit \cup {t} ELSE pending_exit \ {t}
    /\ Then(w, <<>>)
    /\ UNCHANGED <<state, bound, attempt, lines, awaiting, terminals, sessions,
                   pool, agents, process>>

\* on_out: a settled task never re-records.
HearOut ==
    \E kind \in {"out", "out_failed"} :
      /\ Hears(kind)
      /\ LET t == Head(mail).task IN
           Hear(IF state[t] \in Settled THEN <<>>
                ELSE IF kind = "out_failed" THEN Settle(t, "failed")
                ELSE Settle(t, "done") \o <<SetState(t, "closed")>>)

MutHearRecycledAlways ==
    /\ Hears("recycled")
    /\ LET t == Head(mail).task IN
         Hear(Settle(t, "failed")
                \o IF MayReplay THEN <<Retry(t, attempt[t])>> ELSE <<>>)

\* on_recycled: a session that quits owing its result failed, and is replayed
\* when retries are unbounded.
HearRecycled ==
    /\ Hears("recycled")
    /\ LET t == Head(mail).task IN
         Hear(IF state[t] \in Settled THEN <<Unbind(t)>>
              ELSE Settle(t, "failed")
                     \o IF MayReplay THEN <<Retry(t, attempt[t])>> ELSE <<>>)

\* The subscription drops, and with it an event; on the next connection the
\* ready events of tracked handles are heard again, the others are not.
Reconnect ==
    /\ "mail" \in Faults
    /\ Idle("pump") /\ mail # <<>>
    /\ mail' = Tail(mail)
    /\ \E order \in SetToSeqs({terminals[t] : t \in Task} \cap history) :
         Begin("pump", [i \in DOMAIN order |-> Scan(order[i])])
    /\ UNCHANGED <<db, memory, tab, holder, history, said, process>>

-----------------------------------------------------------------------------
(***************************************************************************)
(* Cancellation.                                                           *)
(***************************************************************************)

\* cancel_force on a family of one: the row is read with the family.
StartCancel(t) ==
    /\ Idle("conn") /\ "cancel" \in Orders
    /\ state[t] # "absent"
    /\ state[t] \notin {"closed", "cancelled"}
    /\ Begin("conn", Settle(t, "cancelled"))
    /\ UNCHANGED <<db, memory, agents, process>>

-----------------------------------------------------------------------------
(***************************************************************************)
(* The reap loop.                                                          *)
(***************************************************************************)

StartTick ==
    /\ Idle("reaper")
    /\ ticks < MaxTicks
    /\ ticks' = ticks + 1
    /\ Begin("reaper", <<Tick("sweep"), Tick("replay_waiting"), Tick("busy"),
                         Tick("timeouts")>>)
    /\ pool' = <<>>
    /\ UNCHANGED <<db, awaiting, terminals, sessions, running, clock,
                   pending_exit, agents, replays, up, crashes>>

\* sweep_dead_terminals: the delivered tasks, as they are now.
DoSweep(w) ==
    /\ Runs(w, "sweep")
    /\ ThenEach(w, {t \in running : /\ Expired(t) /\ state[t] = "running"
                                    /\ bound[t].handle # NoHandle},
                LAMBDA t : Probe(t, bound[t].handle, attempt[t]))
    /\ UNCHANGED <<db, memory, agents, process>>

\* A dead tab is an early exit, and a retry below the cap.
DoProbe(w) ==
    /\ Runs(w, "probe")
    /\ LET t == Head(prog[w]).task
           n == Head(prog[w]).attempt IN
         Then(w, IF Alive(t, Head(prog[w]).handle) THEN <<>>
                 ELSE <<EarlyExit(t)>>
                        \o IF n < MaxAttempts THEN <<Retry(t, n)>> ELSE <<>>)
    /\ UNCHANGED <<db, memory, agents, process>>

\* replay_waiting_ready: a thread for each handle that still awaits its ready.
DoReplayWaiting(w) ==
    /\ Runs(w, "replay_waiting")
    /\ replays' = replays \cup ({terminals[t] : t \in awaiting} \cap Handle)
    /\ Then(w, <<>>)
    /\ UNCHANGED <<db, memory, agents, up, ticks, crashes>>

StartReplay(h) ==
    /\ Idle("replay")
    /\ h \in replays
    /\ replays' = replays \ {h}
    /\ Begin("replay", <<Replay(h)>>)
    /\ UNCHANGED <<db, memory, agents, up, ticks, crashes>>

\* reconcile_busy_terminals.
DoBusy(w) ==
    /\ Runs(w, "busy")
    /\ ThenEach(w, {t \in Task : /\ state[t] = "running" /\ hop[t] = "busy"
                                 /\ bound[t].handle # NoHandle},
                LAMBDA t : BusyProbe(t, Text(bound[t])))
    /\ UNCHANGED <<db, memory, agents, process>>

DoBusyProbe(w) ==
    /\ Runs(w, "busy_probe")
    /\ LET t == Head(prog[w]).task
           h == Head(prog[w]).handle IN
         IF Alive(t, h)
         THEN /\ terminals' = [terminals EXCEPT ![t] = h]
              /\ Then(w, <<>>)
         ELSE /\ Then(w, <<EarlyExit(t)>>)
              /\ UNCHANGED terminals
    /\ UNCHANGED <<db, awaiting, sessions, running, clock, pending_exit, pool,
                   agents, process>>

\* hop_timeouts: the clocks are copied first.  A busy hop is never ended.
DoTimeouts(w) ==
    /\ Runs(w, "timeouts")
    /\ ThenEach(w, {t \in Task : /\ Expired(t) /\ ~Unheard(t)
                                 /\ clock[t] \in {"dispatched", "ready", "idle"}},
                LAMBDA t : CASE clock[t] = "dispatched" -> Handshake(t)
                             [] clock[t] = "ready" -> EarlyExit(t)
                             [] OTHER -> Stalled(t))
    /\ UNCHANGED <<db, memory, agents, process>>

\* fail_or_replay_handshake, unless the payload was delivered meanwhile.
DoHandshake(w) ==
    /\ Runs(w, "handshake")
    /\ LET t == Head(prog[w]).task IN
         Then(w, IF t \in running THEN <<>>
                 ELSE <<EarlyExit(t)>>
                        \o IF MayReplay THEN <<Retry(t, attempt[t])>> ELSE <<>>)
    /\ UNCHANGED <<db, memory, agents, process>>

\* An idle session that is about to exit belongs to its plugin.
DoStalled(w) ==
    /\ Runs(w, "stalled")
    /\ LET t == Head(prog[w]).task IN
         Then(w, IF t \in pending_exit THEN <<>> ELSE <<EarlyExit(t)>>)
    /\ UNCHANGED <<db, memory, agents, process>>

-----------------------------------------------------------------------------
(***************************************************************************)
(* Death and restart.  The rows and the tabs survive, the maps do not.     *)
(***************************************************************************)

Crash ==
    /\ crashes < MaxCrashes
    /\ crashes' = crashes + 1
    /\ up' = FALSE
    /\ awaiting' = {}
    /\ terminals' = [t \in Task |-> NoHandle]
    /\ sessions' = [t \in Task |-> NoHandle]
    /\ running' = {}
    /\ clock' = [t \in Task |-> ""]
    /\ pending_exit' = {}
    /\ pool' = <<>>
    /\ replays' = {}
    /\ mail' = <<>>
    /\ \E order \in SetToSeqs({t \in Task : state[t] \in Owed}) :
         prog' = [w \in AllThreads |->
                    IF w # "pump" THEN <<>>
                    ELSE [i \in DOMAIN order |->
                            Reap(order[i], Text(bound[order[i]]))]]
    /\ UNCHANGED <<db, tab, holder, history, said, ticks>>

MutReapAdopted ==
    /\ Runs("pump", "reap")
    /\ LET t == Head(prog["pump"]).task
           h == Head(prog["pump"]).handle IN
         IF h # NoHandle /\ Alive(t, h)
         THEN /\ terminals' = [terminals EXCEPT ![t] = h]
              /\ running' = running \cup {t}
              /\ hop' = [hop EXCEPT ![t] = "adopted"]
              /\ clock' = [clock EXCEPT ![t] = "adopted"]
              /\ lines' = [lines EXCEPT ![t] = Append(@, "adopted")]
              /\ Then("pump", <<>>)
         ELSE /\ Then("pump", <<EarlyExit(t)>>)
              /\ UNCHANGED <<terminals, running, hop, clock, lines>>
    /\ UNCHANGED <<state, bound, attempt, awaiting, sessions, pending_exit,
                   pool, agents, process>>

\* reap_previous_run, before any thread runs: a task whose tab is alive is
\* adopted as busy, the others fail.  Ready events of the last run are repeated
\* afterwards, and find their handles bound or untracked.
DoReap ==
    /\ Runs("pump", "reap")
    /\ LET t == Head(prog["pump"]).task
           h == Head(prog["pump"]).handle IN
         IF h # NoHandle /\ Alive(t, h)
         THEN /\ terminals' = [terminals EXCEPT ![t] = h]
              /\ running' = running \cup {t}
              /\ hop' = [hop EXCEPT ![t] = "busy"]
              /\ clock' = [clock EXCEPT ![t] = "busy"]
              /\ lines' = [lines EXCEPT ![t] = Append(@, "adopted")]
              /\ Then("pump", <<>>)
         ELSE /\ Then("pump", <<EarlyExit(t)>>)
              /\ UNCHANGED <<terminals, running, hop, clock, lines>>
    /\ UNCHANGED <<state, bound, attempt, awaiting, sessions, pending_exit,
                   pool, agents, process>>

Booted ==
    /\ ~up
    /\ prog["pump"] = <<>>
    /\ up' = TRUE
    /\ UNCHANGED <<db, memory, agents, replays, ticks, crashes, prog>>

-----------------------------------------------------------------------------
(***************************************************************************)
(* The sessions (external).                                                *)
(***************************************************************************)

Say(event) ==
    /\ event.kind \in Speech
    /\ event \notin said
    /\ said' = said \cup {event}
    /\ mail' = Append(mail, event)

\* A session reports ready once, when its tab is up.
AgentReady(h) ==
    /\ tab[h] = "open"
    /\ Say([kind |-> "ready", handle |-> h])
    /\ history' = history \cup {h}
    /\ UNCHANGED <<db, memory, tab, holder, process, prog>>

Works(t) == holder[t] # NoHandle /\ tab[holder[t]] = "open"

AgentReports(t) ==
    /\ Works(t)
    /\ \E kind \in Speech \ {"ready", "recycled"} :
         Say([kind |-> kind, task |-> t])
    /\ UNCHANGED <<db, memory, tab, holder, history, process, prog>>

\* A session quits: it was told to, or the worker chose to.
AgentRecycles(t) ==
    /\ Works(t)
    /\ Say([kind |-> "recycled", task |-> t])
    /\ tab' = [tab EXCEPT ![holder[t]] = "gone"]
    /\ UNCHANGED <<db, memory, holder, history, process, prog>>

TabDies(h) ==
    /\ tab[h] = "open"
    /\ tab' = [tab EXCEPT ![h] = "gone"]
    /\ UNCHANGED <<db, memory, holder, history, mail, said, process, prog>>

-----------------------------------------------------------------------------
Step(w) ==
    \/ DoReserve(w) \/ DoPopIdle(w) \/ DoSpawn(w) \/ DoBind(w) \/ DoReplay(w)
    \/ DoScan(w) \/ DoMatch(w) \/ DoClaim(w) \/ DoSend(w) \/ DoLand(w)
    \/ DoSetState(w) \/ DoRecord(w) \/ DoUnbind(w) \/ DoCloseTab(w)
    \/ DoEarlyExit(w) \/ DoRetry(w) \/ DoSetHop(w)
    \/ DoSweep(w) \/ DoProbe(w) \/ DoReplayWaiting(w) \/ DoBusy(w)
    \/ DoBusyProbe(w) \/ DoTimeouts(w) \/ DoHandshake(w) \/ DoStalled(w)

Sessions ==
    \/ \E h \in Handle : AgentReady(h) \/ TabDies(h)
    \/ \E t \in Task : AgentReports(t) \/ AgentRecycles(t)

Next ==
    \/ \E t \in Task : OnTaskInbound(t) \/ Submit(t) \/ StartCancel(t)
    \/ HearReady \/ HearActivity \/ HearOut \/ HearRecycled \/ Reconnect
    \/ StartTick \/ \E h \in Handle : StartReplay(h)
    \/ \E w \in AllThreads : Step(w)
    \/ Crash \/ DoReap \/ Booted
    \/ Sessions

Spec == Init /\ [][Next]_vars

-----------------------------------------------------------------------------
(***************************************************************************)
(* Properties.                                                             *)
(***************************************************************************)

TypeOK ==
    /\ state \in [Task -> Owed \cup Settled \cup {"absent"}]
    /\ hop \in [Task -> HopState] /\ clock \in [Task -> HopState]
    /\ bound \in [Task -> [handle : Handle \cup {NoHandle}, json : BOOLEAN]]
    /\ attempt \in [Task -> Nat]
    /\ lines \in [Task -> Seq(Result \cup {"adopted"})]
    /\ terminals \in [Task -> Handle \cup {NoHandle, Blob}]
    /\ sessions \in [Task -> Handle \cup {NoHandle}]
    /\ awaiting \cup running \cup pending_exit \subseteq Task
    /\ pool \in Seq(Handle) /\ replays \subseteq Handle
    /\ tab \in [Handle -> {"unused", "open", "gone"}]
    /\ holder \in [Task -> Handle \cup {NoHandle}]
    /\ history \subseteq Handle

\* No step of any thread is left that concerns the task or a ready handle.
Concerns(step, t) == About(step, t) \/ step.op \in {"replay", "scan", "match"}

Quiet(t) ==
    \A w \in AllThreads : \A i \in DOMAIN prog[w] : ~Concerns(prog[w][i], t)

\* Some watchdog of the reap loop looks at the task: the handshake and the
\* delivery guard, the idle guard, the dead-tab sweep, the busy check.
Watched(t) ==
    \/ clock[t] = "ready" \/ (clock[t] = "dispatched" /\ t \notin running)
    \/ clock[t] = "idle" /\ t \notin pending_exit
    \/ /\ state[t] = "running" /\ bound[t].handle # NoHandle
       /\ t \in running \/ hop[t] = "busy"

\* A restart took the task on trust because its tab was open.
Adopted(t) == "adopted" \in ToSet(lines[t])

\* No task is owed and forgotten.
NoOrphan ==
    \A t \in Task :
      up /\ state[t] \in Owed /\ Quiet(t) /\ ~Adopted(t) => Watched(t)

\* A hop is busy only with its payload delivered.
BusyHasPayload ==
    \A t \in Task :
      hop[t] = "busy" /\ state[t] \in Owed /\ ~Adopted(t) => holder[t] # NoHandle

\* The places of the result lines of a task.
Told(t) == {i \in DOMAIN lines[t] : lines[t][i] \in Result}

\* At most one result line per task.
OneResult == \A t \in Task : \A i, j \in Told(t) : i = j

\* The last result line of the task tells its state.
Agrees(t) ==
    \E i \in Told(t) :
      /\ \A j \in Told(t) : j <= i
      /\ lines[t][i] = IF state[t] = "closed" THEN "done" ELSE state[t]

\* The ledger's last word on a settled task is its state.  A crash may come
\* between the two writes.
LedgerAgrees ==
    \A t \in Task : state[t] \in Settled /\ Quiet(t) /\ crashes = 0 => Agrees(t)

\* A settled task is never owed again, and a delivered result is not turned
\* into a failure.
SettledStays ==
    [][\A t \in Task :
         /\ state[t] \in Settled => state'[t] \in Settled
         /\ state[t] \in {"done", "closed"} => state'[t] # "failed"]_vars

\* The row of the task names the tab its payload was delivered to.
Landed(t) == bound[t].handle # NoHandle /\ ~bound[t].json

\* No two owed tasks are recorded as delivered to one open tab.  A delivery
\* whose answer was lost leaves no record, and its tab may be taken again.
TabServesOne ==
    \A t, u \in Task :
      /\ t # u
      /\ state[t] \in Owed /\ Landed(t) /\ state[u] \in Owed /\ Landed(u)
      /\ tab[bound[t].handle] = "open"
      => bound[t].handle # bound[u].handle
=============================================================================
