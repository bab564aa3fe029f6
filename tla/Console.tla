------------------------------ MODULE Console ------------------------------
(***************************************************************************)
(* The monitor over the scheduler: the terminal UI of src/tui.rs, the list *)
(* and cancel requests of src/ipc.rs it makes, and the queries of          *)
(* src/db.rs that answer them.                                             *)
(*                                                                         *)
(* The monitor is one thread.  It pulls a snapshot every two seconds and   *)
(* waits for a key in between; a key acts on the snapshot pulled last,     *)
(* while tasks come and go behind it.  A request may fail, and then its    *)
(* part of the snapshot is empty.  A cancel is a job of the scheduler over *)
(* a family of tasks read once; the monitor stops waiting for it after     *)
(* three seconds.                                                          *)
(*                                                                         *)
(* Left out: drawing, the scroll of the detail, focusing a tab, quitting.  *)
(* How a session's handlers race with a cancel is the subject of           *)
(* TaskLedger: here a task settles in one step.                            *)
(***************************************************************************)
EXTENDS Naturals, Sequences, SequencesExt

CONSTANTS
    Roles,       \* the paths of the tree, in the order of list_workspaces
    Arrivals,    \* the [from, to, retry] an operator or a retry submits
    Targets,     \* the paths a session hands work to
    Outcomes,    \* how a session may end its task
    Hits,        \* the tasks whose text the search word matches
    Old,         \* the tasks older than a day and younger than a week
    Height,      \* the rows the graph may use, graph_height
    PageSize,    \* the rows of a history page, history_page_size
    ListCap,     \* the rows list_page returns at most
    Keys,        \* the keys the operator may press
    MaxTasks,    \* bound of a run: rows of the task table
    MaxEvents    \* bound of a run: keys but tab, failed requests and alerts

ASSUME ConsoleAssumption ==
    /\ {Height, MaxTasks, MaxEvents} \subseteq Nat
    /\ {PageSize, ListCap} \subseteq Nat \ {0}
    /\ Roles \in Seq(Range(Roles)) /\ Len(Roles) > 0 /\ IsInjective(Roles)
    /\ Targets \subseteq Range(Roles) /\ "any" \notin Range(Roles)
    /\ Arrivals \subseteq [from : Range(Roles), to : Range(Roles),
                           retry : BOOLEAN]
    /\ Outcomes \subseteq {"done", "failed", "closed"}

\* No task, no role, no edge.
None == 0
AnyRole == "any"
AnyEdge == <<>>

ActiveState == {"pending", "running"}
TaskState == ActiveState \cup {"done", "failed", "cancelled", "closed"}

\* The cycle of the s key.
States == <<"active", "all", "pending", "running", "done", "failed",
            "cancelled", "closed">>

\* The cycle of the w key.
Windows == <<"any", "hour", "day", "week">>

VARIABLES
    tasks,     \* the rows of the task table, oldest first
    alarms,    \* how many alert lines a status answer holds
    enabled,   \* the [swarm] switch of the root
    jobs,      \* the cancel requests the scheduler has accepted
    pc,        \* what the monitor does next
    focus,     \* the panel of the cursor
    cursor,    \* the cursor of each panel
    filter,    \* the history filter
    search,    \* the text being typed, or "closed"
    snap,      \* the snapshot pulled last
    chosen,    \* the task whose detail was asked for
    detail,    \* the task the detail panel shows
    events,    \* how many keys, failures and alerts there were
    failed     \* whether a request of the monitor failed

server == <<tasks, alarms, enabled, jobs>>
view == <<focus, cursor, filter, search>>
detailVars == <<chosen, detail>>
counters == <<events, failed>>
vars == <<server, pc, view, snap, detailVars, counters>>

Min2(a, b) == IF a < b THEN a ELSE b
Max2(a, b) == IF a > b THEN a ELSE b

-----------------------------------------------------------------------------
(***************************************************************************)
(* The queries of the task table.                                          *)
(***************************************************************************)

\* The elements of s that are in S, in the order of s: SelectSeq, as a
\* recursive function.
Keep(s, S) ==
    LET kept[i \in 0..Len(s)] ==
          IF i = 0 THEN <<>>
          ELSE IF s[i] \in S THEN Append(kept[i - 1], s[i]) ELSE kept[i - 1]
    IN  kept[Len(s)]

Oldest == [t \in DOMAIN tasks |-> t]

Newest == Reverse(Oldest)

\* A row as an answer carries it, with what the monitor reads of it.
Row(t) == [id |-> t, to |-> tasks[t].to, state |-> tasks[t].state]

Rows(ids) == [i \in DOMAIN ids |-> Row(ids[i])]

InState(t, wanted) ==
    \/ wanted = "all"
    \/ wanted = "active" /\ tasks[t].state \in ActiveState
    \/ wanted = tasks[t].state

InWindow(t, window) == t \in Old => window \in {"any", "week"}

\* task_where: every axis of a request narrows the answer.
Matches(t, q) ==
    /\ InState(t, q.state)
    /\ q.to # AnyRole => tasks[t].to = q.to
    /\ q.from # AnyRole => tasks[t].from = q.from
    /\ q.text = "word" => t \in Hits
    /\ InWindow(t, q.window)
    /\ q.retry => tasks[t].retry

Found(q) == Keep(Newest, {t \in DOMAIN tasks : Matches(t, q)})

\* list_page: the rows of one page and the number of rows of all of them.
ListPage(q, limit, offset) ==
    LET found == Found(q) IN
    [rows  |-> Rows(SubSeq(found, offset + 1,
                           Min2(Len(found), offset + Min2(limit, ListCap)))),
     total |-> Len(found)]

\* The request for the active tasks.
ActiveRequest == [state |-> "active", to |-> AnyRole, from |-> AnyRole,
                  text |-> "empty", window |-> "any", retry |-> FALSE]

Active == ListPage(ActiveRequest, ListCap, 0).rows

\* The request for a history page: the edge, when there is one, replaces the
\* role.
HistoryRequest(f) ==
    [state |-> f.state, text |-> f.text, window |-> f.window,
     retry |-> f.retry,
     to    |-> IF f.edge = AnyEdge THEN f.role ELSE f.edge[2],
     from  |-> IF f.edge = AnyEdge THEN AnyRole ELSE f.edge[1]]

\* graph: the pairs that ever exchanged a task, in the order of the roles.
Edges ==
    LET exchanged == {<<tasks[t].from, tasks[t].to>> : t \in DOMAIN tasks}
        from(i) == [j \in DOMAIN Roles |-> <<Roles[i], Roles[j]>>]
    IN  Keep(FlattenSeq([i \in DOMAIN Roles |-> from(i)]),
             {p \in exchanged : p[1] # p[2]})

\* family: the task and every task its lineage spawned, the least set of
\* tasks that holds the task and the children of its elements.
HoldsChildren(S) == \A u \in DOMAIN tasks : tasks[u].parent \in S => u \in S

MutFamily(root) == {root}
Family(root) ==
    {t \in DOMAIN tasks :
       \A S \in SUBSET DOMAIN tasks :
         root \in S /\ HoldsChildren(S) => t \in S}

-----------------------------------------------------------------------------
(***************************************************************************)
(* What the monitor makes of a snapshot.                                   *)
(***************************************************************************)

\* A snapshot of which nothing came back.
Nothing == [alarms |-> 0, roles |-> <<>>, edges |-> <<>>, active |-> <<>>,
            history |-> [rows |-> <<>>, total |-> 0]]

\* The rows a box of the graph has for its sessions.
BodyCap(roles, alerts) ==
    LET usable == Max2(Height - 1 - Min2(alerts, 2), 3 * roles)
    IN  Max2((usable - 3 * roles) \div roles, 1)

\* role_body: the sessions of a role when they all fit, or else the first.
Body(sessions, cap) ==
    IF Len(sessions) > cap THEN <<Head(sessions)>> ELSE sessions

\* The selectable rows in the box of a role.
Box(g, role) ==
    LET mine == Keep(g.active, {r \in Range(g.active) : r.to = role})
        body == Body(mine, BodyCap(Len(g.roles), g.alarms))
    IN  [j \in DOMAIN body |-> body[j].id]

\* graph_task_ids: box after box.
GraphIds(g) ==
    IF g.roles = <<>>
    THEN <<>>
    ELSE FlattenSeq([i \in DOMAIN g.roles |-> Box(g, g.roles[i])])

HistoryIds(h) == [i \in DOMAIN h.rows |-> h.rows[i].id]

\* The rows a cursor can be on.
Panel(p) ==
    IF p = "graph" THEN GraphIds(snap) ELSE HistoryIds(snap.history)

\* selected_task_id
Selected ==
    LET ids == Panel(focus) IN
    IF cursor[focus] < Len(ids) THEN ids[cursor[focus] + 1] ELSE None

Clamp(c, len) == IF len = 0 THEN 0 ELSE Min2(c, len - 1)

MutMoved(c, len, delta) ==
    IF len = 0 THEN 0 ELSE Max2(c + delta, 1) - 1
Moved(c, len, delta) ==
    IF len = 0 THEN 0 ELSE Min2(Max2(c + delta, 1) - 1, len - 1)

\* The element of a cycle after the present one.
NextIn(cycle, x) ==
    cycle[((CHOOSE i \in DOMAIN cycle : cycle[i] = x) % Len(cycle)) + 1]

\* cycle_option: none, then each choice, then none again; a choice that is
\* gone counts as the last one.
NextOption(choices, x, none) ==
    IF x = none
    THEN IF choices = <<>> THEN none ELSE Head(choices)
    ELSE LET at == {i \in DOMAIN choices : choices[i] = x}
         IN  IF at = {} \/ Len(choices) \in at
             THEN none
             ELSE choices[(CHOOSE i \in at : TRUE) + 1]

-----------------------------------------------------------------------------
TypeOK ==
    /\ tasks \in Seq([from : Range(Roles), to : Range(Roles),
                      parent : 0..MaxTasks, retry : BOOLEAN,
                      state : TaskState])
    /\ alarms \in 0..MaxEvents /\ enabled \in BOOLEAN
    /\ pc \in {"idle", "pull", "sync", "answer"}
    /\ focus \in {"graph", "history"}
    /\ cursor \in [{"graph", "history"} -> 0..(Max2(MaxTasks, 1) - 1)]
    /\ filter.state \in Range(States) /\ filter.offset \in Nat
    /\ search \in {"closed", "empty", "word"}
    /\ {chosen, detail} \subseteq 0..Len(tasks)

Init ==
    /\ tasks = <<>> /\ alarms = 0 /\ enabled = TRUE /\ jobs = <<>>
    /\ pc = "pull"
    /\ focus = "graph"
    /\ cursor = [p \in {"graph", "history"} |-> 0]
    /\ filter = [state |-> "active", role |-> AnyRole, edge |-> AnyEdge,
                 text |-> "empty", window |-> "any", retry |-> FALSE,
                 offset |-> 0]
    /\ search = "closed"
    /\ snap = Nothing
    /\ chosen = None /\ detail = None
    /\ events = 0 /\ failed = FALSE

-----------------------------------------------------------------------------
(***************************************************************************)
(* The scheduler behind the socket.                                        *)
(***************************************************************************)

Insert(row) ==
    /\ Len(tasks) < MaxTasks
    /\ tasks' = Append(tasks, row)
    /\ UNCHANGED <<alarms, enabled, jobs>>

Submit ==
    \E a \in Arrivals :
      Insert([from |-> a.from, to |-> a.to, parent |-> None,
              retry |-> a.retry, state |-> "pending"])

\* A running session hands work to another workspace.
Spawn ==
    \E p \in DOMAIN tasks, to \in Targets :
      /\ tasks[p].state = "running"
      /\ Insert([from |-> tasks[p].to, to |-> to, parent |-> p,
                 retry |-> FALSE, state |-> "pending"])

Progress ==
    /\ \E t \in DOMAIN tasks :
         \/ /\ tasks[t].state = "pending"
            /\ \E s \in {"running"} \cup (Outcomes \cap {"failed"}) :
                 tasks' = [tasks EXCEPT ![t].state = s]
         \/ /\ tasks[t].state = "running"
            /\ \E s \in Outcomes :
                 tasks' = [tasks EXCEPT ![t].state = s]
    /\ UNCHANGED <<alarms, enabled, jobs>>

\* An orphan, a dangling link or a recent alert shows up in the status.
Alarm ==
    /\ events < MaxEvents
    /\ events' = events + 1
    /\ alarms' = alarms + 1
    /\ UNCHANGED <<tasks, enabled, jobs, failed>>

\* cancel_force reads the family of its task once, oldest first, ...
ReadFamily(j) ==
    /\ jobs[j].phase = "new"
    /\ LET family == Keep(Oldest, Family(jobs[j].root)) IN
       jobs' = [jobs EXCEPT ![j].phase = "run", ![j].upto = Len(tasks),
                            ![j].family = Rows(family),
                            ![j].todo = Rows(family)]
    /\ UNCHANGED <<tasks, alarms, enabled>>

\* ... and settles row after row, skipping those it read as over.
CancelRow(j) ==
    /\ jobs[j].phase = "run"
    /\ jobs[j].todo # <<>>
    /\ LET row == Head(jobs[j].todo) IN
       IF row.state \in {"closed", "cancelled"}
       THEN UNCHANGED tasks
       ELSE tasks' = [tasks EXCEPT ![row.id].state = "cancelled"]
    /\ jobs' = [jobs EXCEPT ![j].todo = Tail(@)]
    /\ UNCHANGED <<alarms, enabled>>

FinishCancel(j) ==
    /\ jobs[j].phase = "run"
    /\ jobs[j].todo = <<>>
    /\ jobs' = [jobs EXCEPT ![j].phase = "done"]
    /\ UNCHANGED <<tasks, alarms, enabled>>

CancelStep(j) == ReadFamily(j) \/ CancelRow(j) \/ FinishCancel(j)

Scheduler ==
    /\ \/ Alarm
       \/ /\ \/ Submit \/ Spawn \/ Progress
             \/ \E j \in DOMAIN jobs : CancelStep(j)
          /\ UNCHANGED counters
    /\ UNCHANGED <<pc, view, snap, detailVars>>

-----------------------------------------------------------------------------
(***************************************************************************)
(* The loop of the monitor.                                                *)
(***************************************************************************)

\* A pull is due when two seconds have passed since the last one and nobody
\* is typing.
MutRefreshDue ==
    /\ pc = "idle"
    /\ search = "closed" /\ focus = "history"
    /\ pc' = "pull"
    /\ UNCHANGED <<server, view, snap, detailVars, counters>>
RefreshDue ==
    /\ pc = "idle"
    /\ search = "closed"
    /\ pc' = "pull"
    /\ UNCHANGED <<server, view, snap, detailVars, counters>>

\* A request either comes back or fails: no socket, no answer in three
\* seconds, an answer that does not parse.
Answered(ok) ==
    /\ ok \/ events < MaxEvents
    /\ events' = IF ok THEN events ELSE events + 1
    /\ failed' = (failed \/ ~ok)

\* What the scheduler answers to the requests of a pull.
Answers ==
    [alarms |-> alarms, roles |-> Roles, edges |-> Edges, active |-> Active,
     history |-> ListPage(HistoryRequest(filter), PageSize, filter.offset)]

\* pull, in one step: every part of the snapshot is the answer to a request
\* of its own, and no property relates one part to another.  The part of a
\* failed request is empty.
Pull ==
    /\ pc = "pull" /\ pc' = "sync"
    /\ UNCHANGED <<server, view, detailVars>>
    /\ \E answer \in {Answers}, lost \in SUBSET DOMAIN Nothing :
         /\ Answered(lost = {})
         /\ snap' = [part \in DOMAIN answer |->
                       (IF part \in lost THEN Nothing ELSE answer)[part]]

\* sync_selection_and_detail: clamp both cursors; when another task is
\* selected now, remember it and ask for its detail.  A failed request
\* leaves the old text on the screen.
Sync ==
    /\ pc = "sync"
    /\ cursor' = [p \in DOMAIN cursor |-> Clamp(cursor[p], Len(Panel(p)))]
    /\ LET ids == Panel(focus)
           now == IF ids = <<>> THEN None ELSE ids[cursor'[focus] + 1]
       IN  IF now \in {chosen, None}
           THEN /\ chosen' = now
                /\ detail' = IF now = chosen THEN detail ELSE None
                /\ UNCHANGED counters
           ELSE /\ chosen' = now
                /\ \E ok \in BOOLEAN :
                     /\ Answered(ok)
                     /\ detail' = IF ok THEN now ELSE detail
    /\ pc' = "idle"
    /\ UNCHANGED <<server, focus, filter, search, snap>>

-----------------------------------------------------------------------------
(***************************************************************************)
(* The keys.                                                               *)
(***************************************************************************)

Press(key) ==
    /\ pc = "idle"
    /\ key \in Keys
    /\ key = "tab" \/ events < MaxEvents
    /\ events' = IF key = "tab" THEN events ELSE events + 1
    /\ UNCHANGED <<tasks, alarms, snap, detailVars, failed>>

\* What follows a key: another pull, the selection only, or nothing.
Refresh == pc' = "pull"
Resync == pc' = "sync"
Redraw == UNCHANGED pc

\* Outside of a search a key is a command; inside it is text.
Command(key) == Press(key) /\ search = "closed"

MutTabKey ==
    /\ Command("tab")
    /\ focus' = IF focus = "graph" THEN "history" ELSE "graph"
    /\ Redraw
    /\ UNCHANGED <<enabled, jobs, cursor, filter, search>>
TabKey ==
    /\ Command("tab")
    /\ focus' = IF focus = "graph" THEN "history" ELSE "graph"
    /\ Resync
    /\ UNCHANGED <<enabled, jobs, cursor, filter, search>>

\* Up and down, as an offset from the row above the present one.
MoveKey ==
    /\ \/ Command("up") /\ cursor' = [cursor EXCEPT ![focus] =
                             Moved(@, Len(Panel(focus)), 0)]
       \/ Command("down") /\ cursor' = [cursor EXCEPT ![focus] =
                               Moved(@, Len(Panel(focus)), 2)]
    /\ Resync
    /\ UNCHANGED <<enabled, jobs, focus, filter, search>>

\* A change of the filter starts at its first page.
NewFilter(f) ==
    /\ filter' = [f EXCEPT !.offset = 0]
    /\ Refresh
    /\ UNCHANGED <<enabled, jobs, focus, cursor, search>>

StateKey ==
    /\ Command("s")
    /\ NewFilter([filter EXCEPT !.state = NextIn(States, @)])

RoleKey ==
    /\ Command("r")
    /\ NewFilter([filter EXCEPT !.role = NextOption(snap.roles, @, AnyRole)])

EdgeKey ==
    /\ Command("e")
    /\ NewFilter([filter EXCEPT !.edge = NextOption(snap.edges, @, AnyEdge)])

WindowKey ==
    /\ Command("w")
    /\ NewFilter([filter EXCEPT !.window = NextIn(Windows, @)])

MutRetryKey ==
    /\ Command("x")
    /\ filter' = [filter EXCEPT !.retry = ~@, !.offset = 0]
    /\ Redraw
    /\ UNCHANGED <<enabled, jobs, focus, cursor, search>>
RetryKey ==
    /\ Command("x")
    /\ NewFilter([filter EXCEPT !.retry = ~@])

\* page_history: forward while rows are left by the total pulled last.
PageKey ==
    /\ focus = "history"
    /\ \/ /\ Command("pagedown")
          /\ filter' = IF filter.offset + PageSize < snap.history.total
                       THEN [filter EXCEPT !.offset = @ + PageSize]
                       ELSE filter
       \/ /\ Command("pageup")
          /\ filter' = [filter EXCEPT !.offset = Max2(@, PageSize) - PageSize]
    /\ cursor' = [cursor EXCEPT !.history = 0]
    /\ Refresh
    /\ UNCHANGED <<enabled, jobs, focus, search>>

\* The search line: opened with the text of the filter, typed in, and
\* applied or dropped.  No pull happens while it is open.
SearchKey ==
    /\ \/ /\ Command("search")
          /\ search' = filter.text
          /\ Redraw /\ UNCHANGED filter
       \/ /\ Press("type") /\ search # "closed"
          /\ search' \in {"empty", "word"} \ {search}
          /\ Redraw /\ UNCHANGED filter
       \/ /\ Press("escape") /\ search # "closed"
          /\ search' = "closed"
          /\ Redraw /\ UNCHANGED filter
       \/ /\ Press("enter") /\ search # "closed"
          /\ filter' = [filter EXCEPT !.text = search, !.offset = 0]
          /\ search' = "closed"
          /\ Refresh
    /\ UNCHANGED <<enabled, jobs, focus, cursor>>

\* Cancel the selected row of the focused panel and wait for the answer.
CancelKey ==
    /\ Command("c")
    /\ \/ Selected = None /\ Redraw /\ UNCHANGED jobs
       \/ /\ Selected # None
          /\ jobs' = Append(jobs, [root |-> Selected, phase |-> "new",
                                   upto |-> 0, family |-> <<>>,
                                   todo |-> <<>>])
          /\ pc' = "answer"
       \/ Selected # None /\ UNCHANGED jobs /\ Refresh   \* no socket
    /\ UNCHANGED <<enabled, view>>

\* The switch of the root.  The key asks for the opposite of the
\* swarm_enabled of the status answer; no answer has that field, and a
\* missing one reads as TRUE.
StatusSwarmEnabled == TRUE

ToggleKey ==
    /\ Command("t")
    /\ enabled' \in {~StatusSwarmEnabled, enabled}   \* the request may fail
    /\ Refresh
    /\ UNCHANGED <<jobs, view>>

\* The answer to a cancel is there, or the read timed out before it.
CancelAnswered ==
    /\ pc = "answer"
    /\ \/ jobs[Len(jobs)].phase = "done" /\ Answered(TRUE)
       \/ Answered(FALSE)
    /\ Refresh
    /\ UNCHANGED <<server, view, snap, detailVars>>

Loop == Pull \/ Sync \/ CancelAnswered

Key ==
    \/ TabKey \/ MoveKey \/ StateKey \/ RoleKey \/ EdgeKey \/ WindowKey
    \/ RetryKey \/ PageKey \/ SearchKey \/ CancelKey \/ ToggleKey

Next == Scheduler \/ RefreshDue \/ Loop \/ Key

\* The thread of the monitor runs, and so do the connections of the
\* scheduler; the clock passes two seconds again and again.  Nothing is
\* promised of the operator, of the sessions or of new work.
Spec ==
    /\ Init /\ [][Next]_vars
    /\ WF_vars(Loop)
    /\ SF_vars(RefreshDue)
    /\ \A j \in 1..MaxEvents :
         WF_vars(/\ j \in DOMAIN jobs
                 /\ UNCHANGED <<pc, view, snap, detailVars, counters>>
                 /\ CancelStep(j))

-----------------------------------------------------------------------------
(***************************************************************************)
(* Properties.                                                             *)
(***************************************************************************)

\* The monitor is between two pulls.
Quiet == pc \in {"idle", "answer"}

\* TUI.md 5: the detail always follows the selected row of the focused panel.
\* Whatever moved the selection (a key, a shorter list, another body height),
\* the detail asked for is the one of the selected task, and only a failed
\* request can leave another text on the screen.
DetailFollows ==
    Quiet => /\ chosen = Selected
             /\ ~failed => detail = chosen

\* A row is one of those the title of the history announces.
Fits(row) ==
    /\ filter.state = "active" => row.state \in ActiveState
    /\ filter.state \notin {"active", "all"} => row.state = filter.state
    /\ filter.edge = AnyEdge /\ filter.role # AnyRole
         => tasks[row.id].to = filter.role
    /\ filter.edge # AnyEdge
         => filter.edge = <<tasks[row.id].from, tasks[row.id].to>>
    /\ filter.text = "word" => row.id \in Hits
    /\ filter.window \in {"hour", "day"} => row.id \notin Old
    /\ filter.retry => tasks[row.id].retry

\* TUI.md 4.2: the rows on the screen are the ones of the filter in the
\* title, whichever key changed it last.  (The role is not tested while an
\* edge is chosen: the request sends the edge only.)
RowsMatchFilter ==
    Quiet => \A i \in DOMAIN snap.history.rows : Fits(snap.history.rows[i])

\* sched.rs cancel_force: a finished cancel has settled the task and every
\* descendant that existed when it read the family, however the tasks moved
\* in between and however many cancels ran over them.
CancelReachesFamily ==
    \A j \in DOMAIN jobs :
      jobs[j].phase = "done" =>
        LET reached == {jobs[j].family[i].id : i \in DOMAIN jobs[j].family}
        IN  /\ jobs[j].root \in reached
            /\ \A t \in 1..jobs[j].upto :
                 tasks[t].parent \in reached => t \in reached
            /\ \A t \in reached : tasks[t].state \in {"cancelled", "closed"}

\* The snapshot is what the scheduler would answer now.
Current ==
    /\ snap.active = Active
    /\ snap.history =
         ListPage(HistoryRequest(filter), PageSize, filter.offset)

\* The screen catches up with the scheduler, whatever failed before, unless
\* the operator leaves the search line open, which stops the pulls.
ViewCatchesUp == []<>(Current \/ search # "closed")

=============================================================================
