------------------------------ MODULE Process -------------------------------
(***************************************************************************)
(* The processes of one swarm root: the schedulers that are started there, *)
(* in a pane or detached, and the command that stops a detached one        *)
(* (src/main.rs, src/daemon.rs, serve in src/ipc.rs).                      *)
(*                                                                         *)
(* Schedulers share a socket file, a pid file and the daemons of the       *)
(* workspaces, and hold no lock: a starter looks at the socket, takes it   *)
(* over when nobody answers, works on the ledger and binds last, and every *)
(* step of another process may come between.  A process may die anywhere.  *)
(*                                                                         *)
(* What a boot does to the ledger is TaskLedger's and Recovery's subject;  *)
(* here it is one step.  A pid names one process for ever, and the ping    *)
(* and the spawn of a daemon are one step.                                 *)
(***************************************************************************)
EXTENDS FiniteSets, Naturals

CONSTANTS
    Starts,      \* the processes of `run` there may be
    Workspace,   \* the workspaces that need a daemon
    Nobody,      \* no process
    MaxFaults    \* bound of a run: crashes, failures and Ctrl-C together

ASSUME ProcessAssumption == Nobody \notin Starts /\ MaxFaults \in Nat

VARIABLES
    at,        \* how far each process is
    detached,  \* the processes that were started with --detach
    asked,     \* those whose handler was told to shut down
    sock,      \* who bound the socket file that is there
    pid,       \* whose pid the pid file holds
    daemon,    \* who started the daemon of each workspace
    stop,      \* the stop command under way
    faults,
    stolen     \* whether somebody removed the socket of a serving process

processVars == <<at, detached, asked, sock, pid, daemon, stop, faults, stolen>>

NoStop == [step |-> "idle", pid |-> Nobody]

Running(p) == at[p] \notin {"off", "gone"}

\* The signal handlers are installed only when serve has opened the ledger.
Handles(p) == at[p] \in {"boot", "bind", "serve", "leave", "bail", "close"}

\* Whether a connect to the socket file is answered.
SocketAnswers == sock # Nobody /\ at[sock] = "serve"

ProcessInit ==
    /\ at = [p \in Starts |-> "off"]
    /\ detached = {} /\ asked = {}
    /\ sock = Nobody /\ pid = Nobody
    /\ daemon = [w \in Workspace |-> Nobody]
    /\ stop = NoStop
    /\ faults = 0 /\ stolen = FALSE

Goto(p, step) == at' = [at EXCEPT ![p] = step]

Fault == faults < MaxFaults /\ faults' = faults + 1

-----------------------------------------------------------------------------
(***************************************************************************)
(* A scheduler's life.                                                     *)
(***************************************************************************)

\* `run`, in a pane or by way of launch_detached.
Start(p) ==
    /\ at[p] = "off" /\ Goto(p, "ensure")
    /\ detached' \in {detached, detached \cup {p}}
    /\ UNCHANGED <<asked, sock, pid, daemon, stop, faults, stolen>>

\* ensure_all: a daemon for every workspace that has none.  A spawn that
\* fails ends the process and leaves what it spawned running.
Ensure(p) ==
    LET needy == {w \in Workspace : daemon[w] = Nobody}
        Give(ws) == daemon' = [w \in Workspace |-> IF w \in ws THEN p ELSE daemon[w]]
    IN  /\ at[p] = "ensure"
        /\ \/ Give(needy) /\ Goto(p, "pid") /\ UNCHANGED faults
           \/ /\ Fault /\ Goto(p, "gone")
              /\ \E ws \in SUBSET needy : ws # needy /\ Give(ws)
        /\ UNCHANGED <<detached, asked, sock, pid, stop, stolen>>

\* A detached scheduler writes its pid over whatever is there.
WritePid(p) ==
    /\ at[p] = "pid" /\ Goto(p, "look")
    /\ pid' = IF p \in detached THEN p ELSE pid
    /\ UNCHANGED <<detached, asked, sock, daemon, stop, faults, stolen>>

\* serve refuses when somebody answers at the socket ...
MutLook(p) ==
    /\ at[p] = "look"
    /\ Goto(p, IF sock = Nobody THEN "open" ELSE "bail")
    /\ UNCHANGED <<detached, asked, sock, pid, daemon, stop, faults, stolen>>
Look(p) ==
    /\ at[p] = "look"
    /\ Goto(p, IF sock = Nobody THEN "open"
               ELSE IF SocketAnswers THEN "bail" ELSE "take")
    /\ UNCHANGED <<detached, asked, sock, pid, daemon, stop, faults, stolen>>

\* ... and otherwise removes the file, whoever bound it by now.
TakeOver(p) ==
    /\ at[p] = "take" /\ Goto(p, "open")
    /\ sock' = Nobody /\ stolen' = (stolen \/ SocketAnswers)
    /\ UNCHANGED <<detached, asked, pid, daemon, stop, faults>>

\* The ledger is opened, which may fail, and the handlers are installed.
Open(p) ==
    /\ at[p] = "open"
    /\ \/ Goto(p, "boot") /\ UNCHANGED faults
       \/ Fault /\ Goto(p, "bail")
    /\ UNCHANGED <<detached, asked, sock, pid, daemon, stop, stolen>>

\* The boot pass over the ledger.
Boot(p) ==
    /\ at[p] = "boot" /\ Goto(p, "bind")
    /\ UNCHANGED <<detached, asked, sock, pid, daemon, stop, faults, stolen>>

\* A bind fails when the file is there again.
Bind(p) ==
    /\ at[p] = "bind"
    /\ IF sock = Nobody
       THEN sock' = p /\ Goto(p, "serve")
       ELSE Goto(p, "bail") /\ UNCHANGED sock
    /\ UNCHANGED <<detached, asked, pid, daemon, stop, faults, stolen>>

\* The accept loop ends when the flag is seen, or by an error; either way
\* serve removes the socket file.
EndServe(p) ==
    /\ at[p] = "serve"
    /\ \/ p \in asked /\ Goto(p, "leave") /\ UNCHANGED faults
       \/ Fault /\ Goto(p, "bail")
    /\ sock' = Nobody
    /\ stolen' = (stolen \/ (SocketAnswers /\ sock # p))
    /\ UNCHANGED <<detached, asked, pid, daemon, stop>>

\* Back from serve a detached scheduler removes the pid file; an error then
\* ends the process with its daemons still running.
RemovePid(p) ==
    /\ at[p] \in {"leave", "bail"}
    /\ Goto(p, IF at[p] = "leave" THEN "close" ELSE "gone")
    /\ pid' = IF p \in detached THEN Nobody ELSE pid
    /\ UNCHANGED <<detached, asked, sock, daemon, stop, faults, stolen>>

\* stop_all ends the daemons this process started.
StopDaemons(p) ==
    /\ at[p] = "close" /\ Goto(p, "gone")
    /\ daemon' = [w \in Workspace |-> IF daemon[w] = p THEN Nobody ELSE daemon[w]]
    /\ UNCHANGED <<detached, asked, sock, pid, stop, faults, stolen>>

\* SIGTERM or Ctrl-C: a flag once the handler is there, death before.
Signal(p) ==
    IF Handles(p) THEN asked' = asked \cup {p} /\ UNCHANGED at
    ELSE IF Running(p) THEN Goto(p, "gone") /\ UNCHANGED asked
    ELSE UNCHANGED <<at, asked>>

\* Ctrl-C in the pane of a foreground scheduler.
Interrupt(p) ==
    /\ Running(p) /\ p \notin detached \cup asked
    /\ Fault /\ Signal(p)
    /\ UNCHANGED <<detached, sock, pid, daemon, stop, stolen>>

Crash(p) ==
    /\ Running(p) /\ Fault /\ Goto(p, "gone")
    /\ UNCHANGED <<detached, asked, sock, pid, daemon, stop, stolen>>

-----------------------------------------------------------------------------
(***************************************************************************)
(* The stop command.                                                       *)
(***************************************************************************)

\* Without a pid file it does nothing.
StopReads ==
    /\ stop.step = "idle" /\ pid # Nobody
    /\ stop' = [step |-> "term", pid |-> pid]
    /\ UNCHANGED <<at, detached, asked, sock, pid, daemon, faults, stolen>>

StopSignals ==
    /\ stop.step = "term" /\ Signal(stop.pid)
    /\ stop' = [stop EXCEPT !.step = "wait"]
    /\ UNCHANGED <<detached, sock, pid, daemon, faults, stolen>>

\* It waits for the process, and kills one that is still there after five
\* seconds.
MutStopWaits ==
    /\ stop.step = "wait"
    /\ UNCHANGED at
    /\ stop' = [stop EXCEPT !.step = "unpid"]
    /\ UNCHANGED <<detached, asked, sock, pid, daemon, faults, stolen>>
StopWaits ==
    /\ stop.step = "wait"
    /\ IF Running(stop.pid) THEN Goto(stop.pid, "gone") ELSE UNCHANGED at
    /\ stop' = [stop EXCEPT !.step = "unpid"]
    /\ UNCHANGED <<detached, asked, sock, pid, daemon, faults, stolen>>

\* Then it removes both files, whoever they belong to by now.
StopUnpids ==
    /\ stop.step = "unpid" /\ pid' = Nobody
    /\ stop' = [stop EXCEPT !.step = "unsock"]
    /\ UNCHANGED <<at, detached, asked, sock, daemon, faults, stolen>>

StopUnsocks ==
    /\ stop.step = "unsock" /\ sock' = Nobody
    /\ stolen' = (stolen \/ (SocketAnswers /\ sock # stop.pid))
    /\ stop' = NoStop
    /\ UNCHANGED <<at, detached, asked, pid, daemon, faults>>

-----------------------------------------------------------------------------
\* What a process does by itself.
Run(p) ==
    \/ Ensure(p) \/ WritePid(p) \/ Look(p) \/ TakeOver(p) \/ Open(p)
    \/ Boot(p) \/ Bind(p) \/ EndServe(p) \/ RemovePid(p) \/ StopDaemons(p)

StopCommand ==
    StopReads \/ StopSignals \/ StopWaits \/ StopUnpids \/ StopUnsocks

ProcessNext ==
    \/ \E p \in Starts : Start(p) \/ Run(p) \/ Interrupt(p) \/ Crash(p)
    \/ StopCommand

\* A process that can go on goes on, unless something fails, and so does a
\* stop that has begun.
ProcessSpec ==
    /\ ProcessInit /\ [][ProcessNext]_processVars
    /\ \A p \in Starts : WF_processVars(Run(p) /\ UNCHANGED faults)
    /\ WF_processVars(stop.step # "idle" /\ StopCommand)

-----------------------------------------------------------------------------
(***************************************************************************)
(* Properties.                                                             *)
(***************************************************************************)

\* root.rs: "the scheduler remains single-instance at the root socket".  There
\* is no lock, and the claim holds as long as nobody removes the socket of a
\* scheduler that serves: a second one serves only after a starter or a stop
\* command did that, through a file it took for stale.  Neither a crash, nor
\* starters that race, nor a stop that has to kill is enough.
OneServing ==
    stolen \/ Cardinality({p \in Starts : at[p] = "serve"}) =< 1

\* main.rs: "serve() takes over stale sockets".  No file a dead process left
\* keeps the root from being served: a starter that nobody races or signals
\* serves in the end, once no more faults happen.
Undisturbed(p) ==
    /\ p \notin asked /\ stop.step = "idle"
    /\ \A q \in Starts \ {p} : ~Running(q)
    /\ faults = MaxFaults

LoneStarterServes ==
    \A p \in Starts :
      at[p] = "ensure" /\ []Undisturbed(p) ~> at[p] = "serve"
=============================================================================
