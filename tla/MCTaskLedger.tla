---------------------------- MODULE MCTaskLedger ----------------------------
(* TaskLedger with the threads, the events and the faults of its TLC runs. *)
EXTENDS TaskLedger, TLC

\* Tasks and tabs are interchangeable: no property is a liveness property.
Symmetric == Permutations(Task) \cup Permutations(Handle)

\* The pump by itself: every handler runs to its end before the next event.
PumpOnly == {"pump"}

\* A session that works, fails, quits or dies, over a daemon that fails too.
PumpSpeech == {"ready", "idle", "out", "recycled"}
PumpFaults == {"spawn", "send", "answer", "mail"}

\* What the reap loop tells apart.
WatchSpeech == {"ready", "idle", "idle_pending_exit"}

=============================================================================
