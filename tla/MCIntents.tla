------------------------------ MODULE MCIntents ------------------------------
(* Intents with the threads and lines of its TLC runs. *)
EXTENDS Intents

\* Two lines, one of them of a task with an older fault.
OneRecovered == {CHOOSE l \in Line : TRUE}

=============================================================================
