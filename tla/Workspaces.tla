----------------------------- MODULE Workspaces -----------------------------
(***************************************************************************)
(* The tree of workspaces: the description files (src/template.rs), the    *)
(* sync that makes the child workspaces of them (src/sync.rs), and the     *)
(* toggle_swarm request that writes into one (src/ipc.rs).                 *)
(*                                                                         *)
(* A description is a layer: the root's own, one per directory of the      *)
(* schedule, and the overlay inside a workspace.  A sync loads the tree    *)
(* once and then goes from workspace to workspace; in a new one it writes  *)
(* four files, each by truncating and filling it, and it may die between   *)
(* any two steps.  A request of the scheduler rewrites config.toml without *)
(* knowing of a sync, and the owner edits descriptions at any time.        *)
(*                                                                         *)
(* Left out: scalars other than the role, which merge as the role does;    *)
(* the reports on orphans, links and the terminal's own tree, which only   *)
(* read; the root's config.toml, which no sync writes.  One sync at a time *)
(* and an owner who writes whole files.                                    *)
(***************************************************************************)
EXTENDS Naturals, Sequences, SequencesExt

CONSTANTS
    Dirs,        \* the directories there may be, in the order of a sync
    Words,       \* the [role, edges] a description may say
    MaxEdits,    \* bound of a run: edits of the owner and toggles together
    MaxCrashes   \* bound of a run

Dir == Range(Dirs)

\* The tree path of the root, and a directory that is not there.
Root == <<>>
NoLayer == [role |-> "none", edges |-> {}]
Silent == [role |-> "", edges |-> {}]

ASSUME WorkspacesAssumption ==
    /\ Dirs \in Seq(Dir)
    /\ Root \notin Dir
    /\ \A i, j \in DOMAIN Dirs : Dirs[i] = Dirs[j] => i = j
    /\ \A d \in Dir : d \in Seq(Range(d)) /\ ".." \notin Range(d)
    /\ NoLayer \notin Words /\ Silent \in Words
    /\ \A w \in Words : \A e \in w.edges : e \in Seq(Range(e))
    /\ MaxEdits \in Nat /\ MaxCrashes \in Nat

\* What bootstrap_child writes into a new workspace, in its order: the
\* packages, the watcher switch, the snapshot of the description, and last
\* the config whose presence says that the workspace exists.
MutParts == <<"config", "settings", "watch", "overlay">>
Parts == <<"settings", "watch", "overlay", "config">>

Part == Range(Parts)

\* A file is absent, truncated, written by a sync, or somebody else's.
FileState == {"absent", "torn", "whole", "own"}

VARIABLES
    layer,     \* the description of the root and of each directory
    file,      \* the state of the files of each workspace
    word,      \* what its overlay says, when it can be read
    on,        \* the [swarm] switch of its config.toml, when it can be read
    made,      \* the workspaces whose .onlyne directory exists
    rootPi,    \* whether the root has packages a child can be given
    job,       \* the sync that runs, or the last one
    toggle,    \* the toggle_swarm request under way
    edits,     \* how many edits and toggles there were
    crashes    \* how many crashes there were

disk == <<file, word, on, made>>
vars == <<layer, disk, rootPi, job, toggle, edits, crashes>>

NoJob == [step |-> "idle", tree |-> <<>>, todo |-> {}, part |-> 1, gaps |-> {}]
NoToggle == [step |-> "idle", dir |-> Root, text |-> "absent", want |-> TRUE]

Readable(state) == state \in {"whole", "own"}

-----------------------------------------------------------------------------
(***************************************************************************)
(* The effective description of a workspace.                               *)
(***************************************************************************)

\* One step of an edge: down, or up, which stays at the root when it would
\* leave the tree.
Walk(path, step) ==
    IF step # ".." THEN Append(path, step)
    ELSE IF path = <<>> THEN path ELSE Front(path)

\* Where the steps of an edge lead.
Resolve(from, edge) ==
    LET path[i \in 0..Len(edge)] ==
          IF i = 0 THEN from ELSE Walk(path[i - 1], edge[i])
    IN  path[Len(edge)]

\* normalize_edge: an edge with a step up is resolved from the workspace that
\* declares it; any other one is a path from the root already.
MutNormalize(from, edge) == Resolve(from, edge)
Normalize(from, edge) ==
    IF ".." \in Range(edge) THEN Resolve(from, edge) ELSE edge

Tree == {d \in Dir : layer[d] # NoLayer}

Overlay(d) == IF Readable(file[d]["overlay"]) THEN word[d] ELSE Silent

\* The layers that speak of a workspace, the strongest last.
LayersOf(d) ==
    [i \in 1..(Len(d) + 1) |-> layer[SubSeq(d, 1, i - 1)]] \o <<Overlay(d)>>

\* The role is the last one stated on the way down; the edges are those of
\* the root, of the workspace's own template and of its overlay.
Effective(d) ==
    LET said == SelectSeq(LayersOf(d), LAMBDA l : l.role # "")
    IN  [role  |-> IF said = <<>> THEN "" ELSE Last(said).role,
         edges |-> {Normalize(Root, e) : e \in layer[Root].edges}
                     \cup {Normalize(d, e) : e \in layer[d].edges}
                     \cup {Normalize(d, e) : e \in Overlay(d).edges}]

\* load_tree fails on a file that does not parse and on an edge that leads
\* nowhere.
Loads ==
    \A d \in Tree :
      /\ file[d]["overlay"] # "torn"
      /\ Effective(d).edges \subseteq Tree \cup {Root}

\* swarm_ready_gaps: what keeps a workspace from being used.
MutUnready(d) == ~(Readable(file[d]["config"]) /\ on[d])
Unready(d) ==
    ~(/\ Readable(file[d]["config"]) /\ on[d]
      /\ Readable(file[d]["watch"])
      /\ Readable(file[d]["settings"]))

-----------------------------------------------------------------------------
Init ==
    /\ layer = [d \in Dir \cup {Root} |-> Silent]
    /\ file = [d \in Dir |-> [p \in Part |-> "absent"]]
    /\ word = [d \in Dir |-> Silent]
    /\ on = [d \in Dir |-> FALSE]
    /\ made = {}
    /\ rootPi = TRUE
    /\ job = NoJob /\ toggle = NoToggle
    /\ edits = 0 /\ crashes = 0

-----------------------------------------------------------------------------
(***************************************************************************)
(* run_sync.                                                               *)
(***************************************************************************)

\* The tree is read once.
Load ==
    /\ job.step \in {"idle", "done", "failed"}
    /\ job' = IF Loads
              THEN [NoJob EXCEPT !.step = "visit",
                                 !.tree = [d \in Tree |-> Effective(d)],
                                 !.todo = Tree]
              ELSE [NoJob EXCEPT !.step = "failed"]
    /\ UNCHANGED <<layer, disk, rootPi, toggle, edits, crashes>>

\* The first directory a sync has not done yet.
Turn(d) ==
    /\ d \in job.todo
    /\ \E i \in DOMAIN Dirs : d = Dirs[i] /\ \A j \in 1..(i - 1) : Dirs[j] \notin job.todo

Visiting(d) == job.step = "visit" /\ Turn(d)

\* A workspace without a config is new.  The packages of the root are checked
\* before anything is written; without them the whole sync stops.
Missing(d) == file[d]["config"] = "absent"

VisitNew(d) ==
    /\ Visiting(d) /\ Missing(d)
    /\ IF rootPi
       THEN /\ job' = [job EXCEPT !.step = "open", !.part = 1]
            /\ made' = made \cup {d}
       ELSE /\ job' = [job EXCEPT !.step = "failed"]
            /\ UNCHANGED made
    /\ UNCHANGED <<layer, file, word, on, rootPi, toggle, edits, crashes>>

\* An existing workspace is looked at only.
VisitOld(d) ==
    /\ Visiting(d) /\ ~Missing(d)
    /\ job' = [job EXCEPT !.todo = @ \ {d},
                          !.gaps = IF Unready(d) THEN @ \cup {d} ELSE @]
    /\ made' = made \cup {d}
    /\ UNCHANGED <<layer, file, word, on, rootPi, toggle, edits, crashes>>

\* A write truncates the file ...
OpenPart(d) ==
    /\ job.step = "open" /\ Turn(d)
    /\ file' = [file EXCEPT ![d][Parts[job.part]] = "torn"]
    /\ job' = [job EXCEPT !.step = "fill"]
    /\ UNCHANGED <<layer, word, on, made, rootPi, toggle, edits, crashes>>

\* ... and fills it.
MutAfterPart(d) == [job EXCEPT !.step = "open", !.part = @ + 1]
AfterPart(d) ==
    IF job.part < Len(Parts)
    THEN [job EXCEPT !.step = "open", !.part = @ + 1]
    ELSE [job EXCEPT !.step = "visit", !.todo = @ \ {d}]

FillPart(d) ==
    /\ job.step = "fill" /\ Turn(d)
    /\ file' = [file EXCEPT ![d][Parts[job.part]] = "whole"]
    /\ word' = IF Parts[job.part] = "overlay"
               THEN [word EXCEPT ![d] = job.tree[d]] ELSE word
    /\ on' = IF Parts[job.part] = "config" THEN [on EXCEPT ![d] = TRUE] ELSE on
    /\ job' = AfterPart(d)
    /\ UNCHANGED <<layer, made, rootPi, toggle, edits, crashes>>

Finish ==
    /\ job.step = "visit" /\ job.todo = {}
    /\ job' = [job EXCEPT !.step = "done"]
    /\ UNCHANGED <<layer, disk, rootPi, toggle, edits, crashes>>

Crash ==
    /\ crashes < MaxCrashes
    /\ \/ job' = NoJob /\ UNCHANGED toggle      \* of the command that syncs
       \/ toggle' = NoToggle /\ UNCHANGED job   \* of the scheduler
    /\ crashes' = crashes + 1
    /\ UNCHANGED <<layer, disk, rootPi, edits>>

-----------------------------------------------------------------------------
(***************************************************************************)
(* toggle_swarm.                                                           *)
(***************************************************************************)

\* The text is read first; a config that is missing or empty reads as empty.
ReadConfig(d, want) ==
    /\ toggle.step = "idle"
    /\ edits < MaxEdits /\ edits' = edits + 1
    /\ toggle' = [step |-> "open", dir |-> d, want |-> want,
                  text |-> file[d]["config"]]
    /\ UNCHANGED <<layer, disk, rootPi, job, crashes>>

\* The write fails when the workspace has no directory yet.
OpenConfig ==
    /\ toggle.step = "open"
    /\ IF toggle.dir \in made
       THEN /\ file' = [file EXCEPT ![toggle.dir]["config"] = "torn"]
            /\ toggle' = [toggle EXCEPT !.step = "fill"]
       ELSE /\ toggle' = NoToggle
            /\ UNCHANGED file
    /\ UNCHANGED <<layer, word, on, made, rootPi, job, edits, crashes>>

\* A text with a [swarm] table keeps what else it says; an empty one becomes
\* that table alone.
FillConfig ==
    /\ toggle.step = "fill"
    /\ file' = [file EXCEPT ![toggle.dir]["config"] =
                  IF Readable(toggle.text) THEN toggle.text ELSE "own"]
    /\ on' = [on EXCEPT ![toggle.dir] = toggle.want]
    /\ toggle' = NoToggle
    /\ UNCHANGED <<layer, word, made, rootPi, job, edits, crashes>>

-----------------------------------------------------------------------------
(***************************************************************************)
(* The owner of the tree.                                                  *)
(***************************************************************************)

Edit ==
    /\ edits < MaxEdits /\ edits' = edits + 1
    /\ UNCHANGED <<on, job, toggle, crashes>>

Below(d) == {e \in Dir : Len(e) >= Len(d) /\ SubSeq(e, 1, Len(d)) = d}

\* A layer is rewritten, added together with the directories above it, or
\* removed together with those below it.
EditLayer ==
    /\ Edit
    /\ \/ \E d \in Dir, w \in Words :
            layer' = [e \in DOMAIN layer |->
                        IF e = d THEN w
                        ELSE IF e # Root /\ d \in Below(e) /\ layer[e] = NoLayer
                        THEN Silent ELSE layer[e]]
       \/ \E w \in Words : layer' = [layer EXCEPT ![Root] = w]
       \/ \E d \in Tree :
            layer' = [e \in DOMAIN layer |->
                        IF e \in Below(d) THEN NoLayer ELSE layer[e]]
    /\ UNCHANGED <<file, word, made, rootPi>>

\* An overlay is written by hand, before the workspace exists or later.
EditOverlay(d, w) ==
    /\ Edit
    /\ file' = [file EXCEPT ![d]["overlay"] = "own"]
    /\ word' = [word EXCEPT ![d] = w]
    /\ made' = made \cup {d}
    /\ UNCHANGED <<layer, rootPi>>

\* The packages of the root are taken away or put back.
EditPackages ==
    /\ Edit
    /\ rootPi' = ~rootPi
    /\ UNCHANGED <<layer, file, word, made>>

-----------------------------------------------------------------------------
Sync ==
    \/ Load \/ Finish
    \/ \E d \in Dir : VisitNew(d) \/ VisitOld(d) \/ OpenPart(d) \/ FillPart(d)

Toggle ==
    \/ OpenConfig \/ FillConfig
    \/ \E d \in Dir, want \in BOOLEAN : ReadConfig(d, want)

Owner ==
    \/ EditLayer \/ EditPackages
    \/ \E d \in Dir, w \in Words : EditOverlay(d, w)

Next == Sync \/ Toggle \/ Owner \/ Crash

Spec == Init /\ [][Next]_vars

-----------------------------------------------------------------------------
(***************************************************************************)
(* Properties.                                                             *)
(***************************************************************************)

TypeOK ==
    /\ layer \in [Dir \cup {Root} -> Words \cup {NoLayer}]
    /\ file \in [Dir -> [Part -> FileState]]
    /\ on \in [Dir -> BOOLEAN] /\ made \subseteq Dir /\ rootPi \in BOOLEAN
    /\ job.step \in {"idle", "visit", "open", "fill", "done", "failed"}
    /\ job.step \in {"open", "fill"} => job.todo # {}
    /\ DOMAIN job.tree \subseteq Dir /\ job.todo \subseteq DOMAIN job.tree
    /\ job.part \in DOMAIN Parts /\ job.gaps \subseteq Dir
    /\ toggle.step \in {"idle", "open", "fill"} /\ toggle.text \in FileState
    /\ toggle.want \in BOOLEAN
    /\ toggle.step # "idle" => toggle.dir \in Dir

\* sync.rs: the config is what says that a workspace exists, and a sync
\* writes it last.  Whenever the config of a sync is there, so is everything
\* else of the workspace, wherever a crash, a toggle or an edit came between.
Complete ==
    \A d \in Dir :
      file[d]["config"] = "whole" => \A p \in Part : Readable(file[d][p])

\* A sync that succeeds leaves no workspace of its tree half made without
\* saying so: each one has a config, and one that a crash and a toggle kept
\* from being made is among the gaps it reports.
NothingHalfMade ==
    job.step = "done" =>
      \A d \in DOMAIN job.tree :
        /\ file[d]["config"] # "absent"
        /\ d \notin job.gaps =>
             Readable(file[d]["settings"]) /\ Readable(file[d]["watch"])

\* template.rs: a description "that repeats the snapshot's absolute form
\* round-trips instead of doubling the prefix".  What a sync writes down means
\* the same the next time it is read.
SnapshotRoundTrips ==
    \A d \in Dir :
      file[d]["overlay"] = "whole"
        => {Normalize(d, e) : e \in word[d].edges} = word[d].edges
=============================================================================
