-------------------------- MODULE WorkspacesProofs --------------------------
(***************************************************************************)
(* That a workspace whose config was written by a sync is complete, for    *)
(* every tree, every set of descriptions, and any number of edits, toggles *)
(* and crashes.                                                            *)
(*                                                                         *)
(* Complete by itself is not inductive.  A sync that writes a file of a    *)
(* workspace could break it if the config were there already, and so could *)
(* a toggle that puts back a config it read earlier.  The invariant says   *)
(* why neither happens: the workspace a sync writes had no config when it  *)
(* was visited, and only the sync makes one (Writing); a toggle that holds *)
(* the text of a complete workspace is never aimed at one that is being    *)
(* written (Holding).                                                      *)
(*                                                                         *)
(* The last part is about what is written: a sync resolves every edge, and *)
(* a resolved edge means the same from wherever it is read.                *)
(***************************************************************************)
EXTENDS Workspaces, WellFoundedInduction, TLAPS

Rest == {"settings", "watch", "overlay"}

FilesOK == file \in [Dir -> [Part -> FileState]]

\* The sync is at work in workspace d.
At(d) == job.step \in {"open", "fill"} /\ Turn(d)

\* The toggle under way read the config of a complete workspace.
Holds(d) == toggle.step # "idle" /\ toggle.dir = d /\ toggle.text = "whole"

\* What a sync has written of the workspace it is in, and that nobody else
\* can have made its config.
Writing ==
    \A d \in Dir : At(d) =>
      /\ job.part \in 1..4
      /\ file[d]["config"] # "whole" /\ ~Holds(d)
      /\ \A i \in 1..4 : i < job.part => Readable(file[d][Parts[i]])

Holding ==
    \A d \in Dir : Holds(d) =>
      /\ file[d]["config"] # "absent"
      /\ \A p \in Rest : Readable(file[d][p])

ToggleOK == toggle.step # "idle" => toggle.dir \in Dir /\ toggle.text \in FileState

SyncInv == FilesOK /\ ToggleOK /\ Writing /\ Holding /\ Complete

\* The files of a workspace, and the order in which a sync writes them.
LEMMA PartFacts ==
    /\ Part = Rest \cup {"config"}
    /\ Parts[1] = "settings" /\ Parts[2] = "watch"
    /\ Parts[3] = "overlay" /\ Parts[4] = "config" /\ Len(Parts) = 4
    /\ \A i \in 1..4 : Parts[i] \in Part
    /\ \A i, j \in 1..4 : Parts[i] = Parts[j] => i = j
<1>1. DOMAIN Parts = 1..4
  BY DEF Parts
<1>2. Part = {Parts[i] : i \in 1..4}
  BY <1>1 DEF Part, Range
<1>3. /\ Parts[1] = "settings" /\ Parts[2] = "watch"
      /\ Parts[3] = "overlay" /\ Parts[4] = "config" /\ Len(Parts) = 4
  BY DEF Parts
<1>4. 1..4 = {1, 2, 3, 4}
  OBVIOUS
<1>5. Part = Rest \cup {"config"}
  BY <1>2, <1>3, <1>4 DEF Rest
<1>6. /\ \A i \in 1..4 : Parts[i] \in Part
      /\ \A i, j \in 1..4 : Parts[i] = Parts[j] => i = j
  BY <1>2, <1>3, <1>4
<1>. QED
  BY <1>3, <1>5, <1>6

\* A sync is in one workspace at a time.
LEMMA TurnIsUnique ==
    ASSUME NEW d, NEW e, Turn(d), Turn(e)
    PROVE  d = e
<1>1. PICK i \in DOMAIN Dirs :
        d = Dirs[i] /\ \A k \in 1..(i - 1) : Dirs[k] \notin job.todo
  BY DEF Turn
<1>2. PICK j \in DOMAIN Dirs :
        e = Dirs[j] /\ \A k \in 1..(j - 1) : Dirs[k] \notin job.todo
  BY DEF Turn
<1>3. DOMAIN Dirs = 1..Len(Dirs) /\ Len(Dirs) \in Nat
  BY WorkspacesAssumption
<1>4. i = j
  <2>1. ~(i < j) /\ ~(j < i)
    BY <1>1, <1>2, <1>3 DEF Turn
  <2>. QED
    BY <1>3, <2>1
<1>. QED
  BY <1>1, <1>2, <1>4

\* Whose turn it is depends on what is left to do.
LEMMA TurnKept ==
    ASSUME job'.todo = job.todo, NEW d
    PROVE  Turn(d)' <=> Turn(d)
BY DEF Turn

LEMMA SyncInvInit == Init => SyncInv
<1>. SUFFICES ASSUME Init PROVE SyncInv
  OBVIOUS
<1>1. FilesOK
  BY DEF Init, FilesOK, FileState
<1>2. ToggleOK /\ Writing /\ Holding
  BY DEF Init, ToggleOK, Writing, Holding, At, Holds, NoJob, NoToggle
<1>3. Complete
  BY PartFacts DEF Init, Complete
<1>. QED
  BY <1>1, <1>2, <1>3 DEF SyncInv

\* A step that leaves the files alone, moves no sync into a workspace and
\* starts no toggle keeps the invariant.
LEMMA Elsewhere ==
    ASSUME SyncInv, UNCHANGED file, ToggleOK',
           \A d \in Dir : At(d)' => At(d) /\ job'.part = job.part,
           \A d \in Dir : Holds(d)' => Holds(d)
    PROVE  SyncInv'
<1>1. FilesOK' /\ Complete'
  BY DEF SyncInv, FilesOK, Complete
<1>2. Holding'
  BY DEF SyncInv, Holding
<1>3. Writing'
  <2>. SUFFICES ASSUME NEW d \in Dir, At(d)'
                PROVE  /\ job'.part \in 1..4
                       /\ file'[d]["config"] # "whole" /\ ~Holds(d)'
                       /\ \A i \in 1..4 :
                            i < job'.part => Readable(file'[d][Parts[i]])
    BY DEF Writing
  <2>. QED
    BY DEF SyncInv, Writing
<1>. QED
  BY <1>1, <1>2, <1>3 DEF SyncInv

\* A new workspace has no config, so no toggle holds one.
LEMMA VisitNewKeeps ==
    ASSUME SyncInv, NEW d \in Dir, VisitNew(d)
    PROVE  SyncInv'
<1>1. /\ UNCHANGED <<file, toggle>>
      /\ Turn(d) /\ job'.todo = job.todo
      /\ file[d]["config"] = "absent"
      /\ job'.step \in {"open", "failed"}
      /\ job'.step = "open" => job'.part = 1
  <2>1. CASE rootPi
    <3>1. job' = [job EXCEPT !.step = "open", !.part = 1]
      BY <2>1 DEF VisitNew
    <3>. QED
      BY <3>1 DEF VisitNew, Visiting, Missing
  <2>2. CASE ~rootPi
    <3>1. job' = [job EXCEPT !.step = "failed"]
      BY <2>2 DEF VisitNew
    <3>. QED
      BY <3>1 DEF VisitNew, Visiting, Missing
  <2>. QED
    BY <2>1, <2>2
<1>2. FilesOK' /\ ToggleOK' /\ Complete' /\ Holding'
  BY <1>1 DEF SyncInv, FilesOK, ToggleOK, Complete, Holding, Holds
<1>3. Writing'
  BY <1>1, TurnIsUnique, TurnKept DEF SyncInv, Writing, Holding, At, Holds
<1>. QED
  BY <1>2, <1>3 DEF SyncInv

LEMMA OpenPartKeeps ==
    ASSUME SyncInv, NEW d \in Dir, OpenPart(d)
    PROVE  SyncInv'
<1>1. /\ At(d)
      /\ file' = [file EXCEPT ![d][Parts[job.part]] = "torn"]
      /\ job'.todo = job.todo /\ job'.part = job.part
      /\ job'.step = "fill" /\ UNCHANGED toggle
  BY DEF OpenPart, At
<1>2. /\ job.part \in 1..4 /\ file[d]["config"] # "whole" /\ ~Holds(d)
      /\ \A i \in 1..4 : i < job.part => Readable(file[d][Parts[i]])
  BY <1>1 DEF SyncInv, Writing
<1>3. Parts[job.part] \in Part
  BY <1>2, PartFacts
<1>0. ToggleOK'
  BY <1>1 DEF SyncInv, ToggleOK
<1>4. /\ FilesOK' /\ \A e \in Dir : e # d => file'[e] = file[e]
      /\ \A p \in Part : file'[d][p] = IF p = Parts[job.part]
                                       THEN "torn" ELSE file[d][p]
  BY <1>1, <1>3 DEF SyncInv, FilesOK, FileState
<1>5. Complete'
  <2>1. file'[d]["config"] # "whole"
    BY <1>2, <1>4, PartFacts
  <2>. QED
    BY <1>4, <2>1 DEF SyncInv, Complete
<1>6. Holding'
  BY <1>1, <1>2, <1>4 DEF SyncInv, Holding, Holds
<1>7. Writing'
  <2>. SUFFICES ASSUME NEW e \in Dir, At(e)'
                PROVE  /\ job'.part \in 1..4
                       /\ file'[e]["config"] # "whole" /\ ~Holds(e)'
                       /\ \A i \in 1..4 :
                            i < job'.part => Readable(file'[e][Parts[i]])
    BY DEF Writing
  <2>1. e = d
    BY <1>1, TurnIsUnique, TurnKept DEF At
  <2>2. \A i \in 1..4 : i < job.part => Parts[i] # Parts[job.part]
    BY <1>2, PartFacts
  <2>3. \A i \in 1..4 : i < job.part => file'[d][Parts[i]] = file[d][Parts[i]]
    BY <1>4, <2>2, PartFacts
  <2>4. file'[d]["config"] # "whole"
    BY <1>2, <1>4, PartFacts
  <2>. QED
    BY <1>1, <1>2, <2>1, <2>3, <2>4 DEF Holds
<1>. QED
  BY <1>0, <1>4, <1>5, <1>6, <1>7 DEF SyncInv

LEMMA FillPartKeeps ==
    ASSUME SyncInv, NEW d \in Dir, FillPart(d)
    PROVE  SyncInv'
<1>1. /\ At(d)
      /\ file' = [file EXCEPT ![d][Parts[job.part]] = "whole"]
      /\ job' = AfterPart(d) /\ UNCHANGED toggle
  BY DEF FillPart, At
<1>2. /\ job.part \in 1..4 /\ file[d]["config"] # "whole" /\ ~Holds(d)
      /\ \A i \in 1..4 : i < job.part => Readable(file[d][Parts[i]])
  BY <1>1 DEF SyncInv, Writing
<1>3. Parts[job.part] \in Part
  BY <1>2, PartFacts
<1>0. ToggleOK'
  BY <1>1 DEF SyncInv, ToggleOK
<1>4. /\ FilesOK' /\ \A e \in Dir : e # d => file'[e] = file[e]
      /\ \A p \in Part : file'[d][p] = IF p = Parts[job.part]
                                       THEN "whole" ELSE file[d][p]
  BY <1>1, <1>3 DEF SyncInv, FilesOK, FileState
<1>5. CASE job.part < 4
  <2>1. /\ job'.todo = job.todo /\ job'.part = job.part + 1
        /\ job'.step = "open"
    BY <1>1, <1>5, PartFacts DEF AfterPart, At
  <2>2. file'[d]["config"] # "whole"
    <3>1. Parts[job.part] # "config"
      BY <1>2, <1>5, PartFacts
    <3>. QED
      BY <1>2, <1>4, <3>1, PartFacts
  <2>3. Complete' /\ Holding'
    BY <1>1, <1>2, <1>4, <2>2 DEF SyncInv, Complete, Holding, Holds
  <2>4. \A i \in 1..4 : i < job.part + 1 => Readable(file'[d][Parts[i]])
    <3>. SUFFICES ASSUME NEW i \in 1..4, i < job.part + 1
                  PROVE  Readable(file'[d][Parts[i]])
      OBVIOUS
    <3>1. i < job.part \/ i = job.part
      BY <1>2
    <3>. QED
      BY <1>2, <1>4, <3>1, PartFacts DEF Readable
  <2>5. Writing'
    BY <1>1, <1>2, <1>5, <2>1, <2>2, <2>4, TurnIsUnique, TurnKept
    DEF Writing, At, Holds
  <2>. QED
    BY <1>0, <1>4, <2>3, <2>5 DEF SyncInv
<1>6. CASE job.part = 4
  <2>1. job'.step = "visit"
    BY <1>1, <1>6, PartFacts DEF AfterPart, At
  <2>2. \A p \in Part : Readable(file'[d][p])
    <3>1. \A p \in Rest : Readable(file[d][p])
      BY <1>2, <1>6, PartFacts DEF Rest
    <3>2. Parts[job.part] = "config"
      BY <1>6, PartFacts
    <3>3. \A p \in Part : p = "config" \/ p \in Rest
      BY PartFacts
    <3>. QED
      BY <1>4, <3>1, <3>2, <3>3 DEF Readable
  <2>3. Complete' /\ Holding'
    BY <1>1, <1>2, <1>4, <2>2 DEF SyncInv, Complete, Holding, Holds
  <2>4. Writing'
    BY <2>1 DEF Writing, At
  <2>. QED
    BY <1>0, <1>4, <2>3, <2>4 DEF SyncInv
<1>. QED
  BY <1>2, <1>5, <1>6

\* A toggle that starts where a sync writes reads no complete config.
LEMMA ReadConfigKeeps ==
    ASSUME SyncInv, NEW d \in Dir, NEW want \in BOOLEAN, ReadConfig(d, want)
    PROVE  SyncInv'
<1>1. /\ UNCHANGED <<file, job>>
      /\ toggle'.dir = d /\ toggle'.text = file[d]["config"]
  BY DEF ReadConfig, disk
<1>2. FilesOK' /\ Complete'
  BY <1>1 DEF SyncInv, FilesOK, Complete
<1>0. ToggleOK'
  <2>1. file[d]["config"] \in FileState
    BY PartFacts DEF SyncInv, FilesOK
  <2>. QED
    BY <1>1, <2>1 DEF ToggleOK
<1>3. Holding'
  BY <1>1, PartFacts DEF SyncInv, Holding, Holds, Complete
<1>4. Writing'
  BY <1>1 DEF SyncInv, Writing, At, Turn, Holds
<1>. QED
  BY <1>0, <1>2, <1>3, <1>4 DEF SyncInv

\* What the toggle writes: nothing, then a config that is complete only when
\* the workspace is.
LEMMA ConfigWriteKeeps ==
    ASSUME SyncInv, NEW d \in Dir, NEW s \in FileState,
           file' = [file EXCEPT ![d]["config"] = s],
           UNCHANGED job, s # "absent", ToggleOK',
           s = "whole" => Holds(d),
           \A e \in Dir : Holds(e)' => Holds(e)
    PROVE  SyncInv'
<1>1. /\ FilesOK' /\ \A e \in Dir : e # d => file'[e] = file[e]
      /\ file'[d]["config"] = s
      /\ \A p \in Rest : file'[d][p] = file[d][p]
  BY PartFacts DEF SyncInv, FilesOK, Rest
<1>2. Complete'
  <2>. SUFFICES ASSUME NEW e \in Dir, file'[e]["config"] = "whole",
                       NEW p \in Part
                PROVE  Readable(file'[e][p])
    BY DEF Complete
  <2>1. CASE e # d
    BY <1>1, <2>1 DEF SyncInv, Complete
  <2>2. CASE e = d
    BY <1>1, <2>2, PartFacts DEF SyncInv, Holding, Readable
  <2>. QED
    BY <2>1, <2>2
<1>3. Holding'
  BY <1>1 DEF SyncInv, Holding
<1>4. Writing'
  <2>. SUFFICES ASSUME NEW e \in Dir, At(e)'
                PROVE  /\ job'.part \in 1..4
                       /\ file'[e]["config"] # "whole" /\ ~Holds(e)'
                       /\ \A i \in 1..4 :
                            i < job'.part => Readable(file'[e][Parts[i]])
    BY DEF Writing
  <2>1. At(e)
    BY DEF At, Turn
  <2>2. /\ job.part \in 1..4 /\ file[e]["config"] # "whole" /\ ~Holds(e)
        /\ \A i \in 1..4 : i < job.part => Readable(file[e][Parts[i]])
    BY <2>1 DEF SyncInv, Writing
  <2>3. file'[e]["config"] # "whole"
    BY <1>1, <2>2
  <2>4. \A i \in 1..4 : i < job.part => Parts[i] \in Rest
    BY <2>2, PartFacts DEF Rest
  <2>5. \A i \in 1..4 : i < job.part => file'[e][Parts[i]] = file[e][Parts[i]]
    BY <1>1, <2>4
  <2>. QED
    BY <2>2, <2>3, <2>5
<1>. QED
  BY <1>1, <1>2, <1>3, <1>4 DEF SyncInv

LEMMA EditOverlayKeeps ==
    ASSUME SyncInv, NEW d \in Dir, NEW w \in Words, EditOverlay(d, w)
    PROVE  SyncInv'
<1>1. /\ file' = [file EXCEPT ![d]["overlay"] = "own"]
      /\ UNCHANGED <<job, toggle>>
  BY DEF EditOverlay, Edit
<1>0. ToggleOK'
  BY <1>1 DEF SyncInv, ToggleOK
<1>2. /\ FilesOK' /\ \A e \in Dir : e # d => file'[e] = file[e]
      /\ \A p \in Part : file'[d][p] = IF p = "overlay" THEN "own" ELSE file[d][p]
  BY <1>1, PartFacts DEF SyncInv, FilesOK, FileState, Rest
<1>3. \A e \in Dir, p \in Part :
        /\ Readable(file[e][p]) => Readable(file'[e][p])
        /\ p = "config" => file'[e][p] = file[e][p]
  BY <1>2 DEF Readable
<1>4. Complete' /\ Holding'
  BY <1>1, <1>3, PartFacts DEF SyncInv, Complete, Holding, Holds
<1>5. Writing'
  BY <1>1, <1>3, PartFacts DEF SyncInv, Writing, At, Turn, Holds
<1>. QED
  BY <1>0, <1>2, <1>4, <1>5 DEF SyncInv

\* A toggle truncates the config it read, unless there is no workspace.
LEMMA OpenConfigKeeps ==
    ASSUME SyncInv, OpenConfig
    PROVE  SyncInv'
<1>. DEFINE d == toggle.dir
<1>1. d \in Dir /\ toggle.text \in FileState /\ UNCHANGED job
  BY DEF SyncInv, ToggleOK, OpenConfig
<1>2. CASE d \in made
  <2>1. /\ file' = [file EXCEPT ![d]["config"] = "torn"]
        /\ toggle' = [toggle EXCEPT !.step = "fill"]
    BY <1>2 DEF OpenConfig
  <2>2. /\ ToggleOK' /\ \A e \in Dir : Holds(e)' => Holds(e)
        /\ "torn" \in FileState
    BY <1>1, <2>1 DEF ToggleOK, Holds, OpenConfig, FileState
  <2>. QED
    BY <1>1, <2>1, <2>2, ConfigWriteKeeps
<1>3. CASE d \notin made
  <2>1. UNCHANGED file /\ toggle' = NoToggle
    BY <1>3 DEF OpenConfig
  <2>2. ToggleOK' /\ \A e \in Dir : ~Holds(e)' /\ (At(e)' => At(e))
    BY <1>1, <2>1 DEF ToggleOK, Holds, At, Turn, NoToggle
  <2>. QED
    BY <1>1, <2>1, <2>2, Elsewhere
<1>. QED
  BY <1>2, <1>3

\* It writes back the text it read, or one of its own.
LEMMA FillConfigKeeps ==
    ASSUME SyncInv, FillConfig
    PROVE  SyncInv'
<1>. DEFINE d == toggle.dir
            s == IF Readable(toggle.text) THEN toggle.text ELSE "own"
<1>1. /\ d \in Dir /\ s \in FileState /\ s # "absent" /\ UNCHANGED job
      /\ file' = [file EXCEPT ![d]["config"] = s] /\ toggle' = NoToggle
  BY DEF SyncInv, ToggleOK, FillConfig, FileState, Readable
<1>2. s = "whole" => Holds(d)
  BY DEF Holds, FillConfig, Readable
<1>3. ToggleOK' /\ \A e \in Dir : ~Holds(e)'
  BY <1>1 DEF ToggleOK, Holds, NoToggle
<1>. HIDE DEF s
<1>. QED
  BY <1>1, <1>2, <1>3, ConfigWriteKeeps

LEMMA SyncInvStep == SyncInv /\ [Next]_vars => SyncInv'
<1>. SUFFICES ASSUME SyncInv, [Next]_vars PROVE SyncInv'
  OBVIOUS
<1>. USE SyncInv
<1>1. CASE Load \/ Finish
  <2>1. UNCHANGED <<file, toggle>> /\ job'.step \notin {"open", "fill"}
    <3>1. CASE Load
      BY <3>1 DEF Load, disk, NoJob
    <3>2. CASE Finish
      BY <3>2 DEF Finish, disk
    <3>. QED
      BY <1>1, <3>1, <3>2
  <2>2. ToggleOK'
    BY <2>1 DEF SyncInv, ToggleOK
  <2>. QED
    BY <2>1, <2>2, Elsewhere DEF At, Holds
<1>2. ASSUME NEW d \in Dir, VisitNew(d) \/ OpenPart(d) \/ FillPart(d)
      PROVE  SyncInv'
  BY <1>2, VisitNewKeeps, OpenPartKeeps, FillPartKeeps
<1>3. ASSUME NEW d \in Dir, VisitOld(d) PROVE SyncInv'
  <2>1. UNCHANGED <<file, toggle>> /\ job'.step = "visit" /\ ToggleOK'
    BY <1>3 DEF VisitOld, Visiting, SyncInv, ToggleOK
  <2>. QED
    BY <2>1, Elsewhere DEF At, Holds
<1>4. ASSUME NEW d \in Dir, NEW want \in BOOLEAN, ReadConfig(d, want)
      PROVE  SyncInv'
  BY <1>4, ReadConfigKeeps
<1>5. CASE OpenConfig \/ FillConfig
  BY <1>5, OpenConfigKeeps, FillConfigKeeps
<1>6. CASE EditLayer \/ EditPackages
  <2>1. UNCHANGED <<file, job, toggle>>
    BY <1>6 DEF EditLayer, EditPackages, Edit
  <2>. QED
    BY <2>1, Elsewhere DEF SyncInv, ToggleOK, At, Turn, Holds
<1>7. ASSUME NEW d \in Dir, NEW w \in Words, EditOverlay(d, w)
      PROVE  SyncInv'
  BY <1>7, EditOverlayKeeps
<1>8. CASE Crash
  <2>1. /\ UNCHANGED file
        /\ \/ job' = NoJob /\ UNCHANGED toggle
           \/ toggle' = NoToggle /\ UNCHANGED job
    BY <1>8 DEF Crash, disk
  <2>2. /\ ToggleOK'
        /\ \A d \in Dir : Holds(d)' => Holds(d)
        /\ \A d \in Dir : At(d)' => At(d) /\ job'.part = job.part
    BY <2>1 DEF SyncInv, ToggleOK, At, Turn, Holds, NoJob, NoToggle
  <2>. QED
    BY <2>1, <2>2, Elsewhere
<1>9. CASE UNCHANGED vars
  <2>1. UNCHANGED <<file, job, toggle>>
    BY <1>9 DEF vars, disk
  <2>. QED
    BY <2>1, Elsewhere DEF SyncInv, ToggleOK, At, Turn, Holds
<1>. QED
  BY <1>1, <1>2, <1>3, <1>4, <1>5, <1>6, <1>7, <1>8, <1>9
  DEF Next, Sync, Toggle, Owner

\* A workspace whose config a sync wrote is complete, whatever crashes, edits
\* and toggles there were.
THEOREM SyncsComplete == Spec => []Complete
<1>1. SyncInv => Complete
  BY DEF SyncInv
<1>. QED
  BY SyncInvInit, SyncInvStep, <1>1, PTL DEF Spec
-----------------------------------------------------------------------------
(***************************************************************************)
(* Types, and what a sync that is done says of its workspaces.             *)
(***************************************************************************)

LEMMA Nothing ==
    /\ NoJob.step = "idle" /\ DOMAIN NoJob.tree = {} /\ NoJob.todo = {}
    /\ NoJob.part = 1 /\ NoJob.gaps = {}
    /\ NoToggle.step = "idle" /\ NoToggle.text \in FileState
    /\ NoToggle.want \in BOOLEAN
BY DEF NoJob, NoToggle, FileState

\* A new workspace is opened, or refused with the whole sync.
LEMMA NewJob ==
    ASSUME NEW d \in Dir, VisitNew(d)
    PROVE  /\ UNCHANGED <<layer, file, on, rootPi, toggle>> /\ made' \in {made, made \cup {d}}
           /\ job.step = "visit" /\ d \in job.todo
           /\ job'.step \in {"open", "failed"} /\ job'.part \in {1, job.part}
           /\ job'.tree = job.tree /\ job'.todo = job.todo /\ job'.gaps = job.gaps
<1>1. CASE rootPi
  <2>1. /\ job' = [job EXCEPT !.step = "open", !.part = 1]
        /\ made' = made \cup {d}
    BY <1>1 DEF VisitNew
  <2>. QED
    BY <2>1 DEF VisitNew, Visiting, Turn
<1>2. CASE ~rootPi
  <2>1. job' = [job EXCEPT !.step = "failed"] /\ UNCHANGED made
    BY <1>2 DEF VisitNew
  <2>. QED
    BY <2>1 DEF VisitNew, Visiting, Turn
<1>. QED
  BY <1>1, <1>2

LEMMA TypeStep == TypeOK /\ [Next]_vars => TypeOK'
<1>. SUFFICES ASSUME TypeOK, [Next]_vars PROVE TypeOK'
  OBVIOUS
<1>. USE TypeOK
<1>0. DOMAIN Parts = 1..4 /\ Part = Rest \cup {"config"}
  BY PartFacts DEF Parts
<1>1. CASE Load
  <2>. DEFINE said == [d \in Tree |-> Effective(d)]
  <2>1. DOMAIN said = Tree /\ Tree \subseteq Dir
    BY DEF Tree
  <2>2. job' = IF Loads
               THEN [NoJob EXCEPT !.step = "visit", !.tree = said, !.todo = Tree]
               ELSE [NoJob EXCEPT !.step = "failed"]
    BY <1>1 DEF Load
  <2>. HIDE DEF said
  <2>3. UNCHANGED <<layer, file, on, made, rootPi, toggle>>
    BY <1>1 DEF Load, disk
  <2>4. /\ job'.step \in {"visit", "failed"}
        /\ DOMAIN job'.tree \subseteq Dir /\ job'.todo \subseteq DOMAIN job'.tree
        /\ job'.part \in DOMAIN Parts /\ job'.gaps \subseteq Dir
    BY <1>0, <2>1, <2>2 DEF NoJob
  <2>. QED
    BY <2>3, <2>4 DEF TypeOK
<1>2. ASSUME NEW d \in Dir, VisitNew(d) PROVE TypeOK'
  <2>1. job'.part \in DOMAIN Parts /\ made' \subseteq Dir
    BY <1>0, <1>2, NewJob DEF TypeOK
  <2>. QED
    BY <1>2, <2>1, NewJob DEF TypeOK
<1>3. ASSUME NEW d \in Dir, OpenPart(d) PROVE TypeOK'
  <2>1. UNCHANGED <<layer, on, made, rootPi, toggle>>
    BY <1>3 DEF OpenPart
  <2>2. file' \in [Dir -> [Part -> FileState]]
    BY <1>3 DEF OpenPart, TypeOK, FileState
  <2>3. /\ job'.step = "fill" /\ d \in job.todo
        /\ job'.tree = job.tree /\ job'.todo = job.todo
        /\ job'.part = job.part /\ job'.gaps = job.gaps
    BY <1>3 DEF OpenPart, Turn
  <2>. QED
    BY <2>1, <2>2, <2>3 DEF TypeOK
<1>4. ASSUME NEW d \in Dir, FillPart(d) PROVE TypeOK'
  <2>1. UNCHANGED <<layer, made, rootPi, toggle>>
    BY <1>4 DEF FillPart
  <2>2. file' \in [Dir -> [Part -> FileState]] /\ on' \in [Dir -> BOOLEAN]
    BY <1>4 DEF FillPart, TypeOK, FileState
  <2>3. /\ job'.step \in {"open", "visit"}
        /\ job'.step = "open" => d \in job'.todo
        /\ job'.tree = job.tree /\ job'.todo \subseteq job.todo
        /\ job'.part \in 1..4 /\ job'.gaps = job.gaps
    BY <1>0, <1>4, PartFacts DEF FillPart, AfterPart, Turn, TypeOK
  <2>. QED
    BY <1>0, <2>1, <2>2, <2>3 DEF TypeOK
<1>5. CASE Finish
  BY <1>5 DEF Finish, disk, TypeOK
<1>6. ASSUME NEW d \in Dir, NEW want \in BOOLEAN, ReadConfig(d, want)
      PROVE  TypeOK'
  BY <1>0, <1>6 DEF ReadConfig, disk, TypeOK
<1>7. CASE OpenConfig
  <2>1. /\ UNCHANGED <<layer, on, made, rootPi, job>>
        /\ toggle.step = "open" /\ toggle.dir \in Dir
    BY <1>7 DEF OpenConfig, TypeOK
  <2>2. CASE toggle.dir \in made
    <3>1. /\ file' = [file EXCEPT ![toggle.dir]["config"] = "torn"]
          /\ toggle' = [toggle EXCEPT !.step = "fill"]
      BY <1>7, <2>2 DEF OpenConfig
    <3>2. file' \in [Dir -> [Part -> FileState]]
      BY <1>0, <2>1, <3>1 DEF TypeOK, FileState
    <3>3. /\ toggle'.step = "fill" /\ toggle'.dir = toggle.dir
          /\ toggle'.text = toggle.text /\ toggle'.want = toggle.want
      BY <3>1 DEF TypeOK
    <3>. QED
      BY <2>1, <3>2, <3>3 DEF TypeOK
  <2>3. CASE toggle.dir \notin made
    <3>1. toggle' = NoToggle /\ UNCHANGED file
      BY <1>7, <2>3 DEF OpenConfig
    <3>. QED
      BY <2>1, <3>1, Nothing DEF TypeOK
  <2>. QED
    BY <2>2, <2>3
<1>8. CASE FillConfig
  <2>1. UNCHANGED <<layer, made, rootPi, job>> /\ toggle' = NoToggle
    BY <1>8 DEF FillConfig
  <2>2. file' \in [Dir -> [Part -> FileState]]
    <3>. DEFINE text == IF Readable(toggle.text) THEN toggle.text ELSE "own"
    <3>1. text \in FileState /\ toggle.dir \in Dir
      BY <1>8 DEF FillConfig, TypeOK, FileState
    <3>2. file' = [file EXCEPT ![toggle.dir]["config"] = text]
      BY <1>8 DEF FillConfig
    <3>. HIDE DEF text
    <3>. QED
      BY <1>0, <3>1, <3>2 DEF TypeOK
  <2>3. on' \in [Dir -> BOOLEAN]
    BY <1>8 DEF FillConfig, TypeOK
  <2>. QED
    BY <2>1, <2>2, <2>3 DEF NoToggle, TypeOK, FileState
<1>9. CASE EditLayer
  <2>1. UNCHANGED <<file, on, made, rootPi, job, toggle>>
    BY <1>9 DEF EditLayer, Edit
  <2>2. Silent \in Words
    BY WorkspacesAssumption
  <2>3. layer' \in [Dir \cup {Root} -> Words \cup {NoLayer}]
    BY <1>9, <2>2 DEF EditLayer, TypeOK
  <2>. QED
    BY <2>1, <2>3 DEF TypeOK
<1>10. ASSUME NEW d \in Dir, NEW w \in Words, EditOverlay(d, w) PROVE TypeOK'
  BY <1>0, <1>10 DEF EditOverlay, Edit, TypeOK, FileState, Rest
<1>11. CASE EditPackages
  BY <1>11 DEF EditPackages, Edit, TypeOK
<1>12. CASE Crash
  <2>1. /\ UNCHANGED <<layer, file, on, made, rootPi>>
        /\ \/ job' = NoJob /\ UNCHANGED toggle
           \/ toggle' = NoToggle /\ UNCHANGED job
    BY <1>12 DEF Crash, disk
  <2>2. CASE job' = NoJob /\ UNCHANGED toggle
    <3>1. /\ job'.step = "idle" /\ DOMAIN job'.tree \subseteq Dir
          /\ job'.todo \subseteq DOMAIN job'.tree
          /\ job'.part \in DOMAIN Parts /\ job'.gaps \subseteq Dir
      BY <1>0, <2>2 DEF NoJob
    <3>. QED
      BY <2>1, <2>2, <3>1 DEF TypeOK
  <2>3. CASE toggle' = NoToggle /\ UNCHANGED job
    BY <2>1, <2>3, Nothing DEF TypeOK
  <2>. QED
    BY <2>1, <2>2, <2>3
<1>13. CASE UNCHANGED vars
  BY <1>13 DEF vars, disk, TypeOK
<1>14. ASSUME NEW d \in Dir, VisitOld(d) PROVE TypeOK'
  <2>1. UNCHANGED <<layer, file, on, rootPi, toggle>> /\ made' = made \cup {d}
    BY <1>14 DEF VisitOld
  <2>2. /\ job'.step = "visit" /\ job'.tree = job.tree /\ job'.part = job.part
        /\ job'.todo \subseteq job.todo /\ job'.gaps \subseteq job.gaps \cup {d}
    BY <1>14 DEF VisitOld, Visiting
  <2>. QED
    BY <2>1, <2>2 DEF TypeOK
<1>. QED
  BY <1>1, <1>2, <1>3, <1>4, <1>5, <1>6, <1>7, <1>8, <1>9, <1>10, <1>11,
     <1>12, <1>13, <1>14 DEF Next, Sync, Toggle, Owner

\* The types of the tree, the files, the sync and the toggle.
THEOREM WorkspaceTypes == Spec => []TypeOK
<1>1. Init => TypeOK
  <2>. SUFFICES ASSUME Init PROVE TypeOK
    OBVIOUS
  <2>1. DOMAIN Parts = 1..4 /\ Silent \in Words
    BY WorkspacesAssumption DEF Parts
  <2>. QED
    BY <2>1 DEF Init, TypeOK, FileState, NoJob, NoToggle
<1>. QED
  BY <1>1, TypeStep, PTL DEF Spec

-----------------------------------------------------------------------------
\* A workspace a sync has left has a config, and is ready or among the gaps.
Left(d) ==
    /\ file[d]["config"] # "absent"
    /\ d \notin job.gaps =>
         Readable(file[d]["settings"]) /\ Readable(file[d]["watch"])

Visited ==
    /\ job.step \in {"visit", "open", "fill", "done"} =>
         \A d \in DOMAIN job.tree : d \in job.todo \/ Left(d)
    /\ job.step = "done" => job.todo = {}

\* A step that takes no file away from the workspaces a sync has left.
LEMMA LeftStays ==
    ASSUME TypeOK, Visited,
           job'.tree = job.tree, job'.gaps = job.gaps,
           job'.step \in {"visit", "open", "fill", "done"}
             => job.step \in {"visit", "open", "fill", "done"},
           job'.step = "done" => job'.todo = {},
           \A d \in DOMAIN job.tree : d \in job.todo => d \in job'.todo \/ Left(d)',
           \A d \in Dir : d \notin job.todo =>
             /\ file[d]["config"] # "absent" => file'[d]["config"] # "absent"
             /\ Readable(file[d]["settings"]) => Readable(file'[d]["settings"])
             /\ Readable(file[d]["watch"]) => Readable(file'[d]["watch"])
    PROVE  Visited'
<1>. SUFFICES ASSUME job'.step \in {"visit", "open", "fill", "done"},
                     NEW d \in DOMAIN job.tree
              PROVE  d \in job'.todo \/ Left(d)'
  BY DEF Visited
<1>1. d \in job.todo \/ Left(d)
  BY DEF Visited
<1>2. d \notin job.todo => (Left(d) => Left(d)')
  BY DEF Left, TypeOK
<1>. QED
  BY <1>1, <1>2

LEMMA VisitedStep ==
    ASSUME TypeOK, SyncInv, Visited, [Next]_vars
    PROVE  Visited'
<1>1. CASE Load
  <2>. DEFINE said == [d \in Tree |-> Effective(d)]
  <2>1. DOMAIN said = Tree
    OBVIOUS
  <2>2. job' = IF Loads
               THEN [NoJob EXCEPT !.step = "visit", !.tree = said, !.todo = Tree]
               ELSE [NoJob EXCEPT !.step = "failed"]
    BY <1>1 DEF Load
  <2>. HIDE DEF said
  <2>. QED
    BY <2>1, <2>2 DEF Visited, NoJob
<1>2. ASSUME NEW d \in Dir, VisitNew(d) PROVE Visited'
  <2>1. /\ UNCHANGED file /\ job'.step \in {"open", "failed"} /\ job.step = "visit"
        /\ job'.tree = job.tree /\ job'.gaps = job.gaps /\ job'.todo = job.todo
    BY <1>2, NewJob
  <2>. QED
    BY <2>1, LeftStays
<1>3. ASSUME NEW d \in Dir, VisitOld(d) PROVE Visited'
  <2>1. /\ UNCHANGED <<file, on>> /\ job.step = "visit" /\ job'.step = "visit"
        /\ job'.tree = job.tree /\ job'.todo = job.todo \ {d}
        /\ job'.gaps = IF Unready(d) THEN job.gaps \cup {d} ELSE job.gaps
        /\ file[d]["config"] # "absent"
    BY <1>3 DEF VisitOld, Visiting, Missing
  <2>2. Left(d)'
    BY <2>1 DEF Left, Unready
  <2>3. \A e \in DOMAIN job.tree : Left(e) => Left(e)'
    BY <2>1 DEF Left
  <2>. QED
    BY <2>1, <2>2, <2>3 DEF Visited
<1>4. ASSUME NEW d \in Dir, OpenPart(d) PROVE Visited'
  <2>1. /\ job'.step = "fill" /\ job.step = "open" /\ d \in job.todo
        /\ job'.tree = job.tree /\ job'.gaps = job.gaps /\ job'.todo = job.todo
        /\ file' = [file EXCEPT ![d][Parts[job.part]] = "torn"]
    BY <1>4 DEF OpenPart, Turn
  <2>2. \A e \in Dir : e # d => file'[e] = file[e]
    BY <2>1 DEF TypeOK
  <2>. QED
    BY <2>1, <2>2, LeftStays
<1>5. ASSUME NEW d \in Dir, FillPart(d) PROVE Visited'
  <2>1. /\ job.step = "fill" /\ d \in job.todo /\ At(d)
        /\ job' = AfterPart(d)
        /\ file' = [file EXCEPT ![d][Parts[job.part]] = "whole"]
    BY <1>5 DEF FillPart, Turn, At
  <2>2. \A e \in Dir : e # d => file'[e] = file[e]
    BY <2>1 DEF TypeOK
  <2>3. job.part \in 1..4
    BY <2>1 DEF SyncInv, Writing
  <2>4. CASE job.part < 4
    <3>1. /\ job'.step = "open" /\ job'.tree = job.tree
          /\ job'.gaps = job.gaps /\ job'.todo = job.todo
      BY <2>1, <2>4, PartFacts DEF AfterPart
    <3>. QED
      BY <2>1, <2>2, <3>1, LeftStays
  <2>5. CASE job.part = 4
    <3>1. /\ job'.step = "visit" /\ job'.tree = job.tree
          /\ job'.gaps = job.gaps /\ job'.todo = job.todo \ {d}
      BY <2>1, <2>5, PartFacts DEF AfterPart
    <3>2. Readable(file[d]["settings"]) /\ Readable(file[d]["watch"])
      BY <2>1, <2>5, PartFacts DEF SyncInv, Writing
    <3>3. \A p \in Part : file'[d][p] = IF p = "config" THEN "whole" ELSE file[d][p]
      BY <2>1, <2>5, PartFacts DEF TypeOK
    <3>4. Left(d)'
      BY <3>2, <3>3, PartFacts DEF Left, Rest
    <3>. QED
      BY <2>1, <2>2, <3>1, <3>4, LeftStays
  <2>. QED
    BY <2>3, <2>4, <2>5
<1>6. CASE Finish
  <2>1. /\ job.step = "visit" /\ job.todo = {} /\ job'.step = "done"
        /\ job'.tree = job.tree /\ job'.gaps = job.gaps /\ job'.todo = job.todo
        /\ UNCHANGED file
    BY <1>6 DEF Finish, disk
  <2>. QED
    BY <2>1, LeftStays
<1>7. ASSUME UNCHANGED job,
             \A d \in Dir :
               /\ file[d]["config"] # "absent" => file'[d]["config"] # "absent"
               /\ Readable(file[d]["settings"]) => Readable(file'[d]["settings"])
               /\ Readable(file[d]["watch"]) => Readable(file'[d]["watch"])
      PROVE  Visited'
  BY <1>7, LeftStays DEF Visited
<1>8. ASSUME NEW d \in Dir, NEW want \in BOOLEAN, ReadConfig(d, want) PROVE Visited'
  BY <1>7, <1>8 DEF ReadConfig, disk
<1>9. ASSUME NEW d \in Dir, NEW s, s # "absent", UNCHANGED job,
             file' = [file EXCEPT ![d]["config"] = s]
      PROVE  Visited'
  <2>1. \A e \in Dir, p \in Part :
          file'[e][p] = IF e = d /\ p = "config" THEN s ELSE file[e][p]
    BY <1>9 DEF TypeOK
  <2>. QED
    BY <1>7, <1>9, <2>1, PartFacts DEF Rest
<1>10. CASE OpenConfig
  <2>1. UNCHANGED job /\ toggle.dir \in Dir
        /\ (UNCHANGED file \/ file' = [file EXCEPT ![toggle.dir]["config"] = "torn"])
    BY <1>10 DEF OpenConfig, TypeOK
  <2>. QED
    BY <1>7, <1>9, <2>1
<1>11. CASE FillConfig
  <2>. DEFINE text == IF Readable(toggle.text) THEN toggle.text ELSE "own"
  <2>1. /\ UNCHANGED job /\ toggle.dir \in Dir /\ text # "absent"
        /\ file' = [file EXCEPT ![toggle.dir]["config"] = text]
    BY <1>11 DEF FillConfig, TypeOK, Readable
  <2>. HIDE DEF text
  <2>. QED
    BY <1>9, <2>1
<1>12. ASSUME NEW d \in Dir, NEW w \in Words, EditOverlay(d, w) PROVE Visited'
  <2>1. UNCHANGED job /\ file' = [file EXCEPT ![d]["overlay"] = "own"]
    BY <1>12 DEF EditOverlay, Edit
  <2>2. \A e \in Dir, p \in Part : p # "overlay" => file'[e][p] = file[e][p]
    BY <2>1 DEF TypeOK
  <2>. QED
    BY <1>7, <2>1, <2>2, PartFacts DEF Rest
<1>13. CASE EditLayer \/ EditPackages
  BY <1>7, <1>13 DEF EditLayer, EditPackages, Edit
<1>14. CASE Crash
  <2>1. UNCHANGED file /\ (job' = NoJob \/ UNCHANGED job)
    BY <1>14 DEF Crash, disk
  <2>. QED
    BY <1>7, <2>1 DEF Visited, NoJob
<1>15. CASE UNCHANGED vars
  BY <1>7, <1>15 DEF vars, disk
<1>. QED
  BY <1>1, <1>2, <1>3, <1>4, <1>5, <1>6, <1>8, <1>10, <1>11, <1>12, <1>13,
     <1>14, <1>15 DEF Next, Sync, Toggle, Owner

\* A sync that succeeds has left a config in every workspace of its tree, and
\* reports the ones that are not ready.
THEOREM SyncsLeaveNoHalf == Spec => []NothingHalfMade
<1>1. Init => Visited
  BY DEF Init, Visited, NoJob
<1>2. TypeOK /\ SyncInv /\ Visited /\ [Next]_vars => Visited'
  BY VisitedStep
<1>3. Visited => NothingHalfMade
  BY DEF Visited, Left, NothingHalfMade
<1>. QED
  BY <1>1, <1>2, <1>3, SyncInvInit, SyncInvStep, WorkspaceTypes, PTL DEF Spec

-----------------------------------------------------------------------------
(***************************************************************************)
(* Recursion over an interval, as in RootProofs.                           *)
(***************************************************************************)

\* A set of numbers that is not empty has a least element.
LEMMA Least ==
    ASSUME NEW B \in SUBSET Nat, B # {}
    PROVE  \E n \in B : \A m \in B : n =< m
<1>. DEFINE R == {ss \in Nat \X Nat : ss[1] < ss[2]}
<1>1. IsWellFoundedOn(R, Nat)
  BY NatLessThanWellFounded DEF OpToRel
<1>2. PICK n \in B : \A m \in B : ~ (<<m, n>> \in R)
  <2>. HIDE DEF R
  <2>. QED
    BY <1>1, WFMin
<1>3. ASSUME NEW m \in B PROVE n =< m
  <2>1. <<m, n>> \in Nat \X Nat /\ ~ (<<m, n>> \in R)
    BY <1>2
  <2>. QED
    BY <2>1
<1>. QED
  BY <1>3

\* Induction over an interval, as a fact about a set.
LEMMA IntervalInduction ==
    ASSUME NEW n \in Nat, NEW G, 0 \in G,
           \A i \in 1..n : i - 1 \in G => i \in G
    PROVE  \A i \in 0..n : i \in G
<1>. DEFINE B == {i \in 0..n : i \notin G}
<1>1. SUFFICES ASSUME B # {} PROVE FALSE
  OBVIOUS
<1>2. PICK m \in B : \A i \in B : m =< i
  <2>1. B \in SUBSET Nat
    OBVIOUS
  <2>. HIDE DEF B
  <2>. QED
    BY <1>1, <2>1, Least
<1>3. m \in 1..n
  OBVIOUS
<1>4. m - 1 \in 0..n /\ m - 1 \notin B
  BY <1>2, <1>3
<1>. QED
  BY <1>3, <1>4

\* f is what the step g makes of a, again and again.
Unfolds(f, n, g, a) == f[0] = a /\ \A i \in 1..n : f[i] = g[<<i, f[i - 1]>>]

\* A definition by recursion over an interval has a solution.
LEMMA IntervalRecursion ==
    ASSUME NEW S, NEW n \in Nat, NEW g \in [(1..n) \X S -> S], NEW a \in S
    PROVE  \E f \in [0..n -> S] : Unfolds(f, n, g, a)
<1>. USE DEF Unfolds
<1>. DEFINE P(m) == \E f \in [0..m -> S] : Unfolds(f, m, g, a)
            G == {m \in Nat : P(m)}
<1>1. 0 \in G
  <2>1. [i \in 0..0 |-> a] \in [0..0 -> S] /\ [i \in 0..0 |-> a][0] = a
    OBVIOUS
  <2>2. 1..0 = {}
    OBVIOUS
  <2>. QED
    BY <2>1, <2>2
<1>2. ASSUME NEW m \in 1..n, m - 1 \in G PROVE m \in G
  <2>1. PICK f \in [0..(m - 1) -> S] : Unfolds(f, m - 1, g, a)
    BY <1>2
  <2>. DEFINE h == [i \in 0..m |->
                      IF i = m THEN g[<<m, f[m - 1]>>] ELSE f[i]]
  <2>2. h \in [0..m -> S] /\ h[0] = a
    BY <2>1
  <2>3. ASSUME NEW i \in 1..m PROVE h[i] = g[<<i, h[i - 1]>>]
    <3>1. h[i - 1] = f[i - 1]
      OBVIOUS
    <3>2. CASE i = m
      <4>1. h[m] = g[<<m, f[m - 1]>>]
        OBVIOUS
      <4>. QED
        BY <4>1, <3>1, <3>2
    <3>3. CASE i # m
      <4>1. h[i] = f[i] /\ i \in 1..(m - 1)
        BY <3>3
      <4>. QED
        BY <4>1, <3>1, <2>1
    <3>. QED
      BY <3>2, <3>3
  <2>4. P(m)
    BY <2>2, <2>3
  <2>. QED
    BY <2>4
<1>3. n \in G
  <2>1. n \in 0..n
    OBVIOUS
  <2>. HIDE DEF G
  <2>. QED
    BY <1>1, <1>2, <2>1, IntervalInduction
<1>. QED
  BY <1>3

-----------------------------------------------------------------------------
(***************************************************************************)
(* What a description says after a sync.  A resolved edge has no step up,  *)
(* so it is the same from wherever it is read.                             *)
(***************************************************************************)

\* A path without a step up.
Plain(path) == path \in Seq(Range(path)) /\ ".." \notin Range(path)

\* A path of plain steps is plain.
LEMMA PlainFacts ==
    ASSUME NEW T, NEW path \in Seq(T \ {".."})
    PROVE  Plain(path)
<1>1. DOMAIN path = 1..Len(path) /\ Len(path) \in Nat
  OBVIOUS
<1>2. \A i \in DOMAIN path : path[i] # ".."
  BY <1>1
<1>3. path \in Seq(Range(path))
  <2>1. \A i \in DOMAIN path : path[i] \in Range(path)
    BY DEF Range
  <2>. QED
    BY <1>1, <2>1
<1>. QED
  BY <1>2, <1>3 DEF Plain, Range

\* A step leaves a path plain.
LEMMA WalkFacts ==
    ASSUME NEW T, NEW path \in Seq(T \ {".."}), NEW step \in T
    PROVE  Walk(path, step) \in Seq(T \ {".."})
<1>1. CASE step # ".."
  BY <1>1 DEF Walk
<1>2. CASE step = ".." /\ path = <<>>
  BY <1>2 DEF Walk
<1>3. CASE step = ".." /\ path # <<>>
  BY <1>3 DEF Walk, Front
<1>. QED
  BY <1>1, <1>2, <1>3

\* Resolve as the last of a row of paths, one for each prefix of the edge.
Route(k, from, edge) ==
    /\ k[0] = from /\ Resolve(from, edge) = k[Len(edge)]
    /\ \A i \in 1..Len(edge) : k[i] = Walk(k[i - 1], edge[i])

LEMMA ResolveSteps ==
    ASSUME NEW T, NEW from \in Seq(T \ {".."}), NEW edge \in Seq(T)
    PROVE  \E k : Route(k, from, edge)
<1>. DEFINE S == Seq(T \ {".."})
            n == Len(edge)
            g == [p \in (1..n) \X S |-> Walk(p[2], edge[p[1]])]
            Unfold(f) == [i \in 0..n |-> IF i = 0 THEN from
                                         ELSE Walk(f[i - 1], edge[i])]
            k == CHOOSE f : f = Unfold(f)
<1>1. n \in Nat /\ \A i \in 1..n : edge[i] \in T
  OBVIOUS
<1>2. g \in [(1..n) \X S -> S]
  BY <1>1, WalkFacts
<1>3. PICK f \in [0..n -> S] : Unfolds(f, n, g, from)
  <2>1. from \in S
    OBVIOUS
  <2>. HIDE DEF g, n, S
  <2>. QED
    BY <1>1, <1>2, <2>1, IntervalRecursion
<1>4. ASSUME NEW i \in 1..n PROVE f[i] = Walk(f[i - 1], edge[i])
  <2>1. <<i, f[i - 1]>> \in (1..n) \X S
    <3>1. i - 1 \in 0..n
      BY <1>1
    <3>. HIDE DEF n, S
    <3>. QED
      BY <3>1
  <2>2. f[i] = g[<<i, f[i - 1]>>]
    <3>. HIDE DEF g, n
    <3>. QED
      BY <1>3 DEF Unfolds
  <2>. QED
    BY <2>1, <2>2
<1>5. f = Unfold(f)
  <2>1. f = [i \in 0..n |-> f[i]]
    OBVIOUS
  <2>2. ASSUME NEW i \in 0..n PROVE f[i] = Unfold(f)[i]
    <3>1. f[0] = from
      BY <1>3 DEF Unfolds
    <3>2. i # 0 => i \in 1..n
      BY <1>1
    <3>. QED
      BY <1>4, <3>1, <3>2
  <2>3. Unfold(f) = [i \in 0..n |-> Unfold(f)[i]]
    OBVIOUS
  <2>. HIDE DEF Unfold
  <2>. QED
    BY <2>1, <2>2, <2>3
<1>6. k = Unfold(k)
  BY <1>5
<1>7. Resolve(from, edge) = k[n]
  BY DEF Resolve
<1>8. k[0] = from /\ \A i \in 1..n : k[i] = Walk(k[i - 1], edge[i])
  <2>. HIDE DEF k
  <2>1. /\ Unfold(k)[0] = from
        /\ \A i \in 1..n : Unfold(k)[i] = Walk(k[i - 1], edge[i])
    BY <1>1
  <2>. QED
    BY <1>6, <2>1
<1>. HIDE DEF k
<1>. QED
  BY <1>7, <1>8 DEF Route

\* normalize_edge makes a plain path of any edge of a plain workspace, and
\* leaves a plain path as it is.
LEMMA NormalizeFacts ==
    ASSUME NEW from, Plain(from), NEW edge, edge \in Seq(Range(edge))
    PROVE  /\ Plain(Normalize(from, edge))
           /\ Plain(edge) => Normalize(from, edge) = edge
<1>. DEFINE T == Range(from) \cup Range(edge)
            S == Seq(T \ {".."})
<1>1. CASE ".." \notin Range(edge)
  BY <1>1 DEF Normalize, Plain
<1>2. CASE ".." \in Range(edge)
  <2>1. from \in S
    <3>1. Range(from) \subseteq T \ {".."} /\ from \in Seq(Range(from))
      BY DEF Plain
    <3>. HIDE DEF T
    <3>. QED
      BY <3>1
  <2>2. edge \in Seq(T)
    <3>1. Range(edge) \subseteq T
      OBVIOUS
    <3>. HIDE DEF T
    <3>. QED
      BY <3>1
  <2>. HIDE DEF T
  <2>3. PICK k : Route(k, from, edge)
    BY <2>1, <2>2, ResolveSteps
  <2>4. /\ k[0] = from /\ Resolve(from, edge) = k[Len(edge)]
        /\ \A i \in 1..Len(edge) : k[i] = Walk(k[i - 1], edge[i])
        /\ Len(edge) \in Nat /\ \A i \in 1..Len(edge) : edge[i] \in T
    BY <2>2, <2>3 DEF Route
  <2>. DEFINE G == {i \in 0..Len(edge) : k[i] \in S}
  <2>5. 0 \in G
    BY <2>1, <2>4
  <2>6. ASSUME NEW i \in 1..Len(edge), i - 1 \in G PROVE i \in G
    <3>1. k[i - 1] \in Seq(T \ {".."}) /\ edge[i] \in T /\ i \in 0..Len(edge)
      BY <2>4, <2>6
    <3>2. Walk(k[i - 1], edge[i]) \in Seq(T \ {".."})
      BY <3>1, WalkFacts
    <3>. QED
      BY <2>4, <3>1, <3>2
  <2>7. Len(edge) \in G
    <3>1. Len(edge) \in 0..Len(edge)
      BY <2>4
    <3>. HIDE DEF G
    <3>. QED
      BY <2>4, <2>5, <2>6, <3>1, IntervalInduction
  <2>8. Plain(Resolve(from, edge))
    BY <2>4, <2>7, PlainFacts
  <2>. QED
    BY <1>2, <2>8 DEF Normalize, Plain
<1>. QED
  BY <1>1, <1>2

\* Edges are paths.
Paths(edges) == \A e \in edges : e \in Seq(Range(e))

\* What a sync resolves is plain, and so is what it has written down.
Snapshots ==
    /\ DOMAIN word = Dir /\ \A d \in Dir : Paths(word[d].edges)
    /\ \A d \in DOMAIN job.tree : \A e \in job.tree[d].edges : Plain(e)
    /\ \A d \in Dir :
         file[d]["overlay"] = "whole" => \A e \in word[d].edges : Plain(e)

\* The effective edges of a workspace are plain.
LEMMA EffectiveFacts ==
    ASSUME TypeOK, Snapshots, NEW d \in Tree, NEW e \in Effective(d).edges
    PROVE  Plain(e)
<1>1. d \in Dir /\ Plain(d)
  BY WorkspacesAssumption DEF Tree, Plain
<1>2. Plain(Root)
  <2>1. Range(<<>>) = {} /\ <<>> \in Seq(Range(<<>>))
    BY DEF Range
  <2>. QED
    BY <2>1 DEF Plain, Root
<1>3. \A w \in Words \cup {NoLayer} : Paths(w.edges)
  BY WorkspacesAssumption DEF Paths, NoLayer
<1>4. Paths(layer[Root].edges) /\ Paths(layer[d].edges)
  BY <1>1, <1>3 DEF TypeOK
<1>5. Paths(Overlay(d).edges)
  BY <1>1 DEF Overlay, Snapshots, Silent, Paths
<1>6. \/ \E r \in layer[Root].edges : e = Normalize(Root, r)
      \/ \E r \in layer[d].edges : e = Normalize(d, r)
      \/ \E r \in Overlay(d).edges : e = Normalize(d, r)
  <2>1. Effective(d).edges =
          {Normalize(Root, r) : r \in layer[Root].edges}
            \cup {Normalize(d, r) : r \in layer[d].edges}
            \cup {Normalize(d, r) : r \in Overlay(d).edges}
    BY DEF Effective
  <2>. QED
    BY <2>1
<1>. QED
  BY <1>1, <1>2, <1>4, <1>5, <1>6, NormalizeFacts DEF Paths

LEMMA SnapshotsStep ==
    TypeOK /\ Snapshots /\ [Next]_vars => Snapshots'
<1>. SUFFICES ASSUME TypeOK, Snapshots, [Next]_vars PROVE Snapshots'
  OBVIOUS
<1>. USE TypeOK, Snapshots
\* A step that keeps what is said and writes no overlay.
<1>1. ASSUME UNCHANGED word, DOMAIN job'.tree = {} \/ job'.tree = job.tree,
             \A d \in Dir : file'[d]["overlay"] = "whole"
                              => file[d]["overlay"] = "whole"
      PROVE  Snapshots'
  BY <1>1 DEF Snapshots
<1>2. CASE Load
  <2>1. UNCHANGED <<word, file>>
    BY <1>2 DEF Load, disk
  <2>2. CASE Loads
    <3>. DEFINE said == [d \in Tree |-> Effective(d)]
    <3>1. job'.tree = said
      <4>. HIDE DEF said
      <4>1. job' = [NoJob EXCEPT !.step = "visit", !.tree = said,
                                 !.todo = Tree]
        BY <1>2, <2>2 DEF Load, said
      <4>. QED
        BY <4>1 DEF NoJob
    <3>2. \A d \in DOMAIN said : \A e \in said[d].edges : Plain(e)
      BY EffectiveFacts
    <3>. HIDE DEF said
    <3>. QED
      BY <2>1, <3>1, <3>2 DEF Snapshots
  <2>3. CASE ~Loads
    <3>1. DOMAIN job'.tree = {}
      BY <1>2, <2>3 DEF Load, NoJob
    <3>. QED
      BY <1>1, <2>1, <3>1
  <2>. QED
    BY <2>2, <2>3
<1>3. CASE Finish
  <2>1. UNCHANGED <<word, file>> /\ job'.tree = job.tree
    BY <1>3 DEF Finish, disk
  <2>. QED
    BY <1>1, <2>1
<1>4. ASSUME NEW d \in Dir, VisitNew(d) \/ VisitOld(d) PROVE Snapshots'
  <2>1. UNCHANGED <<word, file>>
    BY <1>4 DEF VisitNew, VisitOld
  <2>2. job'.tree = job.tree
    <3>1. CASE VisitNew(d)
      BY <3>1, NewJob
    <3>2. CASE VisitOld(d)
      BY <3>2 DEF VisitOld
    <3>. QED
      BY <1>4, <3>1, <3>2
  <2>. QED
    BY <1>1, <2>1, <2>2
<1>5. ASSUME NEW d \in Dir, OpenPart(d) PROVE Snapshots'
  <2>1. /\ UNCHANGED word /\ job'.tree = job.tree
        /\ file' = [file EXCEPT ![d][Parts[job.part]] = "torn"]
    BY <1>5 DEF OpenPart
  <2>2. \A e \in Dir : file'[e]["overlay"] = "whole"
                         => file[e]["overlay"] = "whole"
    BY <2>1, PartFacts DEF TypeOK, Rest
  <2>. QED
    BY <1>1, <2>1, <2>2
\* The one step that writes a snapshot.
<1>6. ASSUME NEW d \in Dir, FillPart(d) PROVE Snapshots'
  <2>1. /\ file' = [file EXCEPT ![d][Parts[job.part]] = "whole"]
        /\ word' = IF Parts[job.part] = "overlay"
                   THEN [word EXCEPT ![d] = job.tree[d]] ELSE word
        /\ d \in DOMAIN job.tree
    BY <1>6 DEF FillPart, Turn, TypeOK
  <2>2. job'.tree = job.tree
    BY <1>6 DEF FillPart, AfterPart
  <2>3. CASE Parts[job.part] # "overlay"
    <3>1. \A e \in Dir : file'[e]["overlay"] = "whole"
                           => file[e]["overlay"] = "whole"
      BY <2>1, <2>3, PartFacts DEF TypeOK, Rest
    <3>. QED
      BY <1>1, <2>1, <2>2, <2>3, <3>1
  <2>4. CASE Parts[job.part] = "overlay"
    <3>1. PICK said : said = job.tree[d]
      OBVIOUS
    <3>2. word' = [word EXCEPT ![d] = said] /\ DOMAIN word = Dir
      BY <2>1, <2>4, <3>1 DEF Snapshots
    <3>3. \A e \in said.edges : Plain(e)
      BY <2>1, <3>1 DEF Snapshots
    <3>4. Paths(said.edges)
      BY <3>3 DEF Paths, Plain
    <3>5. \A e \in Dir : e # d => file'[e] = file[e]
      BY <2>1 DEF TypeOK
    <3>6. \A e \in Dir : word'[e] = IF e = d THEN said ELSE word[e]
      BY <3>2
    <3>7. DOMAIN word' = Dir
      BY <3>2
    <3>. QED
      BY <2>2, <3>3, <3>4, <3>5, <3>6, <3>7 DEF Snapshots
  <2>. QED
    BY <2>3, <2>4
<1>7. CASE Crash
  <2>1. UNCHANGED <<word, file>> /\ (job' = NoJob \/ UNCHANGED job)
    BY <1>7 DEF Crash, disk
  <2>. QED
    BY <1>1, <2>1 DEF NoJob
<1>8. CASE OpenConfig \/ FillConfig
  <2>1. UNCHANGED <<word, job>>
    BY <1>8 DEF OpenConfig, FillConfig
  <2>2. \A e \in Dir : file'[e]["overlay"] = file[e]["overlay"]
    BY <1>8, PartFacts DEF OpenConfig, FillConfig, TypeOK, Rest
  <2>. QED
    BY <1>1, <2>1, <2>2
<1>9. ASSUME NEW d \in Dir, NEW want \in BOOLEAN, ReadConfig(d, want)
      PROVE  Snapshots'
  BY <1>1, <1>9 DEF ReadConfig, disk
<1>10. CASE EditLayer \/ EditPackages
  BY <1>1, <1>10 DEF EditLayer, EditPackages, Edit
<1>11. ASSUME NEW d \in Dir, NEW w \in Words, EditOverlay(d, w)
       PROVE  Snapshots'
  <2>1. /\ file' = [file EXCEPT ![d]["overlay"] = "own"]
        /\ word' = [word EXCEPT ![d] = w] /\ UNCHANGED job
    BY <1>11 DEF EditOverlay, Edit
  <2>2. Paths(w.edges)
    BY WorkspacesAssumption DEF Paths
  <2>3. /\ DOMAIN word' = Dir
        /\ \A e \in Dir : word'[e] = IF e = d THEN w ELSE word[e]
    BY <2>1 DEF Snapshots
  <2>4. \A e \in Dir : file'[e]["overlay"] = "whole"
                         => e # d /\ file[e]["overlay"] = "whole"
    BY <2>1, PartFacts DEF TypeOK, Rest
  <2>. QED
    BY <2>1, <2>2, <2>3, <2>4 DEF Snapshots
<1>12. CASE UNCHANGED vars
  BY <1>1, <1>12 DEF vars, disk
<1>. QED
  BY <1>2, <1>3, <1>4, <1>5, <1>6, <1>7, <1>8, <1>9, <1>10, <1>11, <1>12
     DEF Next, Sync, Toggle, Owner

\* template.rs normalize_edge: what a sync wrote down means the same when it
\* is read again, for every tree and every edge a description can state.
THEOREM SnapshotsKeepMeaning == Spec => []SnapshotRoundTrips
<1>1. Init => Snapshots
  <2>. SUFFICES ASSUME Init PROVE Snapshots
    OBVIOUS
  <2>1. DOMAIN word = Dir /\ \A d \in Dir : word[d].edges = {}
    BY DEF Init, Silent
  <2>2. DOMAIN job.tree = {}
    <3>1. job.tree = <<>>
      BY DEF Init, NoJob
    <3>. QED
      BY <3>1
  <2>. QED
    BY <2>1, <2>2 DEF Snapshots, Paths
<1>2. TypeOK /\ Snapshots => SnapshotRoundTrips
  <2>. SUFFICES ASSUME TypeOK, Snapshots, NEW d \in Dir,
                       file[d]["overlay"] = "whole"
                PROVE  {Normalize(d, e) : e \in word[d].edges} = word[d].edges
    BY DEF SnapshotRoundTrips
  <2>1. Plain(d)
    BY WorkspacesAssumption DEF Plain
  <2>2. \A e \in word[d].edges : Plain(e)
    BY DEF Snapshots
  <2>3. \A e \in word[d].edges : Normalize(d, e) = e
    BY <2>1, <2>2, NormalizeFacts DEF Plain
  <2>. QED
    BY <2>3
<1>. QED
  BY <1>1, <1>2, SnapshotsStep, WorkspaceTypes, PTL DEF Spec
=============================================================================
