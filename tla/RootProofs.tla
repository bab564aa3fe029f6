----------------------------- MODULE RootProofs ------------------------------
(***************************************************************************)
(* Proofs about what runs beside the daemons at one root: the schedulers   *)
(* and the command that stops them (Process), and the monitor over the one *)
(* that serves (Console).  Two machines, two specifications: they share no *)
(* variable, and neither is an assumption of the other.                    *)
(*                                                                         *)
(* The monitor's lists are made by recursive functions, so its part begins *)
(* with what it needs of them: that a definition by recursion over an      *)
(* interval has a solution, and what the solution has in it.               *)
(***************************************************************************)
EXTENDS Process, Console, FiniteSetTheorems, SequenceTheorems,
        WellFoundedInduction, TLAPS

(***************************************************************************)
(* The schedulers.  That two of them serve one root only after the socket  *)
(* of a serving one was removed by another process, for any number of      *)
(* starts, crashes, failures and stop commands.                            *)
(*                                                                         *)
(* OneServing follows from a stronger fact: until then, the socket file is *)
(* that of whoever serves (Bound).  The stop command needs one more: when  *)
(* it comes to the files the process it stopped is gone, so the socket it  *)
(* removes, if anybody serves there, is another's (Stopped).               *)
(***************************************************************************)
Step == {"off", "ensure", "pid", "look", "take", "open", "boot", "bind",
         "serve", "leave", "bail", "close", "gone"}

TypeInv ==
    /\ at \in [Starts -> Step]
    /\ sock \in Starts \cup {Nobody} /\ pid \in Starts \cup {Nobody}
    /\ stolen \in BOOLEAN
    /\ stop \in [step : {"idle", "term", "wait", "unpid", "unsock"},
                 pid  : Starts \cup {Nobody}]
    /\ stop.step # "idle" => stop.pid \in Starts

Bound == \A p \in Starts : at[p] = "serve" => stolen \/ sock = p

Stopped == stop.step \in {"unpid", "unsock"} => at[stop.pid] = "gone"

\* Only a process that was started is in the pid file or being stopped.
Begun ==
    /\ pid # Nobody => at[pid] # "off"
    /\ stop.step # "idle" => at[stop.pid] # "off"

ProcessInv == TypeInv /\ Bound /\ Stopped /\ Begun

\* While the file is that of whoever serves, nobody else does.
LEMMA BoundIsOne == ProcessInv => OneServing
<1>. SUFFICES ASSUME ProcessInv, ~stolen
              PROVE  Cardinality({p \in Starts : at[p] = "serve"}) =< 1
  BY DEF OneServing
<1>. DEFINE S == {p \in Starts : at[p] = "serve"}
<1>1. S \subseteq {sock}
  BY DEF ProcessInv, Bound
<1>2. CASE S = {}
  BY <1>2, FS_EmptySet
<1>3. CASE S = {sock}
  BY <1>3, FS_Singleton
<1>. QED
  BY <1>1, <1>2, <1>3

LEMMA ProcessInvInit == ProcessInit => ProcessInv
<1>. SUFFICES ASSUME ProcessInit PROVE ProcessInv
  OBVIOUS
<1>1. /\ at = [p \in Starts |-> "off"] /\ sock = Nobody /\ pid = Nobody
      /\ stop = [step |-> "idle", pid |-> Nobody] /\ stolen = FALSE
  BY DEF ProcessInit, NoStop
<1>2. TypeInv
  BY <1>1 DEF TypeInv, Step
<1>3. Bound /\ Stopped /\ Begun
  BY <1>1 DEF Bound, Stopped, Begun
<1>. QED
  BY <1>2, <1>3 DEF ProcessInv

\* A process that is not gone may go anywhere, as long as what it does to the
\* socket keeps it bound.
LEMMA MoveKeeps ==
    ASSUME ProcessInv, NEW p \in Starts, NEW s \in Step,
           at[p] # "gone", s # "off", Goto(p, s), UNCHANGED stop,
           sock' \in Starts \cup {Nobody}, pid' \in {pid, p, Nobody},
           stolen' \in BOOLEAN, Bound'
    PROVE  ProcessInv'
<1>1. /\ at' \in [Starts -> Step] /\ at'[p] = s
      /\ \A q \in Starts : q # p => at'[q] = at[q]
  BY DEF ProcessInv, TypeInv, Goto
<1>2. TypeInv'
  BY <1>1 DEF ProcessInv, TypeInv
<1>3. Stopped'
  BY <1>1 DEF ProcessInv, TypeInv, Stopped
<1>4. Begun'
  BY <1>1 DEF ProcessInv, TypeInv, Begun
<1>. QED
  BY <1>2, <1>3, <1>4 DEF ProcessInv

\* Most steps leave the socket alone and do not come to serve.
LEMMA QuietKeeps ==
    ASSUME ProcessInv, NEW p \in Starts, NEW s \in Step,
           at[p] # "gone", s \notin {"off", "serve"}, Goto(p, s),
           UNCHANGED <<stop, sock, stolen>>, pid' \in {pid, p, Nobody}
    PROVE  ProcessInv'
<1>1. Bound'
  BY DEF ProcessInv, TypeInv, Bound, Goto
<1>. QED
  BY <1>1, MoveKeeps DEF ProcessInv, TypeInv

\* The owner's own steps up to the look at the socket, and after serving.
LEMMA OwnStepKeeps ==
    ASSUME ProcessInv, NEW p \in Starts,
           \/ Start(p) \/ Ensure(p) \/ WritePid(p) \/ Look(p) \/ Open(p)
           \/ Boot(p) \/ RemovePid(p) \/ StopDaemons(p) \/ Crash(p)
    PROVE  ProcessInv'
<1>1. /\ at[p] # "gone" /\ UNCHANGED <<stop, sock, stolen>>
      /\ pid' \in {pid, p, Nobody}
  BY DEF Start, Ensure, WritePid, Look, Open, Boot, RemovePid, StopDaemons,
         Crash, Running
<1>2. \E s \in Step \ {"off", "serve"} : Goto(p, s)
  <2>1. CASE Start(p)
    BY <2>1 DEF Start, Step
  <2>2. CASE Ensure(p)
    BY <2>2 DEF Ensure, Step
  <2>3. CASE WritePid(p)
    BY <2>3 DEF WritePid, Step
  <2>4. CASE Look(p)
    BY <2>4 DEF Look, Step
  <2>5. CASE Open(p)
    BY <2>5 DEF Open, Step
  <2>6. CASE Boot(p)
    BY <2>6 DEF Boot, Step
  <2>7. CASE RemovePid(p)
    BY <2>7 DEF RemovePid, Step
  <2>8. CASE StopDaemons(p)
    BY <2>8 DEF StopDaemons, Step
  <2>9. CASE Crash(p)
    BY <2>9 DEF Crash, Step
  <2>. QED
    BY <2>1, <2>2, <2>3, <2>4, <2>5, <2>6, <2>7, <2>8, <2>9
<1>3. PICK s \in Step \ {"off", "serve"} : Goto(p, s)
  BY <1>2
<1>. QED
  BY <1>1, <1>3, QuietKeeps

\* A starter that removes the socket of a process that serves steals it.
LEMMA TakeOverKeeps ==
    ASSUME ProcessInv, NEW p \in Starts, TakeOver(p) PROVE ProcessInv'
<1>1. /\ at[p] = "take" /\ Goto(p, "open") /\ "open" \in Step
      /\ sock' = Nobody /\ stolen' = (stolen \/ SocketAnswers)
      /\ UNCHANGED <<stop, pid>>
  BY DEF TakeOver, Step
<1>2. Bound'
  <2>. SUFFICES ASSUME NEW q \in Starts, at'[q] = "serve" PROVE stolen'
    BY DEF Bound
  <2>1. at[q] = "serve"
    BY <1>1 DEF ProcessInv, TypeInv, Goto
  <2>2. stolen \/ sock = q
    BY <2>1 DEF ProcessInv, Bound
  <2>. QED
    BY <1>1, <2>1, <2>2, ProcessAssumption DEF SocketAnswers
<1>3. stolen' \in BOOLEAN
  BY <1>1 DEF ProcessInv, TypeInv
<1>. QED
  BY <1>1, <1>2, <1>3, MoveKeeps DEF ProcessInv, TypeInv

\* bind succeeds only where there is no file, so nobody serves with one.
LEMMA BindKeeps ==
    ASSUME ProcessInv, NEW p \in Starts, Bind(p) PROVE ProcessInv'
<1>0. at[p] = "bind" /\ UNCHANGED <<stop, pid, stolen>>
  BY DEF Bind
<1>1. CASE sock = Nobody
  <2>1. sock' = p /\ Goto(p, "serve") /\ "serve" \in Step
    BY <1>1 DEF Bind, Step
  <2>2. Bound'
    <3>. SUFFICES ASSUME NEW q \in Starts, at'[q] = "serve"
                  PROVE  stolen' \/ sock' = q
      BY DEF Bound
    <3>1. q = p \/ at[q] = "serve"
      BY <2>1 DEF ProcessInv, TypeInv, Goto
    <3>. QED
      BY <1>0, <1>1, <2>1, <3>1, ProcessAssumption DEF ProcessInv, Bound
  <2>. QED
    BY <1>0, <2>1, <2>2, MoveKeeps DEF ProcessInv, TypeInv
<1>2. CASE sock # Nobody
  <2>1. UNCHANGED sock /\ Goto(p, "bail") /\ "bail" \in Step
    BY <1>2 DEF Bind, Step
  <2>. QED
    BY <1>0, <2>1, QuietKeeps DEF ProcessInv, TypeInv
<1>. QED
  BY <1>1, <1>2

\* serve removes the file on its way out, be it its own or another's.
LEMMA EndServeKeeps ==
    ASSUME ProcessInv, NEW p \in Starts, EndServe(p) PROVE ProcessInv'
<1>1. /\ at[p] = "serve" /\ sock' = Nobody /\ UNCHANGED <<stop, pid>>
      /\ stolen' = (stolen \/ (SocketAnswers /\ sock # p))
      /\ Goto(p, "leave") \/ Goto(p, "bail")
  BY DEF EndServe
<1>2. PICK s \in Step \ {"off", "serve"} : Goto(p, s)
  BY <1>1 DEF Step
<1>3. Bound'
  <2>. SUFFICES ASSUME NEW q \in Starts, at'[q] = "serve" PROVE stolen'
    BY DEF Bound
  <2>1. q # p /\ at[q] = "serve"
    BY <1>2 DEF ProcessInv, TypeInv, Goto
  <2>2. stolen \/ sock = q
    BY <2>1 DEF ProcessInv, Bound
  <2>. QED
    BY <1>1, <2>1, <2>2, ProcessAssumption DEF SocketAnswers
<1>4. stolen' \in BOOLEAN
  BY <1>1 DEF ProcessInv, TypeInv
<1>. QED
  BY <1>1, <1>2, <1>3, <1>4, MoveKeeps DEF ProcessInv, TypeInv

\* A signal ends a process or sets its flag.
LEMMA SignalMoves ==
    ASSUME ProcessInv, NEW p \in Starts, Signal(p)
    PROVE  UNCHANGED at \/ (at[p] # "gone" /\ Goto(p, "gone"))
BY DEF Signal, Running

LEMMA InterruptKeeps ==
    ASSUME ProcessInv, NEW p \in Starts, Interrupt(p) PROVE ProcessInv'
<1>1. UNCHANGED <<sock, pid, stop, stolen>>
  BY DEF Interrupt
<1>2. CASE UNCHANGED at
  BY <1>1, <1>2 DEF ProcessInv, TypeInv, Bound, Stopped, Begun
<1>3. CASE at[p] # "gone" /\ Goto(p, "gone")
  BY <1>1, <1>3, QuietKeeps DEF ProcessInv, TypeInv, Step
<1>. QED
  BY <1>2, <1>3, SignalMoves DEF Interrupt

\* The stop command on its way, until it comes to the files.
LEMMA StopMoves ==
    ASSUME ProcessInv, stop.step # "idle", NEW s \in {"wait", "unpid"},
           UNCHANGED <<sock, pid, stolen>>, stop' = [stop EXCEPT !.step = s],
           UNCHANGED at \/ Goto(stop.pid, "gone"),
           s = "unpid" => at'[stop.pid] = "gone"
    PROVE  ProcessInv'
<1>1. /\ stop'.step = s /\ stop'.pid = stop.pid /\ stop.pid \in Starts
      /\ stop' \in [step : {"idle", "term", "wait", "unpid", "unsock"},
                    pid  : Starts \cup {Nobody}]
  BY DEF ProcessInv, TypeInv
<1>2. /\ at' \in [Starts -> Step]
      /\ \A q \in Starts : at'[q] = at[q] \/ (q = stop.pid /\ at'[q] = "gone")
  BY <1>1 DEF ProcessInv, TypeInv, Goto, Step
<1>3. TypeInv'
  BY <1>1, <1>2 DEF ProcessInv, TypeInv
<1>4. Bound'
  BY <1>2 DEF ProcessInv, Bound
<1>5. Stopped' /\ Begun'
  BY <1>1, <1>2 DEF ProcessInv, TypeInv, Stopped, Begun
<1>. QED
  BY <1>3, <1>4, <1>5 DEF ProcessInv

\* What the stop command does to the process it stops, and to the files.
LEMMA StopKeeps ==
    ASSUME ProcessInv, StopCommand PROVE ProcessInv'
<1>0. /\ at \in [Starts -> Step] /\ (stop.step # "idle" => stop.pid \in Starts)
      /\ stop \in [step : {"idle", "term", "wait", "unpid", "unsock"},
                   pid  : Starts \cup {Nobody}]
  BY DEF ProcessInv, TypeInv
<1>1. CASE StopReads
  <2>1. /\ UNCHANGED <<at, sock, pid, stolen>> /\ pid # Nobody
        /\ stop' = [step |-> "term", pid |-> pid]
    BY <1>1 DEF StopReads
  <2>. QED
    BY <2>1 DEF ProcessInv, TypeInv, Bound, Stopped, Begun
<1>2. CASE StopSignals
  <2>1. /\ UNCHANGED <<sock, pid, stolen>> /\ stop.step = "term"
        /\ Signal(stop.pid) /\ stop' = [stop EXCEPT !.step = "wait"]
    BY <1>2 DEF StopSignals
  <2>2. UNCHANGED at \/ Goto(stop.pid, "gone")
    BY <2>1 DEF Signal
  <2>. QED
    BY <1>0, <2>1, <2>2, StopMoves
<1>3. CASE StopWaits
  <2>1. /\ UNCHANGED <<sock, pid, stolen>> /\ stop.step = "wait"
        /\ stop' = [stop EXCEPT !.step = "unpid"]
        /\ Goto(stop.pid, "gone") \/ (UNCHANGED at /\ ~Running(stop.pid))
    BY <1>3 DEF StopWaits
  <2>2. Goto(stop.pid, "gone") \/ (UNCHANGED at /\ at[stop.pid] = "gone")
    BY <2>1 DEF ProcessInv, Begun, Running
  <2>3. at'[stop.pid] = "gone"
    <3>1. stop.pid \in Starts
      BY <1>0, <2>1
    <3>2. CASE Goto(stop.pid, "gone")
      BY <1>0, <3>1, <3>2 DEF Goto
    <3>. QED
      BY <2>2, <3>2
  <2>. QED
    BY <1>0, <2>1, <2>2, <2>3, StopMoves
<1>4. CASE StopUnpids
  <2>1. /\ UNCHANGED <<at, sock, stolen>> /\ pid' = Nobody
        /\ stop.step = "unpid" /\ stop' = [stop EXCEPT !.step = "unsock"]
    BY <1>4 DEF StopUnpids
  <2>. QED
    BY <1>0, <2>1 DEF ProcessInv, TypeInv, Bound, Stopped, Begun
<1>5. CASE StopUnsocks
  <2>1. /\ UNCHANGED <<at, pid>> /\ sock' = Nobody /\ stop' = NoStop
        /\ stolen' = (stolen \/ (SocketAnswers /\ sock # stop.pid))
        /\ at[stop.pid] = "gone"
    BY <1>5 DEF StopUnsocks, ProcessInv, Stopped
  <2>2. Bound'
    <3>. SUFFICES ASSUME NEW q \in Starts, at[q] = "serve" PROVE stolen'
      BY <2>1 DEF Bound
    <3>1. stolen \/ sock = q
      BY DEF ProcessInv, Bound
    <3>. QED
      BY <2>1, <3>1, ProcessAssumption DEF SocketAnswers
  <2>. QED
    BY <1>0, <2>1, <2>2 DEF ProcessInv, TypeInv, Stopped, Begun, NoStop
<1>. QED
  BY <1>1, <1>2, <1>3, <1>4, <1>5 DEF StopCommand

LEMMA ProcessInvStep == ProcessInv /\ [ProcessNext]_processVars => ProcessInv'
<1>. SUFFICES ASSUME ProcessInv, [ProcessNext]_processVars PROVE ProcessInv'
  OBVIOUS
<1>1. ASSUME NEW p \in Starts, Start(p) \/ Run(p) \/ Crash(p) PROVE ProcessInv'
  BY <1>1, OwnStepKeeps, TakeOverKeeps, BindKeeps, EndServeKeeps DEF Run
<1>2. ASSUME NEW p \in Starts, Interrupt(p) PROVE ProcessInv'
  BY <1>2, InterruptKeeps
<1>3. CASE StopCommand
  BY <1>3, StopKeeps
<1>4. CASE UNCHANGED processVars
  BY <1>4 DEF processVars, ProcessInv, TypeInv, Bound, Stopped, Begun
<1>. QED
  BY <1>1, <1>2, <1>3, <1>4 DEF ProcessNext

\* One scheduler serves a root as long as nobody removes the socket of a
\* serving one, however many are started, stopped, signalled and crash.
THEOREM OneServes == ProcessSpec => []OneServing
<1>. QED
  BY ProcessInvInit, ProcessInvStep, BoundIsOne, PTL DEF ProcessSpec

-----------------------------------------------------------------------------
(***************************************************************************)
(* Recursion over an interval.                                             *)
(***************************************************************************)

\* A set of numbers that is not empty has a least element.
LEMMA Least ==
    ASSUME NEW B \in SUBSET Nat, B # {}
    PROVE  \E n \in B : \A m \in B : n =< m
<1>. DEFINE R == {ss \in Nat \X Nat : ss[1] < ss[2]}
<1>1. IsWellFoundedOn(R, Nat)
  BY NatLessThanWellFounded DEF OpToRel
<1>2. PICK n \in B : \A m \in B : ~ (<<m, n>> \in R)
  <2>. HIDE DEF R
  <2>. QED
    BY <1>1, WFMin
<1>3. ASSUME NEW m \in B PROVE n =< m
  <2>1. <<m, n>> \in Nat \X Nat /\ ~ (<<m, n>> \in R)
    BY <1>2
  <2>. QED
    BY <2>1
<1>. QED
  BY <1>3

\* Induction over an interval, as a fact about a set.
LEMMA IntervalInduction ==
    ASSUME NEW n \in Nat, NEW G, 0 \in G,
           \A i \in 1..n : i - 1 \in G => i \in G
    PROVE  \A i \in 0..n : i \in G
<1>. DEFINE B == {i \in 0..n : i \notin G}
<1>1. SUFFICES ASSUME B # {} PROVE FALSE
  OBVIOUS
<1>2. PICK m \in B : \A i \in B : m =< i
  <2>1. B \in SUBSET Nat
    OBVIOUS
  <2>. HIDE DEF B
  <2>. QED
    BY <1>1, <2>1, Least
<1>3. m \in 1..n
  OBVIOUS
<1>4. m - 1 \in 0..n /\ m - 1 \notin B
  BY <1>2, <1>3
<1>. QED
  BY <1>3, <1>4

\* f is what the step g makes of a, again and again.
Unfolds(f, n, g, a) == f[0] = a /\ \A i \in 1..n : f[i] = g[<<i, f[i - 1]>>]

\* A definition by recursion over an interval has a solution.
LEMMA IntervalRecursion ==
    ASSUME NEW S, NEW n \in Nat, NEW g \in [(1..n) \X S -> S], NEW a \in S
    PROVE  \E f \in [0..n -> S] : Unfolds(f, n, g, a)
<1>. USE DEF Unfolds
<1>. DEFINE P(m) == \E f \in [0..m -> S] : Unfolds(f, m, g, a)
            G == {m \in Nat : P(m)}
<1>1. 0 \in G
  <2>1. [i \in 0..0 |-> a] \in [0..0 -> S] /\ [i \in 0..0 |-> a][0] = a
    OBVIOUS
  <2>2. 1..0 = {}
    OBVIOUS
  <2>. QED
    BY <2>1, <2>2
<1>2. ASSUME NEW m \in 1..n, m - 1 \in G PROVE m \in G
  <2>1. PICK f \in [0..(m - 1) -> S] : Unfolds(f, m - 1, g, a)
    BY <1>2
  <2>. DEFINE h == [i \in 0..m |->
                      IF i = m THEN g[<<m, f[m - 1]>>] ELSE f[i]]
  <2>2. h \in [0..m -> S] /\ h[0] = a
    BY <2>1
  <2>3. ASSUME NEW i \in 1..m PROVE h[i] = g[<<i, h[i - 1]>>]
    <3>1. h[i - 1] = f[i - 1]
      OBVIOUS
    <3>2. CASE i = m
      <4>1. h[m] = g[<<m, f[m - 1]>>]
        OBVIOUS
      <4>. QED
        BY <4>1, <3>1, <3>2
    <3>3. CASE i # m
      <4>1. h[i] = f[i] /\ i \in 1..(m - 1)
        BY <3>3
      <4>. QED
        BY <4>1, <3>1, <2>1
    <3>. QED
      BY <3>2, <3>3
  <2>4. P(m)
    BY <2>2, <2>3
  <2>. QED
    BY <2>4
<1>3. n \in G
  <2>1. n \in 0..n
    OBVIOUS
  <2>. HIDE DEF G
  <2>. QED
    BY <1>1, <1>2, <2>1, IntervalInduction
<1>. QED
  BY <1>3

-----------------------------------------------------------------------------
(***************************************************************************)
(* Lists.                                                                  *)
(***************************************************************************)

\* What one more element adds to a list.
LEMMA AppendFacts ==
    ASSUME NEW T, NEW s \in Seq(T), NEW e \in T
    PROVE  /\ Append(s, e) \in Seq(T) /\ Len(Append(s, e)) = Len(s) + 1
           /\ Range(Append(s, e)) = Range(s) \cup {e}
           /\ IsInjective(s) /\ e \notin Range(s) => IsInjective(Append(s, e))
<1>. DEFINE t == Append(s, e)
<1>1. /\ t \in Seq(T) /\ Len(t) = Len(s) + 1
      /\ DOMAIN t = 1..(Len(s) + 1) /\ DOMAIN s = 1..Len(s)
      /\ t[Len(s) + 1] = e /\ \A i \in 1..Len(s) : t[i] = s[i]
  OBVIOUS
<1>. HIDE DEF t
<1>2. Range(t) = Range(s) \cup {e}
  <2>1. ASSUME NEW i \in DOMAIN t PROVE t[i] \in Range(s) \cup {e}
    BY <1>1 DEF Range
  <2>2. ASSUME NEW i \in DOMAIN s PROVE s[i] \in Range(t)
    BY <1>1 DEF Range
  <2>3. e \in Range(t)
    <3>1. Len(s) + 1 \in DOMAIN t
      BY <1>1
    <3>. QED
      BY <1>1, <3>1 DEF Range
  <2>. QED
    BY <2>1, <2>2, <2>3 DEF Range
<1>3. ASSUME IsInjective(s), e \notin Range(s) PROVE IsInjective(t)
  <2>. SUFFICES ASSUME NEW i \in DOMAIN t, NEW j \in DOMAIN t, t[i] = t[j]
                PROVE  i = j
    BY DEF IsInjective
  <2>1. \A k \in 1..Len(s) : s[k] # e
    BY <1>1, <1>3 DEF Range
  <2>2. CASE i \in 1..Len(s) /\ j \in 1..Len(s)
    BY <1>1, <1>3, <2>2 DEF IsInjective
  <2>3. CASE i = Len(s) + 1 /\ j = Len(s) + 1
    BY <2>3
  <2>. QED
    BY <1>1, <2>1, <2>2, <2>3
<1>. QED
  BY <1>1, <1>2, <1>3 DEF t

\* Keep as the last of a row of lists, one for each prefix.
KeepRow(k, s, S) ==
    /\ k[0] = <<>> /\ Keep(s, S) = k[Len(s)]
    /\ \A i \in 1..Len(s) :
         k[i] = IF s[i] \in S THEN Append(k[i - 1], s[i]) ELSE k[i - 1]

LEMMA KeepSteps ==
    ASSUME NEW T, NEW s \in Seq(T), NEW S
    PROVE  \E k : KeepRow(k, s, S)
<1>. DEFINE g == [p \in (1..Len(s)) \X Seq(T) |->
                    IF s[p[1]] \in S THEN Append(p[2], s[p[1]]) ELSE p[2]]
            Unfold(f) == [i \in 0..Len(s) |->
                          IF i = 0 THEN <<>>
                          ELSE IF s[i] \in S THEN Append(f[i - 1], s[i])
                                             ELSE f[i - 1]]
            k == CHOOSE f : f = Unfold(f)
<1>1. g \in [(1..Len(s)) \X Seq(T) -> Seq(T)]
  OBVIOUS
<1>2. PICK f \in [0..Len(s) -> Seq(T)] : Unfolds(f, Len(s), g, <<>>)
  <2>1. Len(s) \in Nat /\ <<>> \in Seq(T)
    OBVIOUS
  <2>. HIDE DEF g
  <2>. QED
    BY <1>1, <2>1, IntervalRecursion
<1>3. ASSUME NEW i \in 1..Len(s)
      PROVE  f[i] = IF s[i] \in S THEN Append(f[i - 1], s[i]) ELSE f[i - 1]
  <2>1. <<i, f[i - 1]>> \in (1..Len(s)) \X Seq(T)
    <3>1. f[i - 1] \in Seq(T)
      OBVIOUS
    <3>. HIDE DEF g
    <3>. QED
      BY <3>1
  <2>2. f[i] = g[<<i, f[i - 1]>>]
    <3>. HIDE DEF g
    <3>. QED
      BY <1>2 DEF Unfolds
  <2>. QED
    BY <2>1, <2>2
<1>4. f = Unfold(f)
  <2>1. f = [i \in 0..Len(s) |-> f[i]]
    OBVIOUS
  <2>2. ASSUME NEW i \in 0..Len(s) PROVE f[i] = Unfold(f)[i]
    <3>1. f[0] = <<>>
      BY <1>2 DEF Unfolds
    <3>2. i # 0 => i \in 1..Len(s)
      OBVIOUS
    <3>. QED
      BY <1>3, <3>1, <3>2
  <2>3. Unfold(f) = [i \in 0..Len(s) |-> Unfold(f)[i]]
    OBVIOUS
  <2>. HIDE DEF Unfold
  <2>. QED
    BY <2>1, <2>2, <2>3
<1>5. k = Unfold(k)
  BY <1>4
<1>6. Keep(s, S) = k[Len(s)]
  BY DEF Keep
<1>7. /\ k[0] = <<>>
      /\ \A i \in 1..Len(s) :
           k[i] = IF s[i] \in S THEN Append(k[i - 1], s[i]) ELSE k[i - 1]
  <2>. HIDE DEF k
  <2>1. /\ Unfold(k)[0] = <<>>
        /\ \A i \in 1..Len(s) :
             Unfold(k)[i] = IF s[i] \in S THEN Append(k[i - 1], s[i])
                                        ELSE k[i - 1]
    OBVIOUS
  <2>. QED
    BY <1>5, <2>1
<1>. HIDE DEF k
<1>. QED
  BY <1>6, <1>7 DEF KeepRow

\* Keep keeps what is asked for and nothing else, and repeats nothing.
LEMMA KeepFacts ==
    ASSUME NEW T, NEW s \in Seq(T), NEW S
    PROVE  /\ Keep(s, S) \in Seq(T) /\ Len(Keep(s, S)) =< Len(s)
           /\ Range(Keep(s, S)) = Range(s) \cap S
           /\ IsInjective(s) => IsInjective(Keep(s, S))
<1>0. PICK k : KeepRow(k, s, S)
  BY KeepSteps
<1>1. /\ k[0] = <<>> /\ Keep(s, S) = k[Len(s)]
      /\ \A i \in 1..Len(s) :
           k[i] = IF s[i] \in S THEN Append(k[i - 1], s[i]) ELSE k[i - 1]
  BY <1>0 DEF KeepRow
<1>. DEFINE Good(i) == /\ k[i] \in Seq(T) /\ Len(k[i]) =< i
                       /\ Range(k[i]) = {s[j] : j \in 1..i} \cap S
                       /\ IsInjective(s) => IsInjective(k[i])
            G == {i \in 0..Len(s) : Good(i)}
<1>2. 0 \in G
  <2>1. 1..0 = {} /\ Len(<<>>) = 0 /\ <<>> \in Seq(T) /\ 0 \in 0..Len(s)
    OBVIOUS
  <2>2. Range(<<>>) = {} /\ IsInjective(<<>>)
    BY DEF Range, IsInjective
  <2>3. {s[j] : j \in 1..0} = {}
    BY <2>1
  <2>4. Good(0)
    <3>1. k[0] = <<>>
      BY <1>1
    <3>2. {s[j] : j \in 1..0} \cap S = {}
      BY <2>3
    <3>3. k[0] \in Seq(T) /\ Len(k[0]) =< 0
      BY <3>1, <2>1
    <3>4. Range(k[0]) = {s[j] : j \in 1..0} \cap S
      BY <3>1, <3>2, <2>2
    <3>5. IsInjective(k[0])
      BY <3>1, <2>2
    <3>. QED
      BY <3>3, <3>4, <3>5
  <2>. HIDE DEF Good
  <2>. QED
    BY <2>1, <2>4
<1>3. ASSUME NEW i \in 1..Len(s), i - 1 \in G PROVE i \in G
  <2>. DEFINE before == k[i - 1]
  <2>1. Good(i - 1)
    BY <1>3
  <2>2. {s[j] : j \in 1..i} = {s[j] : j \in 1..(i - 1)} \cup {s[i]}
    <3>1. 1..i = (1..(i - 1)) \cup {i}
      OBVIOUS
    <3>. QED
      BY <3>1
  <2>3. CASE s[i] \notin S
    <3>1. k[i] = k[i - 1]
      BY <1>1, <2>3
    <3>. QED
      BY <2>1, <2>2, <2>3, <3>1
  <2>4. CASE s[i] \in S
    <3>1. k[i] = Append(before, s[i])
      BY <1>1, <2>4
    <3>2. s[i] \in T
      OBVIOUS
    <3>3. ASSUME IsInjective(s) PROVE s[i] \notin Range(before)
      BY <2>1, <3>3 DEF IsInjective
    <3>4. before \in Seq(T) /\ Len(before) =< i - 1
      BY <2>1
    <3>. HIDE DEF before
    <3>5. /\ k[i] \in Seq(T) /\ Len(k[i]) = Len(before) + 1
          /\ Range(k[i]) = Range(before) \cup {s[i]}
          /\ IsInjective(before) /\ s[i] \notin Range(before)
               => IsInjective(k[i])
      BY <3>1, <3>2, <3>4, AppendFacts
    <3>6. Len(k[i]) =< i
      BY <3>4, <3>5
    <3>7. Range(k[i]) = {s[j] : j \in 1..i} \cap S
      BY <2>1, <2>2, <2>4, <3>5 DEF before
    <3>8. IsInjective(s) => IsInjective(k[i])
      BY <2>1, <3>3, <3>5 DEF before
    <3>. QED
      BY <3>5, <3>6, <3>7, <3>8
  <2>. QED
    BY <2>3, <2>4
<1>4. Good(Len(s))
  <2>. HIDE DEF Good
  <2>1. Len(s) \in Nat /\ Len(s) \in 0..Len(s)
    OBVIOUS
  <2>. HIDE DEF G
  <2>2. Len(s) \in G
    BY <1>2, <1>3, <2>1, IntervalInduction
  <2>. QED
    BY <2>2 DEF G
<1>5. {s[j] : j \in 1..Len(s)} = Range(s)
  BY DEF Range
<1>. QED
  BY <1>1, <1>4, <1>5

\* What is in two lists joined.
LEMMA ConcatFacts ==
    ASSUME NEW T, NEW s \in Seq(T), NEW t \in Seq(T)
    PROVE  /\ s \o t \in Seq(T)
           /\ Range(s \o t) = Range(s) \cup Range(t)
           /\ IsInjective(s) /\ IsInjective(t) /\ Range(s) \cap Range(t) = {}
                => IsInjective(s \o t)
<1>. DEFINE u == s \o t
            m == Len(s)
            n == Len(t)
<1>1. /\ u \in Seq(T) /\ m \in Nat /\ n \in Nat
      /\ DOMAIN u = 1..(m + n) /\ DOMAIN s = 1..m /\ DOMAIN t = 1..n
      /\ \A i \in 1..m : u[i] = s[i]
      /\ \A i \in (m + 1)..(m + n) : u[i] = t[i - m]
  OBVIOUS
<1>. HIDE DEF u, m, n
<1>2. Range(u) = Range(s) \cup Range(t)
  <2>1. ASSUME NEW i \in DOMAIN u PROVE u[i] \in Range(s) \cup Range(t)
    <3>1. CASE i \in 1..m
      BY <1>1, <3>1 DEF Range
    <3>2. CASE i \in (m + 1)..(m + n)
      <4>1. i - m \in DOMAIN t
        BY <1>1, <3>2
      <4>. QED
        BY <1>1, <3>2, <4>1 DEF Range
    <3>. QED
      BY <1>1, <3>1, <3>2
  <2>2. ASSUME NEW i \in DOMAIN s PROVE s[i] \in Range(u)
    BY <1>1 DEF Range
  <2>3. ASSUME NEW i \in DOMAIN t PROVE t[i] \in Range(u)
    <3>1. i + m \in (m + 1)..(m + n) /\ (i + m) - m = i
      BY <1>1
    <3>. QED
      BY <1>1, <3>1 DEF Range
  <2>. QED
    BY <2>1, <2>2, <2>3 DEF Range
<1>3. ASSUME IsInjective(s), IsInjective(t), Range(s) \cap Range(t) = {}
      PROVE  IsInjective(u)
  <2>. SUFFICES ASSUME NEW i \in DOMAIN u, NEW j \in DOMAIN u, u[i] = u[j]
                PROVE  i = j
    BY DEF IsInjective
  <2>1. ASSUME NEW a \in 1..m, NEW b \in (m + 1)..(m + n) PROVE u[a] # u[b]
    <3>1. b - m \in DOMAIN t /\ a \in DOMAIN s
      BY <1>1
    <3>2. u[a] \in Range(s) /\ u[b] \in Range(t)
      BY <1>1, <3>1 DEF Range
    <3>. QED
      BY <1>3, <3>2
  <2>2. CASE i \in 1..m /\ j \in 1..m
    BY <1>1, <1>3, <2>2 DEF IsInjective
  <2>3. CASE i \in (m + 1)..(m + n) /\ j \in (m + 1)..(m + n)
    <3>1. i - m \in DOMAIN t /\ j - m \in DOMAIN t /\ t[i - m] = t[j - m]
      BY <1>1, <2>3
    <3>2. i - m = j - m
      BY <1>3, <3>1 DEF IsInjective
    <3>. QED
      BY <1>1, <3>2
  <2>. QED
    BY <1>1, <2>1, <2>2, <2>3
<1>. QED
  BY <1>1, <1>2, <1>3 DEF u

\* FlattenSeq as the last of a row of lists.
FlattenRow(k, q) ==
    /\ k[1] = q[1] /\ FlattenSeq(q) = k[Len(q)]
    /\ \A i \in 2..Len(q) : k[i] = k[i - 1] \o q[i]

LEMMA FlattenSteps ==
    ASSUME NEW T, NEW q \in Seq(Seq(T)), q # <<>>
    PROVE  \E k : FlattenRow(k, q)
<1>. DEFINE n == Len(q)
            g == [p \in (1..n) \X Seq(T) |-> p[2] \o q[p[1]]]
            Unfold(f) == [i \in 1..n |->
                          IF i = 1 THEN q[i] ELSE f[i - 1] \o q[i]]
            k == CHOOSE f : f = Unfold(f)
<1>0. n \in Nat /\ n > 0 /\ \A i \in 1..n : q[i] \in Seq(T)
  OBVIOUS
<1>1. g \in [(1..n) \X Seq(T) -> Seq(T)]
  <2>1. ASSUME NEW p \in (1..n) \X Seq(T) PROVE p[2] \o q[p[1]] \in Seq(T)
    BY <1>0
  <2>. QED
    BY <2>1
<1>2. PICK f \in [0..n -> Seq(T)] : Unfolds(f, n, g, <<>>)
  <2>1. <<>> \in Seq(T)
    OBVIOUS
  <2>. HIDE DEF g, n
  <2>. QED
    BY <1>0, <1>1, <2>1, IntervalRecursion
<1>3. ASSUME NEW i \in 1..n PROVE f[i] = f[i - 1] \o q[i]
  <2>1. <<i, f[i - 1]>> \in (1..n) \X Seq(T)
    <3>. HIDE DEF g, n
    <3>1. i - 1 \in 0..n
      BY <1>0
    <3>2. f[i - 1] \in Seq(T)
      BY <3>1
    <3>. QED
      BY <3>2
  <2>2. f[i] = g[<<i, f[i - 1]>>]
    <3>. HIDE DEF g, n
    <3>. QED
      BY <1>2 DEF Unfolds
  <2>. QED
    BY <2>1, <2>2
<1>. DEFINE h == [i \in 1..n |-> f[i]]
<1>4. h = Unfold(h)
  <2>1. f[1] = q[1]
    <3>1. f[0] = <<>>
      BY <1>2 DEF Unfolds
    <3>2. 1 \in 1..n /\ 1 - 1 = 0
      BY <1>0
    <3>3. f[1] = f[0] \o q[1]
      <4>. HIDE DEF n
      <4>. QED
        BY <1>3, <3>2
    <3>4. q[1] \in Seq(T)
      BY <1>0
    <3>5. <<>> \o q[1] = q[1]
      BY <3>4
    <3>. QED
      BY <3>1, <3>3, <3>5
  <2>2. ASSUME NEW i \in 1..n PROVE h[i] = Unfold(h)[i]
    <3>1. CASE i = 1
      BY <2>1, <3>1
    <3>2. CASE i # 1
      <4>1. i - 1 \in 1..n /\ h[i - 1] = f[i - 1] /\ h[i] = f[i]
        BY <1>0, <3>2
      <4>2. Unfold(h)[i] = h[i - 1] \o q[i]
        BY <3>2
      <4>3. f[i] = f[i - 1] \o q[i]
        BY <1>3
      <4>. HIDE DEF h, Unfold
      <4>. QED
        BY <4>1, <4>2, <4>3
    <3>. QED
      BY <3>1, <3>2
  <2>3. h = [i \in 1..n |-> h[i]] /\ Unfold(h) = [i \in 1..n |-> Unfold(h)[i]]
    OBVIOUS
  <2>. HIDE DEF Unfold, h
  <2>. QED
    BY <2>2, <2>3
<1>5. k = Unfold(k)
  <2>. HIDE DEF h, Unfold
  <2>. QED
    BY <1>4
<1>6. FlattenSeq(q) = k[n]
  BY <1>0 DEF FlattenSeq
<1>7. k[1] = q[1] /\ \A i \in 2..n : k[i] = k[i - 1] \o q[i]
  <2>. HIDE DEF k
  <2>1. /\ Unfold(k)[1] = q[1]
        /\ \A i \in 2..n : Unfold(k)[i] = k[i - 1] \o q[i]
    <3>1. 1 \in 1..n
      BY <1>0
    <3>2. ASSUME NEW i \in 2..n PROVE i \in 1..n /\ i # 1
      BY <1>0
    <3>. HIDE DEF n
    <3>. QED
      BY <3>1, <3>2
  <2>. HIDE DEF Unfold
  <2>. QED
    BY <1>5, <2>1
<1>. HIDE DEF k
<1>. QED
  BY <1>6, <1>7 DEF FlattenRow

\* The lists of q repeat nothing, neither alone nor together.
NoRepeats(q) ==
    /\ \A i \in DOMAIN q : IsInjective(q[i])
    /\ \A i, j \in DOMAIN q : i # j => Range(q[i]) \cap Range(q[j]) = {}

\* FlattenSeq has what the lists have, and repeats nothing if they do not.
LEMMA FlattenFacts ==
    ASSUME NEW T, NEW q \in Seq(Seq(T))
    PROVE  /\ FlattenSeq(q) \in Seq(T)
           /\ Range(FlattenSeq(q)) = UNION {Range(q[i]) : i \in DOMAIN q}
           /\ NoRepeats(q) => IsInjective(FlattenSeq(q))
<1>1. CASE q = <<>>
  <2>1. FlattenSeq(q) = <<>>
    BY <1>1 DEF FlattenSeq
  <2>2. <<>> \in Seq(T) /\ Range(<<>>) = {} /\ IsInjective(<<>>)
    BY DEF Range, IsInjective
  <2>3. UNION {Range(q[i]) : i \in DOMAIN q} = {}
    BY <1>1
  <2>. QED
    BY <2>1, <2>2, <2>3
<1>2. CASE q # <<>>
  <2>0. PICK k : FlattenRow(k, q)
    BY <1>2, FlattenSteps
  <2>1. /\ k[1] = q[1] /\ FlattenSeq(q) = k[Len(q)]
        /\ \A i \in 2..Len(q) : k[i] = k[i - 1] \o q[i]
    BY <2>0 DEF FlattenRow
  <2>2. /\ Len(q) \in Nat /\ Len(q) > 0 /\ DOMAIN q = 1..Len(q)
        /\ \A i \in 1..Len(q) : q[i] \in Seq(T)
    BY <1>2
  <2>. DEFINE Good(i) == /\ k[i] \in Seq(T)
                         /\ Range(k[i]) = UNION {Range(q[j]) : j \in 1..i}
                         /\ NoRepeats(q) => IsInjective(k[i])
              G == {i \in 0..Len(q) : i # 0 => Good(i)}
  <2>3. 0 \in G
    BY <2>2
  <2>4. ASSUME NEW i \in 1..Len(q), i - 1 \in G PROVE i \in G
    <3>1. CASE i = 1
      <4>1. 1..1 = {1}
        OBVIOUS
      <4>2. UNION {Range(q[j]) : j \in 1..1} = Range(q[1])
        BY <4>1
      <4>3. Good(1)
        BY <2>1, <2>2, <4>2 DEF NoRepeats
      <4>. HIDE DEF Good
      <4>. QED
        BY <2>2, <3>1, <4>3
    <3>2. CASE i # 1
      <4>. DEFINE before == k[i - 1]
      <4>1. i \in 2..Len(q) /\ Good(i - 1)
        BY <2>2, <2>4, <3>2
      <4>2. k[i] = before \o q[i]
        BY <2>1, <4>1
      <4>3. before \in Seq(T) /\ q[i] \in Seq(T)
        BY <2>2, <4>1
      <4>4. 1..i = (1..(i - 1)) \cup {i}
        BY <4>1
      <4>5. UNION {Range(q[j]) : j \in 1..i}
              = (UNION {Range(q[j]) : j \in 1..(i - 1)}) \cup Range(q[i])
        <5>1. {Range(q[j]) : j \in 1..i}
                = {Range(q[j]) : j \in 1..(i - 1)} \cup {Range(q[i])}
          BY <4>4
        <5>. QED
          BY <5>1
      <4>6. ASSUME NoRepeats(q)
            PROVE  /\ Range(before) \cap Range(q[i]) = {}
                   /\ IsInjective(before) /\ IsInjective(q[i])
        <5>1. ASSUME NEW j \in 1..(i - 1)
              PROVE  Range(q[j]) \cap Range(q[i]) = {}
          <6>1. j \in DOMAIN q /\ i \in DOMAIN q /\ j # i
            BY <2>2
          <6>. QED
            BY <4>6, <6>1 DEF NoRepeats
        <5>2. IsInjective(q[i])
          BY <2>2, <4>6 DEF NoRepeats
        <5>3. Range(before) = UNION {Range(q[j]) : j \in 1..(i - 1)}
          BY <4>1
        <5>. QED
          BY <4>1, <4>6, <5>1, <5>2, <5>3
      <4>7. Range(before) = UNION {Range(q[j]) : j \in 1..(i - 1)}
        BY <4>1
      <4>. HIDE DEF before
      <4>8. /\ k[i] \in Seq(T)
            /\ Range(k[i]) = Range(before) \cup Range(q[i])
            /\ NoRepeats(q) => IsInjective(k[i])
        BY <4>2, <4>3, <4>6, ConcatFacts
      <4>9. Good(i)
        BY <4>5, <4>7, <4>8
      <4>. HIDE DEF Good
      <4>. QED
        BY <4>9
    <3>. QED
      BY <3>1, <3>2
  <2>5. Good(Len(q))
    <3>1. Len(q) \in 0..Len(q)
      BY <2>2
    <3>. HIDE DEF Good
    <3>2. Len(q) \in G
      <4>. HIDE DEF G
      <4>. QED
        BY <2>2, <2>3, <2>4, <3>1, IntervalInduction
    <3>. QED
      BY <2>2, <3>2
  <2>. QED
    BY <2>1, <2>2, <2>5
<1>. QED
  BY <1>1, <1>2

-----------------------------------------------------------------------------
(***************************************************************************)
(* The monitor.  The four invariants of Console follow from ConsoleInv,    *)
(* whose parts say more than they do of the states between two pulls: the  *)
(* rows of the snapshot match the filter until the filter changes, which   *)
(* is when a pull is due (Screen); the detail is the one asked for until a *)
(* request fails (Followed); and of a cancel that is not done, the rows it *)
(* has passed are settled and those it will skip were settled when it read *)
(* them (JobOK).                                                           *)
(***************************************************************************)
Over == {"cancelled", "closed"}

Task == [from : Range(Roles), to : Range(Roles), parent : 0..MaxTasks,
         retry : BOOLEAN, state : TaskState]

Edge == Range(Roles) \X Range(Roles)

TaskRow == [id : Nat, to : Range(Roles), state : TaskState]

Table == tasks \in Seq(Task) /\ Len(tasks) =< MaxTasks

Counts ==
    /\ alarms \in Nat /\ events \in Nat /\ alarms =< events
    /\ events =< MaxEvents
    /\ enabled \in BOOLEAN /\ failed \in BOOLEAN

Cursors ==
    /\ pc \in {"idle", "pull", "sync", "answer"}
    /\ focus \in {"graph", "history"}
    /\ cursor \in [{"graph", "history"} -> 0..(Max2(MaxTasks, 1) - 1)]
    /\ search \in {"closed", "empty", "word"}
    /\ {chosen, detail} \subseteq 0..Len(tasks)

Filter == [state : Range(States), role : Range(Roles) \cup {AnyRole},
           edge : Edge \cup {AnyEdge}, text : {"empty", "word"},
           window : Range(Windows), retry : BOOLEAN, offset : Nat]

\* A row of an answer is a row of the table.
OfTable(r) == r.id \in DOMAIN tasks /\ r.to = tasks[r.id].to

Snapshot ==
    /\ snap.alarms \in Nat /\ snap.roles \in {<<>>, Roles}
    /\ snap.edges \in Seq(Edge)
    /\ snap.active \in Seq(TaskRow)
    /\ \A i \in DOMAIN snap.active : OfTable(snap.active[i])
    /\ \A i, j \in DOMAIN snap.active :
         snap.active[i].id = snap.active[j].id => i = j
    /\ snap.history.rows \in Seq(TaskRow) /\ snap.history.total \in Nat
    /\ \A i \in DOMAIN snap.history.rows : OfTable(snap.history.rows[i])
    /\ Len(snap.history.rows) =< MaxTasks

Screen ==
    pc # "pull" =>
      \A i \in DOMAIN snap.history.rows : Fits(snap.history.rows[i])

Followed ==
    /\ ~failed => detail = chosen
    /\ Quiet => chosen = Selected

Job == [root : Nat, phase : {"new", "run", "done"}, upto : Nat,
        family : Seq(TaskRow), todo : Seq(TaskRow)]

Reached(job) == {job.family[i].id : i \in DOMAIN job.family}

\* What a cancel has read, and what it has left to do.
JobRead(job) ==
    /\ job.upto =< Len(tasks)
    /\ job.root \in Reached(job)
    /\ \A t \in 1..job.upto :
         tasks[t].parent \in Reached(job) => t \in Reached(job)
    /\ \A i \in DOMAIN job.family :
         LET row == job.family[i] IN
         /\ row.id \in DOMAIN tasks
         /\ \/ row \in Range(job.todo)
            \/ tasks[row.id].state \in Over
         /\ row.state \in Over => tasks[row.id].state \in Over
    /\ Range(job.todo) \subseteq Range(job.family)
    /\ job.phase = "done" => job.todo = <<>>

JobOK(job) ==
    /\ job \in Job /\ job.root \in DOMAIN tasks
    /\ job.phase # "new" => JobRead(job)

Jobs == jobs \in Seq(Job) /\ \A j \in DOMAIN jobs : JobOK(jobs[j])

ConsoleInv ==
    /\ Table /\ Counts /\ Cursors /\ filter \in Filter /\ Snapshot
    /\ Screen /\ Followed /\ Jobs

\* The rows of a list are all of different tasks.
Distinct(rows) == \A i, j \in DOMAIN rows : rows[i].id = rows[j].id => i = j

IdsOf(rows) == [i \in DOMAIN rows |-> rows[i].id]

\* A list of different numbers up to n has at most n of them.
LEMMA InjectiveBound ==
    ASSUME NEW n \in Nat, NEW s \in Seq(1..n), IsInjective(s)
    PROVE  Len(s) =< n
<1>1. s \in Injection(1..Len(s), 1..n)
  BY DEF Injection, IsInjective
<1>2. /\ IsFiniteSet(1..n) /\ Cardinality(1..n) = n
      /\ Len(s) \in Nat
  BY FS_Interval
<1>3. Cardinality(1..Len(s)) = Len(s)
  <2>. DEFINE m == Len(s)
  <2>1. m \in Int /\ 1 \in Int /\ m >= 0
    BY <1>2
  <2>. HIDE DEF m
  <2>2. Cardinality(1..m) = IF 1 > m THEN 0 ELSE m - 1 + 1
    BY <2>1, FS_Interval
  <2>3. Cardinality(1..m) = m
    BY <2>1, <2>2
  <2>. QED
    BY <2>3 DEF m
<1>4. Cardinality(1..Len(s)) =< Cardinality(1..n)
  BY <1>1, <1>2, FS_Injection
<1>. QED
  BY <1>2, <1>3, <1>4

\* A box has rows for at least one session.
LEMMA BodyCapFacts ==
    ASSUME NEW roles \in Nat \ {0}, NEW alerts \in Nat
    PROVE  BodyCap(roles, alerts) \in Nat
<1>1. Height \in Nat
  BY ConsoleAssumption
<1>. DEFINE usable == Max2(Height - 1 - Min2(alerts, 2), 3 * roles)
            room == (usable - 3 * roles) \div roles
<1>2. usable \in Int /\ usable >= 3 * roles
  BY <1>1 DEF Max2, Min2
<1>3. room \in Int
  <2>1. usable - 3 * roles \in Int
    BY <1>2
  <2>. HIDE DEF usable
  <2>. QED
    BY <2>1
<1>4. BodyCap(roles, alerts) = Max2(room, 1)
  BY DEF BodyCap
<1>. QED
  <2>. HIDE DEF room
  <2>. QED
    BY <1>3, <1>4 DEF Max2

\* The box of a role shows rows of that role, each once.
LEMMA BoxFacts ==
    ASSUME NEW g, NEW role, g.active \in Seq(TaskRow), Distinct(g.active),
           Len(g.roles) \in Nat \ {0}, g.alarms \in Nat
    PROVE  /\ Box(g, role) \in Seq(Nat) /\ IsInjective(Box(g, role))
           /\ \A x \in Range(Box(g, role)) :
                \E i \in DOMAIN g.active :
                  g.active[i].to = role /\ g.active[i].id = x
<1>. DEFINE rows == g.active
            wanted == {r \in Range(rows) : r.to = role}
            mine == Keep(rows, wanted)
            cap == BodyCap(Len(g.roles), g.alarms)
            body == Body(mine, cap)
<1>1. rows \in Seq(TaskRow)
  OBVIOUS
<1>2. IsInjective(rows)
  BY DEF Distinct, IsInjective
<1>3. cap \in Nat
  BY BodyCapFacts
<1>4. Box(g, role) = IdsOf(body)
  BY DEF Box, IdsOf
<1>5. /\ mine \in Seq(TaskRow) /\ Range(mine) = Range(rows) \cap wanted
      /\ IsInjective(mine)
  <2>. HIDE DEF wanted, rows
  <2>. QED
    BY <1>1, <1>2, KeepFacts
<1>6. /\ body \in Seq(TaskRow) /\ Range(body) \subseteq Range(mine)
      /\ IsInjective(body)
  <2>1. CASE Len(mine) > cap
    <3>. HIDE DEF mine, cap
    <3>1. mine # <<>> /\ body = <<Head(mine)>> /\ Head(mine) = mine[1]
      BY <1>3, <1>5, <2>1 DEF Body
    <3>2. 1 \in DOMAIN mine /\ mine[1] \in TaskRow
      BY <1>5, <3>1
    <3>3. mine[1] \in Range(mine)
      BY <3>2 DEF Range
    <3>. DEFINE only == mine[1]
    <3>4. body = <<only>> /\ only \in TaskRow /\ only \in Range(mine)
      BY <3>1, <3>2, <3>3
    <3>. HIDE DEF only, body
    <3>5. /\ DOMAIN body = {1} /\ body[1] = only
          /\ body \in Seq(TaskRow)
      BY <3>4
    <3>. QED
      BY <3>4, <3>5 DEF Range, IsInjective
  <2>2. CASE ~(Len(mine) > cap)
    <3>1. body = mine
      BY <2>2 DEF Body
    <3>. HIDE DEF body, mine
    <3>. QED
      BY <1>5, <3>1
  <2>. QED
    BY <2>1, <2>2
<1>. HIDE DEF body, mine, cap
<1>7. /\ IdsOf(body) \in Seq(Nat) /\ DOMAIN IdsOf(body) = DOMAIN body
      /\ \A j \in DOMAIN body : IdsOf(body)[j] = body[j].id
  <2>1. DOMAIN body = 1..Len(body) /\ Len(body) \in Nat
    BY <1>6
  <2>2. ASSUME NEW j \in DOMAIN body PROVE body[j].id \in Nat
    <3>1. body[j] \in TaskRow
      BY <1>6
    <3>. QED
      BY <3>1 DEF TaskRow
  <2>. QED
    BY <2>1, <2>2 DEF IdsOf
<1>8. ASSUME NEW j \in DOMAIN body
      PROVE  \E i \in DOMAIN rows : rows[i].to = role /\ rows[i] = body[j]
  <2>1. body[j] \in Range(mine)
    BY <1>6 DEF Range
  <2>2. body[j] \in Range(rows) /\ body[j].to = role
    BY <1>5, <2>1
  <2>. QED
    BY <2>2 DEF Range
<1>9. IsInjective(IdsOf(body))
  <2>. SUFFICES ASSUME NEW j \in DOMAIN body, NEW k \in DOMAIN body,
                       body[j].id = body[k].id
                PROVE  j = k
    BY <1>7 DEF IsInjective
  <2>1. PICK a \in DOMAIN rows : rows[a] = body[j]
    BY <1>8
  <2>2. PICK b \in DOMAIN rows : rows[b] = body[k]
    BY <1>8
  <2>3. a = b
    BY <2>1, <2>2 DEF Distinct
  <2>. QED
    BY <1>6, <2>1, <2>2, <2>3 DEF IsInjective
<1>10. ASSUME NEW x \in Range(IdsOf(body))
       PROVE  \E i \in DOMAIN rows : rows[i].to = role /\ rows[i].id = x
  <2>1. PICK j \in DOMAIN body : x = body[j].id
    BY <1>7, <1>10 DEF Range
  <2>. QED
    BY <1>8, <2>1
<1>. QED
  BY <1>4, <1>7, <1>9, <1>10

\* The graph lists sessions, each once.
LEMMA GraphFacts ==
    ASSUME NEW g, g.active \in Seq(TaskRow), Distinct(g.active),
           g.roles \in {<<>>, Roles}, g.alarms \in Nat
    PROVE  /\ GraphIds(g) \in Seq(Nat) /\ IsInjective(GraphIds(g))
           /\ \A x \in Range(GraphIds(g)) :
                \E i \in DOMAIN g.active : g.active[i].id = x
<1>1. CASE g.roles = <<>>
  <2>1. GraphIds(g) = <<>>
    BY <1>1 DEF GraphIds
  <2>2. <<>> \in Seq(Nat) /\ Range(<<>>) = {} /\ IsInjective(<<>>)
    BY DEF Range, IsInjective
  <2>. QED
    BY <2>1, <2>2
<1>2. CASE g.roles # <<>>
  <2>. DEFINE q == [i \in DOMAIN Roles |-> Box(g, Roles[i])]
  <2>1. /\ g.roles = Roles /\ Len(Roles) \in Nat \ {0}
        /\ DOMAIN Roles = 1..Len(Roles) /\ IsInjective(Roles)
    BY <1>2, ConsoleAssumption
  <2>2. GraphIds(g) = FlattenSeq(q)
    BY <1>2, <2>1 DEF GraphIds
  <2>3. ASSUME NEW i \in DOMAIN Roles
        PROVE  /\ Box(g, Roles[i]) \in Seq(Nat)
               /\ IsInjective(Box(g, Roles[i]))
               /\ \A x \in Range(Box(g, Roles[i])) :
                    \E k \in DOMAIN g.active :
                      g.active[k].to = Roles[i] /\ g.active[k].id = x
    <3>. DEFINE role == Roles[i]
    <3>1. Len(g.roles) \in Nat \ {0}
      BY <2>1
    <3>. HIDE DEF role
    <3>2. /\ Box(g, role) \in Seq(Nat) /\ IsInjective(Box(g, role))
          /\ \A x \in Range(Box(g, role)) :
               \E k \in DOMAIN g.active :
                 g.active[k].to = role /\ g.active[k].id = x
      BY <3>1, BoxFacts
    <3>. QED
      BY <3>2 DEF role
  <2>4. q \in Seq(Seq(Nat)) /\ DOMAIN q = DOMAIN Roles
    BY <2>1, <2>3
  <2>5. \A i \in DOMAIN Roles : q[i] = Box(g, Roles[i])
    OBVIOUS
  <2>. HIDE DEF q
  <2>6. NoRepeats(q)
    <3>1. ASSUME NEW i \in DOMAIN q PROVE IsInjective(q[i])
      BY <2>3, <2>4, <2>5
    <3>2. ASSUME NEW i \in DOMAIN q, NEW j \in DOMAIN q, i # j,
                 NEW x \in Range(q[i]), x \in Range(q[j])
          PROVE  FALSE
      <4>1. PICK a \in DOMAIN g.active :
              g.active[a].to = Roles[i] /\ g.active[a].id = x
        BY <2>3, <2>4, <2>5
      <4>2. PICK b \in DOMAIN g.active :
              g.active[b].to = Roles[j] /\ g.active[b].id = x
        BY <2>3, <2>4, <2>5, <3>2
      <4>3. a = b
        BY <4>1, <4>2 DEF Distinct
      <4>4. Roles[i] = Roles[j]
        BY <4>1, <4>2, <4>3
      <4>. QED
        BY <2>1, <2>4, <3>2, <4>4 DEF IsInjective
    <3>. QED
      BY <3>1, <3>2 DEF NoRepeats
  <2>7. /\ FlattenSeq(q) \in Seq(Nat) /\ IsInjective(FlattenSeq(q))
        /\ Range(FlattenSeq(q)) = UNION {Range(q[i]) : i \in DOMAIN q}
    BY <2>4, <2>6, FlattenFacts
  <2>8. ASSUME NEW x \in Range(FlattenSeq(q))
        PROVE  \E k \in DOMAIN g.active : g.active[k].id = x
    <3>1. PICK i \in DOMAIN q : x \in Range(q[i])
      BY <2>7
    <3>. QED
      BY <2>3, <2>4, <2>5, <3>1
  <2>. QED
    BY <2>2, <2>7, <2>8
<1>. QED
  BY <1>1, <1>2

-----------------------------------------------------------------------------
\* A part of a list, which may begin behind its end.
LEMMA PartFacts ==
    ASSUME NEW T, NEW s \in Seq(T), NEW a \in Nat \ {0}, NEW b \in Nat,
           b =< Len(s)
    PROVE  /\ SubSeq(s, a, b) \in Seq(T) /\ Len(SubSeq(s, a, b)) =< Len(s)
           /\ \A i \in DOMAIN SubSeq(s, a, b) :
                i + a - 1 \in DOMAIN s /\ SubSeq(s, a, b)[i] = s[i + a - 1]
  OBVIOUS

\* The tasks, newest first: each once.
LEMMA NewestFacts ==
    ASSUME Table
    PROVE  /\ Newest \in Seq(DOMAIN tasks) /\ IsInjective(Newest)
           /\ Len(Newest) = Len(tasks)
<1>1. Len(tasks) \in Nat /\ DOMAIN tasks = 1..Len(tasks)
  BY DEF Table
<1>. DEFINE n == Len(tasks)
<1>2. Oldest = [t \in 1..n |-> t] /\ Len(Oldest) = n
  BY <1>1 DEF Oldest
<1>3. Newest = [i \in 1..n |-> (n - i) + 1]
  <2>1. Newest = [i \in 1..n |-> Oldest[(n - i) + 1]]
    BY <1>2 DEF Newest, Reverse
  <2>2. ASSUME NEW i \in 1..n PROVE Oldest[(n - i) + 1] = (n - i) + 1
    <3>1. (n - i) + 1 \in 1..n
      BY <1>1
    <3>. HIDE DEF n
    <3>. QED
      BY <1>2, <3>1
  <2>. QED
    BY <2>1, <2>2
<1>4. \A i \in 1..n : (n - i) + 1 \in 1..n
  BY <1>1
<1>. HIDE DEF n
<1>5. n \in Nat /\ DOMAIN tasks = 1..n
  BY <1>1 DEF n
<1>6. Newest \in Seq(DOMAIN tasks) /\ Len(Newest) = n
  BY <1>3, <1>4, <1>5
<1>7. IsInjective(Newest)
  BY <1>3, <1>5 DEF IsInjective
<1>. QED
  BY <1>6, <1>7 DEF n

\* The rows of different tasks are different rows.
LEMMA RowsFacts ==
    ASSUME Table, NEW ids \in Seq(DOMAIN tasks)
    PROVE  /\ Rows(ids) \in Seq(TaskRow) /\ Len(Rows(ids)) = Len(ids)
           /\ DOMAIN Rows(ids) = DOMAIN ids
           /\ \A i \in DOMAIN ids : /\ ids[i] \in DOMAIN tasks
                                    /\ Rows(ids)[i] = Row(ids[i])
                                    /\ Rows(ids)[i].id = ids[i]
                                    /\ OfTable(Rows(ids)[i])
           /\ IsInjective(ids) => Distinct(Rows(ids))
<1>1. /\ DOMAIN ids = 1..Len(ids) /\ Len(ids) \in Nat
      /\ \A i \in DOMAIN ids : ids[i] \in DOMAIN tasks
  OBVIOUS
<1>2. /\ DOMAIN Rows(ids) = DOMAIN ids
      /\ \A i \in DOMAIN ids : Rows(ids)[i] = Row(ids[i])
  BY DEF Rows
<1>3. ASSUME NEW t \in DOMAIN tasks
      PROVE  /\ Row(t) \in TaskRow /\ Row(t).id = t
             /\ Row(t).to = tasks[t].to
  <2>1. tasks[t] \in Task /\ t \in Nat
    BY DEF Table
  <2>. QED
    BY <2>1 DEF Row, Task, TaskRow
<1>4. Rows(ids) \in Seq(TaskRow) /\ Len(Rows(ids)) = Len(ids)
  <2>1. Rows(ids) = [i \in 1..Len(ids) |-> Row(ids[i])]
    BY <1>1 DEF Rows
  <2>2. \A i \in 1..Len(ids) : Row(ids[i]) \in TaskRow
    BY <1>1, <1>3
  <2>. QED
    BY <1>1, <2>1, <2>2
<1>5. \A i \in DOMAIN ids : /\ Rows(ids)[i].id = ids[i]
                            /\ OfTable(Rows(ids)[i])
  BY <1>1, <1>2, <1>3 DEF OfTable
<1>6. IsInjective(ids) => Distinct(Rows(ids))
  BY <1>2, <1>5 DEF IsInjective, Distinct
<1>. QED
  BY <1>1, <1>2, <1>4, <1>5, <1>6

\* What a page of the task table is: rows of the table, each once, as they
\* are now, and all of them asked for.
PageOf(page, q) ==
    /\ page.rows \in Seq(TaskRow) /\ page.total \in Nat
    /\ Len(page.rows) =< MaxTasks /\ Distinct(page.rows)
    /\ \A i \in DOMAIN page.rows :
         /\ OfTable(page.rows[i]) /\ Matches(page.rows[i].id, q)
         /\ page.rows[i].state = tasks[page.rows[i].id].state

LEMMA ListPageFacts ==
    ASSUME Table, NEW q, NEW limit \in Nat, NEW offset \in Nat
    PROVE  PageOf(ListPage(q, limit, offset), q)
<1>. DEFINE wanted == {t \in DOMAIN tasks : Matches(t, q)}
            found == Found(q)
            end == Min2(Len(found), offset + Min2(limit, ListCap))
            ids == SubSeq(found, offset + 1, end)
            page == ListPage(q, limit, offset)
<1>1. page.rows = Rows(ids) /\ page.total = Len(found)
  BY DEF ListPage
<1>2. /\ Newest \in Seq(DOMAIN tasks) /\ IsInjective(Newest)
      /\ Len(Newest) = Len(tasks) /\ Len(tasks) \in Nat
      /\ Len(tasks) =< MaxTasks /\ MaxTasks \in Nat
  BY NewestFacts, ConsoleAssumption DEF Table
<1>3. /\ found \in Seq(DOMAIN tasks) /\ Len(found) =< Len(tasks)
      /\ IsInjective(found) /\ \A t \in Range(found) : Matches(t, q)
  <2>1. found = Keep(Newest, wanted)
    BY DEF Found
  <2>2. \A t \in wanted : Matches(t, q)
    OBVIOUS
  <2>. HIDE DEF found, wanted
  <2>3. /\ Keep(Newest, wanted) \in Seq(DOMAIN tasks)
        /\ Len(Keep(Newest, wanted)) =< Len(Newest)
        /\ Range(Keep(Newest, wanted)) = Range(Newest) \cap wanted
        /\ IsInjective(Keep(Newest, wanted))
    BY <1>2, KeepFacts
  <2>. QED
    BY <1>2, <2>1, <2>2, <2>3
<1>. HIDE DEF found
<1>4. end \in Nat /\ end =< Len(found)
  <2>1. ListCap \in Nat /\ Len(found) \in Nat
    BY <1>3, ConsoleAssumption
  <2>. QED
    BY <2>1 DEF Min2
<1>. HIDE DEF end
<1>5. /\ ids \in Seq(DOMAIN tasks) /\ Len(ids) =< Len(found)
      /\ \A i \in DOMAIN ids :
           i + (offset + 1) - 1 \in DOMAIN found
             /\ ids[i] = found[i + (offset + 1) - 1]
  <2>1. offset + 1 \in Nat \ {0}
    OBVIOUS
  <2>. QED
    BY <1>3, <1>4, <2>1, PartFacts
<1>. HIDE DEF ids
<1>6. IsInjective(ids)
  <2>. SUFFICES ASSUME NEW i \in DOMAIN ids, NEW j \in DOMAIN ids,
                       ids[i] = ids[j]
                PROVE  i = j
    BY DEF IsInjective
  <2>1. i + (offset + 1) - 1 = j + (offset + 1) - 1
    BY <1>3, <1>5 DEF IsInjective
  <2>2. i \in Nat /\ j \in Nat
    BY <1>5
  <2>. QED
    BY <2>1, <2>2
<1>7. \A i \in DOMAIN ids : Matches(ids[i], q)
  BY <1>3, <1>5 DEF Range
<1>8. /\ Rows(ids) \in Seq(TaskRow) /\ Len(Rows(ids)) = Len(ids)
      /\ DOMAIN Rows(ids) = DOMAIN ids
      /\ \A i \in DOMAIN ids : /\ ids[i] \in DOMAIN tasks
                               /\ Rows(ids)[i] = Row(ids[i])
                               /\ Rows(ids)[i].id = ids[i]
                               /\ OfTable(Rows(ids)[i])
      /\ Distinct(Rows(ids))
  BY <1>5, <1>6, RowsFacts
<1>9. Len(page.rows) =< MaxTasks /\ page.total \in Nat
  <2>1. Len(ids) \in Nat /\ Len(found) \in Nat
    BY <1>3, <1>5
  <2>. HIDE DEF page
  <2>. QED
    BY <1>1, <1>2, <1>3, <1>5, <1>8, <2>1
<1>10. ASSUME NEW i \in DOMAIN page.rows
       PROVE  /\ OfTable(page.rows[i]) /\ Matches(page.rows[i].id, q)
              /\ page.rows[i].state = tasks[page.rows[i].id].state
  <2>. HIDE DEF page
  <2>1. i \in DOMAIN ids /\ page.rows[i] = Row(ids[i])
    BY <1>1, <1>8
  <2>. QED
    BY <1>1, <1>7, <1>8, <2>1 DEF Row
<1>. HIDE DEF page
<1>11. PageOf(page, q)
  BY <1>1, <1>8, <1>9, <1>10 DEF PageOf
<1>. QED
  BY <1>11 DEF page

\* The pairs of a graph answer are pairs of paths.
LEMMA EdgesFacts == Edges \in Seq(Edge)
<1>1. /\ DOMAIN Roles = 1..Len(Roles) /\ Len(Roles) \in Nat
      /\ \A i \in DOMAIN Roles : Roles[i] \in Range(Roles)
  BY ConsoleAssumption DEF Range
<1>. DEFINE exchanged == {<<tasks[t].from, tasks[t].to>> : t \in DOMAIN tasks}
            wanted == {p \in exchanged : p[1] # p[2]}
            from(i) == [j \in DOMAIN Roles |-> <<Roles[i], Roles[j]>>]
            q == [i \in DOMAIN Roles |-> from(i)]
<1>2. Edges = Keep(FlattenSeq(q), wanted)
  BY DEF Edges
<1>3. ASSUME NEW i \in DOMAIN Roles PROVE from(i) \in Seq(Edge)
  <2>1. \A j \in 1..Len(Roles) : <<Roles[i], Roles[j]>> \in Edge
    BY <1>1 DEF Edge
  <2>2. from(i) = [j \in 1..Len(Roles) |-> <<Roles[i], Roles[j]>>]
    BY <1>1
  <2>. QED
    BY <1>1, <2>1, <2>2
<1>4. q \in Seq(Seq(Edge))
  <2>. HIDE DEF from
  <2>. QED
    BY <1>1, <1>3
<1>. HIDE DEF q, wanted
<1>5. FlattenSeq(q) \in Seq(Edge)
  BY <1>4, FlattenFacts
<1>6. Keep(FlattenSeq(q), wanted) \in Seq(Edge)
  <2>. DEFINE s == FlattenSeq(q)
  <2>1. s \in Seq(Edge)
    BY <1>5
  <2>. HIDE DEF s
  <2>2. Keep(s, wanted) \in Seq(Edge)
    BY <2>1, KeepFacts
  <2>. QED
    BY <2>2 DEF s
<1>. QED
  BY <1>2, <1>6

\* The family of a task holds it and is closed under children.
LEMMA FamilyFacts ==
    ASSUME NEW root \in DOMAIN tasks
    PROVE  /\ Family(root) \subseteq DOMAIN tasks /\ root \in Family(root)
           /\ HoldsChildren(Family(root))
<1>1. Family(root) \subseteq DOMAIN tasks /\ root \in Family(root)
  BY DEF Family
<1>2. ASSUME NEW u \in DOMAIN tasks, tasks[u].parent \in Family(root),
             NEW S \in SUBSET DOMAIN tasks, root \in S, HoldsChildren(S)
      PROVE  u \in S
  <2>1. tasks[u].parent \in S
    BY <1>2 DEF Family
  <2>. QED
    BY <1>2, <2>1 DEF HoldsChildren
<1>. QED
  BY <1>1, <1>2 DEF Family, HoldsChildren

\* What a cancel reads is the family, each row as it is now.
FamilyRows(root) == Rows(Keep(Oldest, Family(root)))

LEMMA FamilyRowsFacts ==
    ASSUME Table, NEW root \in DOMAIN tasks
    PROVE  /\ FamilyRows(root) \in Seq(TaskRow)
           /\ {FamilyRows(root)[i].id : i \in DOMAIN FamilyRows(root)}
                = Family(root)
           /\ \A i \in DOMAIN FamilyRows(root) :
                LET row == FamilyRows(root)[i] IN
                /\ row.id \in DOMAIN tasks
                /\ row.state = tasks[row.id].state
<1>1. Len(tasks) \in Nat /\ DOMAIN tasks = 1..Len(tasks)
  BY DEF Table
<1>2. Oldest \in Seq(DOMAIN tasks) /\ Range(Oldest) = DOMAIN tasks
  <2>1. Oldest = [t \in 1..Len(tasks) |-> t]
    BY <1>1 DEF Oldest
  <2>2. Oldest \in Seq(DOMAIN tasks)
    BY <1>1, <2>1
  <2>3. Range(Oldest) = DOMAIN tasks
    BY <1>1, <2>1 DEF Range
  <2>. QED
    BY <2>2, <2>3
<1>. DEFINE F == Family(root)
            s == Oldest
            ids == Keep(s, F)
            rows == FamilyRows(root)
<1>3. F \subseteq DOMAIN tasks
  BY FamilyFacts
<1>4. ids \in Seq(DOMAIN tasks) /\ Range(ids) = F
  <2>1. s \in Seq(DOMAIN tasks) /\ Range(s) = DOMAIN tasks
    BY <1>2
  <2>. HIDE DEF s, F
  <2>2. Keep(s, F) \in Seq(DOMAIN tasks) /\ Range(Keep(s, F)) = Range(s) \cap F
    BY <2>1, KeepFacts
  <2>. QED
    BY <1>3, <2>1, <2>2
<1>5. rows = Rows(ids)
  BY DEF FamilyRows
<1>. HIDE DEF F, s, ids
<1>6. /\ Rows(ids) \in Seq(TaskRow) /\ DOMAIN Rows(ids) = DOMAIN ids
      /\ \A i \in DOMAIN ids : /\ ids[i] \in DOMAIN tasks
                               /\ Rows(ids)[i] = Row(ids[i])
                               /\ Rows(ids)[i].id = ids[i]
  BY <1>4, RowsFacts
<1>. HIDE DEF rows
<1>7. {rows[i].id : i \in DOMAIN rows} = F
  <2>1. {rows[i].id : i \in DOMAIN rows} = {ids[i] : i \in DOMAIN ids}
    BY <1>5, <1>6
  <2>. QED
    BY <1>4, <2>1 DEF Range
<1>8. ASSUME NEW i \in DOMAIN rows
      PROVE  /\ rows[i].id \in DOMAIN tasks
             /\ rows[i].state = tasks[rows[i].id].state
  BY <1>5, <1>6 DEF Row
<1>. QED
  BY <1>5, <1>6, <1>7, <1>8 DEF rows, F

-----------------------------------------------------------------------------
(***************************************************************************)
(* What the monitor computes from its state.                               *)
(***************************************************************************)

\* A panel lists tasks, no more than there are.
LEMMA PanelFacts ==
    ASSUME Table, Snapshot, NEW p \in {"graph", "history"}
    PROVE  Panel(p) \in Seq(DOMAIN tasks) /\ Len(Panel(p)) =< MaxTasks
<1>1. /\ DOMAIN tasks = 1..Len(tasks) /\ Len(tasks) \in Nat
      /\ Len(tasks) =< MaxTasks /\ MaxTasks \in Nat
  BY ConsoleAssumption DEF Table
<1>2. CASE p = "graph"
  <2>. DEFINE ids == GraphIds(snap)
  <2>1. /\ ids \in Seq(Nat) /\ IsInjective(ids)
        /\ \A x \in Range(ids) :
             \E i \in DOMAIN snap.active : snap.active[i].id = x
    <3>. DEFINE g == snap
    <3>1. /\ g.active \in Seq(TaskRow) /\ Distinct(g.active)
          /\ g.roles \in {<<>>, Roles} /\ g.alarms \in Nat
      BY DEF Snapshot, Distinct
    <3>. HIDE DEF g
    <3>2. /\ GraphIds(g) \in Seq(Nat) /\ IsInjective(GraphIds(g))
          /\ \A x \in Range(GraphIds(g)) :
               \E i \in DOMAIN g.active : g.active[i].id = x
      BY <3>1, GraphFacts
    <3>. QED
      BY <3>2 DEF g
  <2>2. Panel(p) = ids
    BY <1>2 DEF Panel
  <2>. HIDE DEF ids
  <2>3. ASSUME NEW i \in DOMAIN ids PROVE ids[i] \in 1..Len(tasks)
    <3>1. ids[i] \in Range(ids)
      BY DEF Range
    <3>2. PICK k \in DOMAIN snap.active : snap.active[k].id = ids[i]
      BY <2>1, <3>1
    <3>. QED
      BY <1>1, <3>2 DEF Snapshot, OfTable
  <2>4. ids \in Seq(1..Len(tasks))
    BY <2>1, <2>3
  <2>5. Len(ids) =< Len(tasks)
    BY <1>1, <2>1, <2>4, InjectiveBound
  <2>. QED
    BY <1>1, <2>2, <2>4, <2>5
<1>3. CASE p = "history"
  <2>. DEFINE rows == snap.history.rows
              ids == [i \in DOMAIN rows |-> rows[i].id]
  <2>1. Panel(p) = ids
    BY <1>3 DEF Panel, HistoryIds
  <2>2. /\ rows \in Seq(TaskRow) /\ Len(rows) =< MaxTasks
        /\ \A i \in DOMAIN rows : rows[i].id \in DOMAIN tasks
    BY DEF Snapshot, OfTable
  <2>. HIDE DEF rows
  <2>3. DOMAIN rows = 1..Len(rows) /\ Len(rows) \in Nat
    BY <2>2
  <2>4. ids \in Seq(DOMAIN tasks) /\ Len(ids) = Len(rows)
    BY <2>2, <2>3
  <2>. QED
    BY <2>1, <2>2, <2>4
<1>. QED
  BY <1>2, <1>3

\* What is selected is a task or nothing.
LEMMA SelectedFacts ==
    ASSUME Table, Snapshot, Cursors
    PROVE  Selected \in (DOMAIN tasks) \cup {None}
<1>1. /\ Panel(focus) \in Seq(DOMAIN tasks)
      /\ cursor[focus] \in Nat
  BY PanelFacts DEF Cursors
<1>. DEFINE ids == Panel(focus)
            c == cursor[focus]
<1>2. Selected = IF c < Len(ids) THEN ids[c + 1] ELSE None
  BY DEF Selected
<1>3. ids \in Seq(DOMAIN tasks) /\ c \in Nat
  BY <1>1
<1>. HIDE DEF ids, c
<1>. QED
  BY <1>2, <1>3

\* A cursor stays a row of a list, or the first row of an empty one.
LEMMA ClampFacts ==
    ASSUME NEW c \in 0..(Max2(MaxTasks, 1) - 1), NEW len \in 0..MaxTasks
    PROVE  /\ Clamp(c, len) \in 0..(Max2(MaxTasks, 1) - 1)
           /\ len # 0 => Clamp(c, len) < len
BY ConsoleAssumption DEF Clamp, Max2, Min2

LEMMA MovedFacts ==
    ASSUME NEW c \in 0..(Max2(MaxTasks, 1) - 1), NEW len \in 0..MaxTasks,
           NEW delta \in {0, 2}
    PROVE  Moved(c, len, delta) \in 0..(Max2(MaxTasks, 1) - 1)
BY ConsoleAssumption DEF Moved, Max2, Min2

\* The keys that turn a cycle stay in it.
LEMMA CycleFacts ==
    /\ \A x \in Range(States) : NextIn(States, x) \in Range(States)
    /\ \A x \in Range(Windows) : NextIn(Windows, x) \in Range(Windows)
<1>1. ASSUME NEW T, NEW s \in Seq(T), NEW x \in Range(s)
      PROVE  NextIn(s, x) \in Range(s)
  <2>. DEFINE k == CHOOSE i \in DOMAIN s : s[i] = x
  <2>1. \E i \in DOMAIN s : s[i] = x
    BY DEF Range
  <2>2. k \in DOMAIN s
    BY <2>1
  <2>3. k \in Nat /\ Len(s) \in Nat \ {0} /\ DOMAIN s = 1..Len(s)
    BY <2>2
  <2>. HIDE DEF k
  <2>4. (k % Len(s)) + 1 \in DOMAIN s
    <3>. DEFINE n == Len(s)
    <3>1. n \in Nat \ {0} /\ k \in Nat
      BY <2>3
    <3>. HIDE DEF n
    <3>2. k % n \in 0..(n - 1)
      BY <3>1
    <3>3. (k % n) + 1 \in 1..n
      BY <3>1, <3>2
    <3>. QED
      BY <2>3, <3>3 DEF n
  <2>5. NextIn(s, x) = s[(k % Len(s)) + 1]
    BY DEF NextIn, k
  <2>. QED
    BY <2>4, <2>5 DEF Range
<1>2. States \in Seq(TaskState \cup {"active", "all"})
  BY DEF States, TaskState, ActiveState
<1>3. Windows \in Seq({"any", "hour", "day", "week"})
  BY DEF Windows
<1>. QED
  BY <1>1, <1>2, <1>3

LEMMA OptionFacts ==
    ASSUME NEW T, NEW choices \in Seq(T), NEW x, NEW none
    PROVE  NextOption(choices, x, none) \in T \cup {none}
<1>1. CASE x = none
  BY <1>1 DEF NextOption
<1>2. CASE x # none
  <2>. DEFINE places == {i \in DOMAIN choices : choices[i] = x}
              k == CHOOSE i \in places : TRUE
  <2>1. NextOption(choices, x, none) =
          IF places = {} \/ Len(choices) \in places
          THEN none ELSE choices[k + 1]
    BY <1>2 DEF NextOption
  <2>2. CASE places = {} \/ Len(choices) \in places
    BY <2>1, <2>2
  <2>3. CASE ~(places = {} \/ Len(choices) \in places)
    <3>1. k \in places
      BY <2>3
    <3>2. k \in DOMAIN choices /\ k # Len(choices)
      BY <2>3, <3>1
    <3>. HIDE DEF k, places
    <3>3. k + 1 \in 1..Len(choices)
      BY <3>2
    <3>. QED
      BY <2>1, <2>3, <3>3
  <2>. QED
    BY <2>2, <2>3
<1>. QED
  BY <1>1, <1>2

\* A row that answers the request of the history page fits the title.
LEMMA MatchFits ==
    ASSUME Table, filter \in Filter, NEW row, row.id \in DOMAIN tasks,
           row.state = tasks[row.id].state,
           Matches(row.id, HistoryRequest(filter))
    PROVE  Fits(row)
<1>. DEFINE q == HistoryRequest(filter)
            t == row.id
<1>1. /\ q.state = filter.state /\ q.text = filter.text
      /\ q.window = filter.window /\ q.retry = filter.retry
      /\ q.to = IF filter.edge = AnyEdge THEN filter.role ELSE filter.edge[2]
      /\ q.from = IF filter.edge = AnyEdge THEN AnyRole ELSE filter.edge[1]
  BY DEF HistoryRequest
<1>2. /\ InState(t, q.state) /\ InWindow(t, q.window)
      /\ q.to # AnyRole => tasks[t].to = q.to
      /\ q.from # AnyRole => tasks[t].from = q.from
      /\ q.text = "word" => t \in Hits
      /\ q.retry => tasks[t].retry
  BY DEF Matches
<1>3. AnyRole \notin Range(Roles)
  BY ConsoleAssumption DEF AnyRole
<1>4. ASSUME filter.edge # AnyEdge
      PROVE  filter.edge = <<tasks[t].from, tasks[t].to>>
  <2>1. filter.edge \in Range(Roles) \X Range(Roles)
    BY <1>4 DEF Filter, Edge
  <2>2. filter.edge = <<filter.edge[1], filter.edge[2]>>
        /\ filter.edge[1] # AnyRole /\ filter.edge[2] # AnyRole
    BY <1>3, <2>1
  <2>. QED
    BY <1>1, <1>2, <1>4, <2>2
<1>5. /\ filter.state = "active" => row.state \in ActiveState
      /\ filter.state \notin {"active", "all"} => row.state = filter.state
  <2>1. tasks[row.id] \in Task
    BY DEF Table
  <2>2. row.state \in TaskState
    BY <2>1 DEF Task
  <2>. QED
    BY <1>1, <1>2, <2>2 DEF InState, TaskState, ActiveState
<1>6. filter.edge = AnyEdge /\ filter.role # AnyRole
        => tasks[row.id].to = filter.role
  BY <1>1, <1>2
<1>7. filter.window \in {"hour", "day"} => row.id \notin Old
  BY <1>1, <1>2 DEF InWindow
<1>. QED
  BY <1>1, <1>2, <1>4, <1>5, <1>6, <1>7 DEF Fits

-----------------------------------------------------------------------------
(***************************************************************************)
(* What a step of the scheduler leaves of the table: every task keeps its  *)
(* place, its paths and its parent, and a settled one stays settled.       *)
(***************************************************************************)
Grown ==
    /\ tasks' \in Seq(Task) /\ Len(tasks') =< MaxTasks
    /\ Len(tasks) =< Len(tasks')
    /\ \A t \in DOMAIN tasks :
         /\ tasks'[t].from = tasks[t].from /\ tasks'[t].to = tasks[t].to
         /\ tasks'[t].parent = tasks[t].parent
         /\ tasks'[t].retry = tasks[t].retry
         /\ tasks[t].state \in Over => tasks'[t].state \in Over

LEMMA SameIsGrown == Table /\ UNCHANGED tasks => Grown
BY DEF Table, Grown

LEMMA GrownDomain ==
    ASSUME Table, Grown
    PROVE  /\ Len(tasks) \in Nat /\ Len(tasks') \in Nat
           /\ DOMAIN tasks = 1..Len(tasks) /\ DOMAIN tasks' = 1..Len(tasks')
           /\ \A t \in DOMAIN tasks : t \in DOMAIN tasks'
BY DEF Table, Grown

\* A new row at the end of the table.
LEMMA InsertGrows ==
    ASSUME Table, NEW row \in Task, Insert(row)
    PROVE  Grown
<1>1. /\ tasks' = Append(tasks, row) /\ Len(tasks) < MaxTasks
      /\ tasks \in Seq(Task) /\ MaxTasks \in Nat
  BY ConsoleAssumption DEF Insert, Table
<1>2. /\ tasks' \in Seq(Task) /\ Len(tasks') = Len(tasks) + 1
      /\ \A t \in DOMAIN tasks : tasks'[t] = tasks[t]
  BY <1>1
<1>3. Len(tasks) \in Nat
  BY <1>1
<1>. QED
  BY <1>1, <1>2, <1>3 DEF Grown

\* Another state of a task.
LEMMA SettleGrows ==
    ASSUME Table, NEW k \in DOMAIN tasks, NEW s \in TaskState,
           tasks[k].state \in Over => s \in Over,
           tasks' = [tasks EXCEPT ![k].state = s]
    PROVE  Grown
<1>1. tasks \in Seq(Task) /\ Len(tasks) =< MaxTasks
  BY DEF Table
<1>2. tasks[k] \in Task
  BY <1>1
<1>3. [tasks[k] EXCEPT !.state = s] \in Task
  BY <1>2 DEF Task
<1>4. /\ tasks' \in Seq(Task) /\ Len(tasks') = Len(tasks)
      /\ DOMAIN tasks' = DOMAIN tasks
  BY <1>1, <1>3
<1>5. ASSUME NEW t \in DOMAIN tasks
      PROVE  /\ tasks'[t].from = tasks[t].from /\ tasks'[t].to = tasks[t].to
             /\ tasks'[t].parent = tasks[t].parent
             /\ tasks'[t].retry = tasks[t].retry
             /\ tasks[t].state \in Over => tasks'[t].state \in Over
  <2>1. CASE t # k
    BY <2>1
  <2>2. CASE t = k
    <3>1. tasks'[t] = [tasks[k] EXCEPT !.state = s]
      BY <2>2
    <3>. QED
      BY <1>2, <2>2, <3>1 DEF Task
  <2>. QED
    BY <2>1, <2>2
<1>. QED
  BY <1>1, <1>4, <1>5 DEF Grown

\* A row of the table stays one, and fits the filter as before.
LEMMA RowKept ==
    ASSUME Table, Grown, UNCHANGED filter, NEW row, OfTable(row)
    PROVE  OfTable(row)' /\ (Fits(row) => Fits(row)')
<1>1. row.id \in DOMAIN tasks /\ row.id \in DOMAIN tasks'
  BY GrownDomain DEF OfTable
<1>2. OfTable(row)'
  BY <1>1 DEF OfTable, Grown
<1>3. ASSUME Fits(row) PROVE Fits(row)'
  BY <1>1, <1>3 DEF Fits, Grown
<1>. QED
  BY <1>2, <1>3

\* What a cancel has read and done stays true of the table.
LEMMA JobKept ==
    ASSUME Table, Grown, NEW job, JobOK(job)
    PROVE  JobOK(job)'
<1>1. /\ job \in Job /\ job.root \in DOMAIN tasks'
  BY GrownDomain DEF JobOK
<1>2. ASSUME job.phase # "new" PROVE JobRead(job)'
  <2>1. JobRead(job)
    BY <1>2 DEF JobOK
  <2>2. job.upto =< Len(tasks')
    <3>1. job.upto \in Nat /\ job.upto =< Len(tasks)
      BY <1>1, <2>1 DEF Job, JobRead
    <3>. QED
      BY <3>1, GrownDomain DEF Grown
  <2>3. ASSUME NEW t \in 1..job.upto, tasks'[t].parent \in Reached(job)
        PROVE  t \in Reached(job)
    <3>1. job.upto \in Nat /\ job.upto =< Len(tasks)
      BY <1>1, <2>1 DEF Job, JobRead
    <3>2. t \in DOMAIN tasks
      BY <3>1, GrownDomain
    <3>3. tasks[t].parent \in Reached(job)
      BY <2>3, <3>2 DEF Grown
    <3>. QED
      BY <2>1, <3>3 DEF JobRead
  <2>4. ASSUME NEW i \in DOMAIN job.family
        PROVE  /\ job.family[i].id \in DOMAIN tasks'
               /\ \/ job.family[i] \in Range(job.todo)
                  \/ tasks'[job.family[i].id].state \in Over
               /\ job.family[i].state \in Over
                    => tasks'[job.family[i].id].state \in Over
    <3>. DEFINE row == job.family[i]
    <3>1. /\ row.id \in DOMAIN tasks
          /\ row \in Range(job.todo) \/ tasks[row.id].state \in Over
          /\ row.state \in Over => tasks[row.id].state \in Over
      BY <2>1 DEF JobRead
    <3>. HIDE DEF row
    <3>2. /\ row.id \in DOMAIN tasks'
          /\ tasks[row.id].state \in Over => tasks'[row.id].state \in Over
      BY <3>1, GrownDomain DEF Grown
    <3>3. /\ row.id \in DOMAIN tasks'
          /\ row \in Range(job.todo) \/ tasks'[row.id].state \in Over
          /\ row.state \in Over => tasks'[row.id].state \in Over
      BY <3>1, <3>2
    <3>. QED
      BY <3>3 DEF row
  <2>. QED
    BY <2>1, <2>2, <2>3, <2>4 DEF JobRead, Reached
<1>. QED
  BY <1>1, <1>2 DEF JobOK

LEMMA JobsKept ==
    ASSUME Table, Grown, Jobs, UNCHANGED jobs
    PROVE  Jobs'
<1>1. ASSUME NEW j \in DOMAIN jobs PROVE JobOK(jobs[j])' /\ jobs'[j] = jobs[j]
  <2>1. PICK job : job = jobs[j]
    OBVIOUS
  <2>2. JobOK(job)
    BY <2>1 DEF Jobs
  <2>3. JobOK(job)'
    BY <2>2, JobKept
  <2>4. job = jobs'[j]
    BY <2>1
  <2>. QED
    BY <2>3, <2>4
<1>. QED
  BY <1>1 DEF Jobs

\* A snapshot stays one of the table, and what fits the filter in it does.
LEMMA SnapshotKept ==
    ASSUME Table, Grown, Snapshot, UNCHANGED snap
    PROVE  Snapshot'
<1>1. ASSUME NEW row, OfTable(row) PROVE OfTable(row)'
  <2>1. row.id \in DOMAIN tasks /\ row.id \in DOMAIN tasks'
    BY <1>1, GrownDomain DEF OfTable
  <2>. QED
    BY <1>1, <2>1 DEF OfTable, Grown
<1>2. ASSUME NEW s, \A i \in DOMAIN s : OfTable(s[i])
      PROVE  \A i \in DOMAIN s : OfTable(s[i])'
  <2>. TAKE i \in DOMAIN s
  <2>1. PICK row : row = s[i]
    OBVIOUS
  <2>2. OfTable(row)'
    BY <1>1, <1>2, <2>1
  <2>. QED
    BY <2>1, <2>2
<1>3. PICK s : s = snap
  OBVIOUS
<1>4. \A i \in DOMAIN s.active : OfTable(s.active[i])'
  BY <1>2, <1>3 DEF Snapshot
<1>5. \A i \in DOMAIN s.history.rows : OfTable(s.history.rows[i])'
  BY <1>2, <1>3 DEF Snapshot
<1>6. s = snap'
  BY <1>3
<1>. QED
  BY <1>3, <1>4, <1>5, <1>6 DEF Snapshot

LEMMA ScreenKept ==
    ASSUME Table, Grown, Snapshot, Screen, UNCHANGED <<snap, filter>>,
           pc' # "pull" => pc # "pull"
    PROVE  Screen'
<1>. SUFFICES ASSUME pc' # "pull", NEW i \in DOMAIN snap'.history.rows
              PROVE  Fits(snap.history.rows[i])'
  BY DEF Screen
<1>1. PICK row : row = snap.history.rows[i]
  OBVIOUS
<1>2. Fits(row) /\ OfTable(row)
  BY <1>1 DEF Screen, Snapshot
<1>3. Fits(row)'
  BY <1>2, RowKept
<1>4. row = snap'.history.rows[i]
  BY <1>1
<1>. QED
  BY <1>3, <1>4

\* The selection is a matter of the snapshot, the focus and the cursors.
LEMMA SelectedKept ==
    ASSUME UNCHANGED <<snap, focus, cursor>>
    PROVE  Selected' = Selected
<1>1. Panel(focus)' = Panel(focus)
  BY DEF Panel
<1>. QED
  BY <1>1 DEF Selected

\* A step of the scheduler leaves the monitor as it is.
MonitorInv ==
    /\ Cursors /\ filter \in Filter /\ Snapshot /\ Screen
    /\ Quiet => chosen = Selected

LEMMA MonitorKept ==
    ASSUME ConsoleInv, Grown, UNCHANGED <<pc, view, snap, detailVars>>
    PROVE  Table' /\ MonitorInv'
<1>. USE DEF ConsoleInv, view, detailVars
<1>1. Table'
  BY DEF Grown, Table
<1>2. Cursors'
  <2>1. 0..Len(tasks) \subseteq 0..Len(tasks')
    BY GrownDomain DEF Grown
  <2>. QED
    BY <2>1 DEF Cursors
<1>3. Snapshot' /\ Screen'
  BY SnapshotKept, ScreenKept
<1>4. (Quiet => chosen = Selected)'
  BY SelectedKept DEF Quiet, Followed
<1>. QED
  BY <1>1, <1>2, <1>3, <1>4 DEF MonitorInv

LEMMA SubmitKeeps ==
    ASSUME ConsoleInv, Submit
    PROVE  Grown /\ UNCHANGED <<alarms, enabled, jobs>>
<1>1. PICK a \in Arrivals :
        Insert([from |-> a.from, to |-> a.to, parent |-> None,
                retry |-> a.retry, state |-> "pending"])
  BY DEF Submit
<1>. DEFINE row == [from |-> a.from, to |-> a.to, parent |-> None,
                    retry |-> a.retry, state |-> "pending"]
<1>2. row \in Task
  BY ConsoleAssumption DEF Task, None, TaskState, ActiveState
<1>3. Insert(row) /\ Table
  BY <1>1 DEF ConsoleInv
<1>. HIDE DEF row
<1>. QED
  BY <1>2, <1>3, InsertGrows DEF Insert

LEMMA SpawnKeeps ==
    ASSUME ConsoleInv, Spawn
    PROVE  Grown /\ UNCHANGED <<alarms, enabled, jobs>>
<1>1. PICK p \in DOMAIN tasks, to \in Targets :
        Insert([from |-> tasks[p].to, to |-> to, parent |-> p,
                retry |-> FALSE, state |-> "pending"])
  BY DEF Spawn
<1>. DEFINE row == [from |-> tasks[p].to, to |-> to, parent |-> p,
                    retry |-> FALSE, state |-> "pending"]
<1>2. PICK r : r = row
  OBVIOUS
<1>3. r \in Task
  <2>1. tasks[p] \in Task /\ p \in 1..Len(tasks)
        /\ Len(tasks) \in Nat /\ Len(tasks) =< MaxTasks
    BY DEF ConsoleInv, Table
  <2>2. p \in 0..MaxTasks
    BY <2>1, ConsoleAssumption
  <2>. QED
    BY <1>2, <2>1, <2>2, ConsoleAssumption DEF Task, TaskState, ActiveState
<1>4. Insert(r) /\ Table
  BY <1>1, <1>2 DEF ConsoleInv
<1>. HIDE DEF row
<1>. QED
  BY <1>3, <1>4, InsertGrows DEF Insert

LEMMA ProgressKeeps ==
    ASSUME ConsoleInv, Progress
    PROVE  Grown /\ UNCHANGED <<alarms, enabled, jobs>>
<1>1. PICK t \in DOMAIN tasks :
        /\ tasks[t].state \in {"pending", "running"}
        /\ \E s \in {"running"} \cup Outcomes :
             tasks' = [tasks EXCEPT ![t].state = s]
  BY DEF Progress
<1>2. PICK s \in {"running"} \cup Outcomes :
        tasks' = [tasks EXCEPT ![t].state = s]
  BY <1>1
<1>3. s \in TaskState
  BY ConsoleAssumption DEF TaskState, ActiveState
<1>4. tasks[t].state \notin Over /\ Table
  BY <1>1 DEF Over, ConsoleInv
<1>5. Grown
  BY <1>2, <1>3, <1>4, SettleGrows
<1>. QED
  BY <1>5 DEF Progress

\* A list is its head and its tail.
LEMMA TailFacts ==
    ASSUME NEW T, NEW s \in Seq(T), s # <<>>
    PROVE  /\ Head(s) \in T /\ Tail(s) \in Seq(T)
           /\ Range(s) = {Head(s)} \cup Range(Tail(s))
<1>1. /\ DOMAIN s = 1..Len(s) /\ Len(s) \in Nat \ {0} /\ Head(s) = s[1]
      /\ Tail(s) \in Seq(T) /\ DOMAIN Tail(s) = 1..(Len(s) - 1)
      /\ \A i \in 1..(Len(s) - 1) : Tail(s)[i] = s[i + 1]
      /\ Head(s) \in T
  OBVIOUS
<1>. DEFINE t == Tail(s)
<1>2. ASSUME NEW i \in DOMAIN s PROVE s[i] \in {Head(s)} \cup Range(t)
  <2>1. CASE i = 1
    BY <1>1, <2>1
  <2>2. CASE i # 1
    <3>1. i - 1 \in DOMAIN t /\ t[i - 1] = s[i]
      BY <1>1, <2>2
    <3>. QED
      BY <3>1 DEF Range
  <2>. QED
    BY <2>1, <2>2
<1>3. Head(s) \in Range(s)
  BY <1>1 DEF Range
<1>4. ASSUME NEW i \in DOMAIN t PROVE t[i] \in Range(s)
  BY <1>1 DEF Range
<1>. QED
  BY <1>1, <1>2, <1>3, <1>4 DEF Range

\* One job moves on and the others keep what they have.
LEMMA JobStep ==
    ASSUME Table, Grown, Jobs, NEW j \in DOMAIN jobs, NEW new, JobOK(new)',
           jobs' = [jobs EXCEPT ![j] = new]
    PROVE  Jobs'
<1>1. new \in Job
  BY DEF JobOK
<1>2. jobs' \in Seq(Job) /\ DOMAIN jobs' = DOMAIN jobs
  BY <1>1 DEF Jobs
<1>3. ASSUME NEW k \in DOMAIN jobs PROVE JobOK(jobs[k])'
  <2>1. CASE k = j
    <3>1. jobs'[k] = new
      BY <2>1
    <3>. QED
      BY <3>1
  <2>2. CASE k # j
    <3>1. PICK job : job = jobs[k]
      OBVIOUS
    <3>2. JobOK(job)'
      BY <3>1, JobKept DEF Jobs
    <3>3. jobs'[k] = job
      BY <2>2, <3>1
    <3>. QED
      BY <3>2, <3>3
  <2>. QED
    BY <2>1, <2>2
<1>. QED
  BY <1>2, <1>3 DEF Jobs

LEMMA ReadFamilyKeeps ==
    ASSUME ConsoleInv, NEW j \in DOMAIN jobs, ReadFamily(j)
    PROVE  Grown /\ Jobs' /\ UNCHANGED <<alarms, enabled>>
<1>. USE DEF ConsoleInv
<1>1. Grown
  BY SameIsGrown DEF ReadFamily
<1>2. PICK root, rows, n :
        root = jobs[j].root /\ rows = FamilyRows(root) /\ n = Len(tasks)
  OBVIOUS
<1>3. /\ jobs[j] \in Job /\ root \in DOMAIN tasks /\ jobs[j].phase = "new"
  BY <1>2 DEF Jobs, JobOK, ReadFamily
<1>4. /\ FamilyRows(root) \in Seq(TaskRow)
      /\ {FamilyRows(root)[i].id : i \in DOMAIN FamilyRows(root)}
           = Family(root)
      /\ \A i \in DOMAIN FamilyRows(root) :
           /\ FamilyRows(root)[i].id \in DOMAIN tasks
           /\ FamilyRows(root)[i].state = tasks[FamilyRows(root)[i].id].state
  BY <1>3, FamilyRowsFacts
<1>5. /\ rows \in Seq(TaskRow)
      /\ {rows[i].id : i \in DOMAIN rows} = Family(root)
      /\ \A i \in DOMAIN rows : /\ rows[i].id \in DOMAIN tasks
                                /\ rows[i].state = tasks[rows[i].id].state
  BY <1>2, <1>4
<1>6. root \in Family(root) /\ HoldsChildren(Family(root))
  BY <1>3, FamilyFacts
<1>7. PICK new :
        new = [jobs[j] EXCEPT !.phase = "run", !.upto = n,
                              !.family = rows, !.todo = rows]
  OBVIOUS
<1>8. jobs' = [jobs EXCEPT ![j] = new]
  <2>1. jobs' = [jobs EXCEPT ![j].phase = "run", ![j].upto = n,
                             ![j].family = rows, ![j].todo = rows]
    BY <1>2 DEF ReadFamily, FamilyRows
  <2>. QED
    BY <1>7, <2>1
<1>9. JobOK(new)'
  <2>1. /\ new \in Job /\ new.root = root /\ new.phase = "run"
        /\ new.upto = n /\ new.family = rows /\ new.todo = rows
    <3>1. n \in Nat
      BY <1>2 DEF Table
    <3>2. PICK old \in Job : old = jobs[j] /\ old.root = root
      BY <1>2, <1>3
    <3>3. new = [old EXCEPT !.phase = "run", !.upto = n,
                            !.family = rows, !.todo = rows]
      BY <1>7, <3>2
    <3>. QED
      BY <1>5, <3>1, <3>2, <3>3 DEF Job
  <2>2. Reached(new) = Family(root)
    BY <1>5, <2>1 DEF Reached
  <2>3. tasks' = tasks
    BY DEF ReadFamily
  <2>4. /\ new.upto =< Len(tasks)
        /\ new.root \in Reached(new)
        /\ \A t \in 1..new.upto :
             tasks[t].parent \in Reached(new) => t \in Reached(new)
    BY <1>1, <1>2, <1>6, <2>1, <2>2, GrownDomain DEF HoldsChildren
  <2>5. ASSUME NEW i \in DOMAIN new.family
        PROVE  /\ new.family[i].id \in DOMAIN tasks
               /\ new.family[i] \in Range(new.todo)
               /\ new.family[i].state \in Over
                    => tasks[new.family[i].id].state \in Over
    BY <1>5, <2>1 DEF Range
  <2>6. JobRead(new)
    BY <2>1, <2>4, <2>5 DEF JobRead
  <2>7. JobOK(new)
    BY <1>3, <2>1, <2>6 DEF JobOK
  <2>. QED
    BY <1>1, <2>7, JobKept
<1>10. Jobs'
  BY <1>1, <1>8, <1>9, JobStep
<1>. QED
  BY <1>1, <1>10 DEF ReadFamily

\* A row that is passed is settled: either the cancel settles it now, or it
\* was over when the cancel read it.
LEMMA CancelRowKeeps ==
    ASSUME ConsoleInv, NEW j \in DOMAIN jobs, CancelRow(j)
    PROVE  Grown /\ Jobs' /\ UNCHANGED <<alarms, enabled>>
<1>. USE DEF ConsoleInv
<1>1. PICK old, row, rest, new :
        /\ old = jobs[j] /\ row = Head(old.todo) /\ rest = Tail(old.todo)
        /\ new = [old EXCEPT !.todo = rest]
  OBVIOUS
<1>2. /\ old \in Job /\ JobRead(old) /\ old.root \in DOMAIN tasks
      /\ old.phase = "run" /\ old.todo # <<>> /\ old.todo \in Seq(TaskRow)
  <2>1. JobOK(old) /\ old.phase = "run" /\ old.todo # <<>>
    BY <1>1 DEF Jobs, CancelRow
  <2>. QED
    BY <2>1 DEF JobOK, Job
<1>3. /\ row \in TaskRow /\ rest \in Seq(TaskRow)
      /\ Range(old.todo) = {row} \cup Range(rest)
  BY <1>1, <1>2, TailFacts
<1>4. PICK k \in DOMAIN old.family : old.family[k] = row
  <2>1. row \in Range(old.family)
    BY <1>2, <1>3 DEF JobRead
  <2>. QED
    BY <2>1 DEF Range
<1>5. /\ row.id \in DOMAIN tasks
      /\ row.state \in Over => tasks[row.id].state \in Over
  BY <1>2, <1>4 DEF JobRead
<1>6. Grown /\ tasks'[row.id].state \in Over
  <2>1. CASE row.state \in Over
    <3>1. tasks' = tasks
      BY <1>1, <2>1 DEF CancelRow, Over
    <3>. QED
      BY <1>5, <2>1, <3>1, SameIsGrown
  <2>2. CASE row.state \notin Over
    <3>1. tasks' = [tasks EXCEPT ![row.id].state = "cancelled"]
      BY <1>1, <2>2 DEF CancelRow, Over
    <3>2. PICK t \in DOMAIN tasks : t = row.id
      BY <1>5
    <3>3. tasks' = [tasks EXCEPT ![t].state = "cancelled"]
      BY <3>1, <3>2
    <3>4. Grown
      BY <3>3, SettleGrows DEF Over, TaskState
    <3>5. tasks[t] \in Task
      BY DEF Table
    <3>6. tasks'[t].state = "cancelled"
      BY <3>3, <3>5 DEF Task
    <3>. QED
      BY <3>2, <3>4, <3>6 DEF Over
  <2>. QED
    BY <2>1, <2>2
<1>7. JobOK(old)'
  <2>1. JobOK(old)
    BY <1>1 DEF Jobs
  <2>. QED
    BY <1>6, <2>1, JobKept
<1>8. jobs' = [jobs EXCEPT ![j] = new]
  BY <1>1 DEF CancelRow
<1>9. /\ new \in Job /\ new.root = old.root /\ new.phase = "run"
      /\ new.upto = old.upto /\ new.family = old.family /\ new.todo = rest
  BY <1>1, <1>2, <1>3 DEF Job
<1>10. JobOK(new)'
  <2>1. JobRead(old)'
    BY <1>2, <1>7 DEF JobOK
  <2>2. Reached(new) = Reached(old)
    BY <1>9 DEF Reached
  <2>3. ASSUME NEW i \in DOMAIN new.family
        PROVE  new.family[i] \in Range(new.todo)
                 \/ tasks'[new.family[i].id].state \in Over
    <3>1. CASE old.family[i] = row
      BY <1>6, <1>9, <3>1
    <3>2. CASE old.family[i] \in Range(rest)
      BY <1>9, <3>2
    <3>3. CASE tasks'[old.family[i].id].state \in Over
      BY <1>9, <3>3
    <3>. QED
      BY <1>3, <1>9, <2>1, <3>1, <3>2, <3>3 DEF JobRead
  <2>4. JobRead(new)'
    BY <1>3, <1>9, <2>1, <2>2, <2>3 DEF JobRead
  <2>. QED
    BY <1>7, <1>9, <2>4 DEF JobOK
<1>11. Jobs'
  BY <1>6, <1>8, <1>10, JobStep
<1>. QED
  BY <1>6, <1>11 DEF CancelRow

LEMMA FinishCancelKeeps ==
    ASSUME ConsoleInv, NEW j \in DOMAIN jobs, FinishCancel(j)
    PROVE  Grown /\ Jobs' /\ UNCHANGED <<alarms, enabled>>
<1>. USE DEF ConsoleInv
<1>1. PICK old, new :
        old = jobs[j] /\ new = [old EXCEPT !.phase = "done"]
  OBVIOUS
<1>2. /\ JobOK(old) /\ old \in Job /\ JobRead(old)
      /\ old.root \in DOMAIN tasks /\ old.todo = <<>>
  <2>1. JobOK(old) /\ old.phase = "run" /\ old.todo = <<>>
    BY <1>1 DEF Jobs, FinishCancel
  <2>. QED
    BY <2>1 DEF JobOK
<1>3. Grown
  BY SameIsGrown DEF FinishCancel
<1>4. /\ new \in Job /\ new.root = old.root /\ new.phase = "done"
      /\ new.upto = old.upto /\ new.family = old.family
      /\ new.todo = old.todo
  BY <1>1, <1>2 DEF Job
<1>5. JobOK(new)
  <2>1. JobRead(new)
    <3>1. Reached(new) = Reached(old)
      BY <1>4 DEF Reached
    <3>. QED
      BY <1>2, <1>4, <3>1 DEF JobRead
  <2>. QED
    BY <1>2, <1>4, <2>1 DEF JobOK
<1>6. JobOK(new)'
  BY <1>3, <1>5, JobKept
<1>7. jobs' = [jobs EXCEPT ![j] = new]
  BY <1>1 DEF FinishCancel
<1>8. Jobs'
  BY <1>3, <1>6, <1>7, JobStep
<1>. QED
  BY <1>3, <1>8 DEF FinishCancel

\* A step of the scheduler keeps the invariant.
LEMMA SchedulerKeeps ==
    ASSUME ConsoleInv, Scheduler
    PROVE  ConsoleInv'
<1>1. UNCHANGED <<pc, view, snap, detailVars>>
  BY DEF Scheduler
<1>2. /\ Grown /\ Jobs'
      /\ \/ UNCHANGED <<alarms, enabled, counters>>
         \/ Alarm
  <2>1. CASE Alarm
    <3>1. Grown
      BY <2>1, SameIsGrown DEF Alarm, ConsoleInv
    <3>2. Jobs'
      BY <2>1, <3>1, JobsKept DEF Alarm, ConsoleInv
    <3>. QED
      BY <2>1, <3>1, <3>2
  <2>2. CASE (Submit \/ Spawn \/ Progress) /\ UNCHANGED counters
    <3>1. Grown /\ UNCHANGED <<alarms, enabled, jobs>>
      BY <2>2, SubmitKeeps, SpawnKeeps, ProgressKeeps
    <3>2. Jobs'
      BY <3>1, JobsKept DEF ConsoleInv
    <3>. QED
      BY <2>2, <3>1, <3>2
  <2>3. ASSUME NEW j \in DOMAIN jobs, CancelStep(j), UNCHANGED counters
        PROVE  Grown /\ Jobs' /\ UNCHANGED <<alarms, enabled, counters>>
    BY <2>3, ReadFamilyKeeps, CancelRowKeeps, FinishCancelKeeps DEF CancelStep
  <2>. QED
    BY <2>1, <2>2, <2>3 DEF Scheduler
<1>3. Table' /\ MonitorInv'
  BY <1>1, <1>2, MonitorKept
<1>4. Counts'
  <2>1. CASE UNCHANGED <<alarms, enabled, counters>>
    BY <2>1 DEF ConsoleInv, Counts, counters
  <2>2. CASE Alarm
    BY <2>2, ConsoleAssumption DEF ConsoleInv, Counts, Alarm
  <2>. QED
    BY <1>2, <2>1, <2>2
<1>5. (~failed => detail = chosen)'
  BY <1>1, <1>2 DEF ConsoleInv, Followed, Alarm, counters, detailVars
<1>. QED
  BY <1>2, <1>3, <1>4, <1>5 DEF ConsoleInv, MonitorInv, Followed

LEMMA ConsoleInvInit == Init => ConsoleInv
<1>. SUFFICES ASSUME Init PROVE ConsoleInv
  OBVIOUS
<1>1. Table
  BY ConsoleAssumption DEF Init, Table
<1>2. Counts /\ Cursors
  <2>1. MaxTasks \in Nat /\ MaxEvents \in Nat
    BY ConsoleAssumption
  <2>2. Counts
    <3>1. enabled \in BOOLEAN /\ failed \in BOOLEAN
      BY DEF Init
    <3>2. alarms = 0 /\ events = 0
      BY DEF Init
    <3>. QED
      BY <2>1, <3>1, <3>2 DEF Counts
  <2>3. 0 \in 0..(Max2(MaxTasks, 1) - 1)
    BY <2>1 DEF Max2
  <2>4. Len(<<>>) = 0 /\ 0 \in 0..0
    OBVIOUS
  <2>5. Cursors
    BY <2>3, <2>4 DEF Init, Cursors, None
  <2>. QED
    BY <2>2, <2>5
<1>3. filter \in Filter
  <2>1. "active" \in Range(States) /\ "any" \in Range(Windows)
    <3>1. States[1] = "active" /\ 1 \in DOMAIN States
      BY DEF States
    <3>2. Windows[1] = "any" /\ 1 \in DOMAIN Windows
      BY DEF Windows
    <3>. QED
      BY <3>1, <3>2 DEF Range
  <2>. QED
    BY <2>1 DEF Init, Filter
<1>4. Snapshot
  <2>1. snap = Nothing
    BY DEF Init
  <2>2. /\ snap.alarms = 0 /\ snap.roles = <<>> /\ snap.edges = <<>>
        /\ snap.active = <<>>
        /\ snap.history.rows = <<>> /\ snap.history.total = 0
    BY <2>1 DEF Nothing
  <2>. QED
    BY <2>2, ConsoleAssumption DEF Snapshot
<1>5. Screen /\ Followed
  BY DEF Init, Screen, Followed, Quiet
<1>6. Jobs
  BY DEF Init, Jobs
<1>. QED
  BY <1>1, <1>2, <1>3, <1>4, <1>5, <1>6 DEF ConsoleInv

-----------------------------------------------------------------------------
(***************************************************************************)
(* The steps of the monitor, which leave the table alone.                  *)
(***************************************************************************)
LEMMA TableStays ==
    ASSUME ConsoleInv, UNCHANGED tasks
    PROVE  /\ Grown /\ Table'
           /\ UNCHANGED jobs => Jobs'
           /\ UNCHANGED snap => Snapshot'
           /\ UNCHANGED <<snap, filter>> /\ (pc' # "pull" => pc # "pull")
                => Screen'
<1>1. Grown /\ Table'
  BY SameIsGrown DEF ConsoleInv, Table
<1>. QED
  BY <1>1, JobsKept, SnapshotKept, ScreenKept DEF ConsoleInv

\* A request that fails is counted, and remembered.
LEMMA AnsweredFacts ==
    ASSUME Counts, NEW ok, Answered(ok), UNCHANGED <<alarms, enabled>>
    PROVE  Counts' /\ (failed \/ ~ok => failed')
<1>1. events' \in Nat /\ events' >= events /\ events' =< MaxEvents
  BY ConsoleAssumption DEF Counts, Answered
<1>2. failed' \in BOOLEAN /\ (failed \/ ~ok => failed')
  BY DEF Answered
<1>3. alarms' \in Nat /\ alarms' =< events'
  BY <1>1 DEF Counts
<1>4. enabled' \in BOOLEAN
  BY DEF Counts
<1>. QED
  BY <1>1, <1>2, <1>3, <1>4 DEF Counts

LEMMA RefreshKeeps ==
    ASSUME ConsoleInv, RefreshDue \/ CancelAnswered
    PROVE  ConsoleInv'
<1>. USE DEF ConsoleInv
<1>1. /\ pc' = "pull" /\ UNCHANGED <<server, view, snap, detailVars>>
      /\ UNCHANGED counters \/ \E ok \in BOOLEAN : Answered(ok)
  BY DEF RefreshDue, CancelAnswered, Refresh
<1>2. Table' /\ Jobs' /\ Snapshot'
  BY <1>1, TableStays DEF server
<1>3. Counts' /\ (failed => failed')
  <2>1. CASE UNCHANGED counters
    BY <1>1, <2>1 DEF Counts, counters, server
  <2>2. CASE \E ok \in BOOLEAN : Answered(ok)
    BY <1>1, <2>2, AnsweredFacts DEF server
  <2>. QED
    BY <1>1, <2>1, <2>2
<1>4. Cursors' /\ (filter \in Filter)'
  BY <1>1 DEF Cursors, server, view, detailVars
<1>5. Screen'
  BY <1>1 DEF Screen
<1>6. Followed'
  BY <1>1, <1>3 DEF Followed, Quiet, detailVars
<1>. QED
  BY <1>2, <1>3, <1>4, <1>5, <1>6

\* The snapshot of a pull: what the scheduler answers, or nothing.
LEMMA PullKeeps ==
    ASSUME ConsoleInv, Pull
    PROVE  ConsoleInv'
<1>. USE DEF ConsoleInv
<1>1. PICK lost \in SUBSET DOMAIN Nothing :
        /\ Answered(lost = {})
        /\ snap' = [part \in DOMAIN Answers |->
                      (IF part \in lost THEN Nothing ELSE Answers)[part]]
  BY DEF Pull
<1>2. pc' = "sync" /\ UNCHANGED <<server, view, detailVars>>
  BY DEF Pull
<1>3. Grown /\ Table' /\ Jobs'
  BY <1>2, TableStays DEF server
<1>4. Counts' /\ (failed => failed')
  BY <1>1, <1>2, AnsweredFacts DEF server
<1>5. Cursors' /\ (filter \in Filter)'
  BY <1>2 DEF Cursors, server, view, detailVars
<1>6. PICK answer : answer = Answers
  OBVIOUS
<1>7. PICK page, q : /\ q = HistoryRequest(filter)
                     /\ page = ListPage(q, PageSize, filter.offset)
  OBVIOUS
<1>8. PICK act : act = Active
  OBVIOUS
<1>9. /\ answer.alarms = alarms /\ answer.roles = Roles
      /\ answer.edges = Edges /\ answer.active = act
      /\ answer.history = page
      /\ DOMAIN answer = {"alarms", "roles", "edges", "active", "history"}
  BY <1>6, <1>7, <1>8 DEF Answers
<1>10. /\ snap'.alarms \in {0, alarms} /\ snap'.roles \in {<<>>, Roles}
       /\ snap'.edges \in {<<>>, Edges} /\ snap'.active \in {<<>>, act}
       /\ snap'.history.rows \in {<<>>, page.rows}
       /\ snap'.history.total \in {0, page.total}
  BY <1>1, <1>6, <1>9 DEF Nothing
<1>11. PageOf(page, q)
  <2>1. PageSize \in Nat /\ filter.offset \in Nat
    BY ConsoleAssumption DEF Filter
  <2>2. PageOf(ListPage(q, PageSize, filter.offset), q)
    BY <2>1, ListPageFacts
  <2>. QED
    BY <1>7, <2>2
<1>12. /\ act \in Seq(TaskRow) /\ Distinct(act)
       /\ \A i \in DOMAIN act : OfTable(act[i])
  <2>1. PageOf(ListPage(ActiveRequest, ListCap, 0), ActiveRequest)
    BY ListPageFacts, ConsoleAssumption
  <2>. QED
    BY <1>8, <2>1 DEF Active, PageOf
<1>13. ASSUME NEW row, OfTable(row)
       PROVE  OfTable(row)' /\ (Fits(row) => Fits(row)')
  BY <1>2, <1>3, <1>13, RowKept DEF view
<1>14. \A i \in DOMAIN act : OfTable(act[i])'
  <2>. TAKE i \in DOMAIN act
  <2>1. PICK row : row = act[i]
    OBVIOUS
  <2>2. OfTable(row)'
    BY <1>12, <1>13, <2>1
  <2>. QED
    BY <2>1, <2>2
<1>15. \A i \in DOMAIN page.rows :
         OfTable(page.rows[i])' /\ Fits(page.rows[i])'
  <2>. TAKE i \in DOMAIN page.rows
  <2>1. PICK row : row = page.rows[i]
    OBVIOUS
  <2>2. /\ OfTable(row) /\ Matches(row.id, q)
        /\ row.state = tasks[row.id].state
    BY <1>11, <2>1 DEF PageOf
  <2>3. Fits(row)
    BY <1>7, <2>2, MatchFits DEF OfTable
  <2>4. OfTable(row)' /\ Fits(row)'
    BY <1>13, <2>2, <2>3
  <2>. QED
    BY <2>1, <2>4
<1>16. PICK new : new = snap'
  OBVIOUS
<1>17. Snapshot'
  <2>1. new.alarms \in Nat /\ new.roles \in {<<>>, Roles}
    BY <1>10, <1>16 DEF Counts
  <2>2. new.edges \in Seq(Edge)
    <3>1. <<>> \in Seq(Edge) /\ Edges \in Seq(Edge)
      BY EdgesFacts
    <3>2. new.edges = <<>> \/ new.edges = Edges
      BY <1>10, <1>16
    <3>. QED
      BY <3>1, <3>2
  <2>3. /\ new.active \in Seq(TaskRow) /\ Distinct(new.active)
        /\ \A i \in DOMAIN new.active : OfTable(new.active[i])'
    <3>1. CASE new.active = <<>>
      <4>1. DOMAIN <<>> = {} /\ <<>> \in Seq(TaskRow)
        OBVIOUS
      <4>. QED
        BY <3>1, <4>1 DEF Distinct
    <3>2. CASE new.active = act
      BY <1>12, <1>14, <3>2
    <3>. QED
      BY <1>10, <1>16, <3>1, <3>2
  <2>4. /\ new.history.rows \in Seq(TaskRow) /\ new.history.total \in Nat
        /\ Len(new.history.rows) =< MaxTasks
    <3>1. page.rows \in Seq(TaskRow) /\ page.total \in Nat
          /\ Len(page.rows) =< MaxTasks
      BY <1>11 DEF PageOf
    <3>2. Len(<<>>) = 0 /\ <<>> \in Seq(TaskRow) /\ 0 =< MaxTasks
      BY ConsoleAssumption
    <3>3. new.history.rows = <<>> \/ new.history.rows = page.rows
      BY <1>10, <1>16
    <3>4. new.history.total = 0 \/ new.history.total = page.total
      BY <1>10, <1>16
    <3>5. CASE new.history.rows = <<>>
      <4>1. Len(new.history.rows) = 0 /\ new.history.rows \in Seq(TaskRow)
        BY <3>2, <3>5
      <4>. QED
        BY <3>1, <3>2, <3>4, <4>1
    <3>6. CASE new.history.rows = page.rows
      BY <3>1, <3>4, <3>6
    <3>. QED
      BY <3>3, <3>5, <3>6
  <2>5. \A i \in DOMAIN new.history.rows : OfTable(new.history.rows[i])'
    <3>1. CASE new.history.rows = <<>>
      BY <3>1
    <3>2. CASE new.history.rows = page.rows
      BY <1>15, <3>2
    <3>. QED
      BY <1>10, <1>16, <3>1, <3>2
  <2>. QED
    BY <1>16, <2>1, <2>2, <2>3, <2>4, <2>5 DEF Snapshot, Distinct
<1>18. Screen'
  <2>1. \A i \in DOMAIN new.history.rows : Fits(new.history.rows[i])'
    <3>1. CASE new.history.rows = <<>>
      BY <3>1
    <3>2. CASE new.history.rows = page.rows
      BY <1>15, <3>2
    <3>. QED
      BY <1>10, <1>16, <3>1, <3>2
  <2>. QED
    BY <1>16, <2>1 DEF Screen
<1>19. Followed'
  BY <1>2, <1>4 DEF Followed, Quiet, detailVars
<1>. QED
  BY <1>3, <1>4, <1>5, <1>17, <1>18, <1>19

\* After a sync both cursors are on a row, if there is one, and the detail
\* asked for is the one of the row under the focused cursor.
LEMMA SyncKeeps ==
    ASSUME ConsoleInv, Sync
    PROVE  ConsoleInv'
<1>. USE DEF ConsoleInv
<1>1. /\ pc = "sync" /\ pc' = "idle"
      /\ UNCHANGED <<server, focus, filter, search, snap>>
      /\ cursor' = [p \in DOMAIN cursor |-> Clamp(cursor[p], Len(Panel(p)))]
  BY DEF Sync
<1>2. /\ Table' /\ Jobs' /\ Snapshot' /\ Screen'
  BY <1>1, TableStays DEF server
<1>3. ASSUME NEW p \in {"graph", "history"}
      PROVE  /\ Panel(p) \in Seq(DOMAIN tasks)
             /\ cursor'[p] \in 0..(Max2(MaxTasks, 1) - 1)
             /\ Len(Panel(p)) # 0 => cursor'[p] < Len(Panel(p))
  <2>1. PICK c, len : c = cursor[p] /\ len = Len(Panel(p))
    OBVIOUS
  <2>2. Panel(p) \in Seq(DOMAIN tasks) /\ Len(Panel(p)) =< MaxTasks
    BY PanelFacts
  <2>3. len \in 0..MaxTasks
    <3>1. Len(Panel(p)) \in Nat
      BY <2>2
    <3>. QED
      BY <2>1, <2>2, <3>1, ConsoleAssumption
  <2>4. /\ c \in 0..(Max2(MaxTasks, 1) - 1)
        /\ DOMAIN cursor = {"graph", "history"}
    BY <2>1 DEF Cursors
  <2>5. cursor'[p] = Clamp(c, len)
    BY <1>1, <2>1, <2>4
  <2>. QED
    BY <2>1, <2>2, <2>3, <2>4, <2>5, ClampFacts
<1>4. PICK ids, under, now : /\ ids = Panel(focus) /\ under = cursor'[focus]
                          /\ now = IF ids = <<>> THEN None ELSE ids[under + 1]
  OBVIOUS
<1>5. /\ ids \in Seq(DOMAIN tasks) /\ under \in Nat
      /\ Len(ids) # 0 => under < Len(ids)
  <2>1. focus \in {"graph", "history"}
    BY DEF Cursors
  <2>2. /\ ids \in Seq(DOMAIN tasks) /\ under \in 0..(Max2(MaxTasks, 1) - 1)
        /\ Len(ids) # 0 => under < Len(ids)
    BY <1>3, <1>4, <2>1
  <2>. QED
    BY <2>2
<1>6. /\ chosen' = now
      /\ \/ /\ now \in {chosen, None} /\ UNCHANGED counters
            /\ detail' = IF now = chosen THEN detail ELSE None
         \/ \E ok \in BOOLEAN :
              Answered(ok) /\ detail' = IF ok THEN now ELSE detail
  BY <1>4 DEF Sync
<1>7. now \in 0..Len(tasks)
  <2>1. Len(tasks) \in Nat /\ DOMAIN tasks = 1..Len(tasks)
    BY DEF Table
  <2>2. CASE ids = <<>>
    BY <1>4, <2>1, <2>2 DEF None
  <2>3. CASE ids # <<>>
    <3>1. under + 1 \in DOMAIN ids
      BY <1>5, <2>3
    <3>2. now \in DOMAIN tasks
      BY <1>4, <1>5, <2>3, <3>1
    <3>. QED
      BY <2>1, <3>2
  <2>. QED
    BY <2>2, <2>3
<1>8. Counts' /\ (~failed' => detail' = now) /\ detail' \in 0..Len(tasks)
  <2>1. chosen \in 0..Len(tasks) /\ detail \in 0..Len(tasks)
        /\ None \in 0..Len(tasks)
    BY DEF Cursors, Table, None
  <2>2. CASE /\ now \in {chosen, None} /\ UNCHANGED counters
             /\ detail' = IF now = chosen THEN detail ELSE None
    <3>1. Counts'
      BY <1>1, <2>2 DEF Counts, counters, server
    <3>2. failed' = failed
      BY <2>2 DEF counters
    <3>. QED
      BY <2>1, <2>2, <3>1, <3>2 DEF Followed
  <2>3. ASSUME NEW ok \in BOOLEAN, Answered(ok),
               detail' = IF ok THEN now ELSE detail
        PROVE  Counts' /\ (~failed' => detail' = now)
                 /\ detail' \in 0..Len(tasks)
    <3>1. Counts' /\ (~ok => failed')
      BY <1>1, <2>3, AnsweredFacts DEF server
    <3>. QED
      BY <1>7, <2>1, <2>3, <3>1
  <2>. QED
    BY <1>6, <2>2, <2>3
<1>9. Cursors'
  <2>1. cursor' \in [{"graph", "history"} -> 0..(Max2(MaxTasks, 1) - 1)]
    <3>1. DOMAIN cursor = {"graph", "history"}
      BY DEF Cursors
    <3>. QED
      BY <1>1, <1>3, <3>1
  <2>2. {chosen', detail'} \subseteq 0..Len(tasks')
    BY <1>1, <1>6, <1>7, <1>8 DEF server
  <2>. QED
    BY <1>1, <2>1, <2>2 DEF Cursors
<1>10. Selected' = now
  <2>1. Panel(focus)' = ids
    BY <1>1, <1>4 DEF Panel
  <2>2. Selected' = IF under < Len(ids) THEN ids[under + 1] ELSE None
    BY <1>1, <1>4, <2>1 DEF Selected
  <2>3. CASE ids = <<>>
    BY <1>4, <1>5, <2>2, <2>3
  <2>4. CASE ids # <<>>
    <3>1. Len(ids) # 0
      BY <1>5, <2>4
    <3>. QED
      BY <1>4, <1>5, <2>2, <2>4, <3>1
  <2>. QED
    BY <2>3, <2>4
<1>11. Followed'
  BY <1>6, <1>8, <1>10 DEF Followed
<1>. QED
  BY <1>1, <1>2, <1>8, <1>9, <1>11

\* What every key leaves alone.
LEMMA PressFacts ==
    ASSUME ConsoleInv, NEW key, Press(key), enabled' \in BOOLEAN
    PROVE  /\ pc = "idle" /\ UNCHANGED <<tasks, snap, chosen, detail, failed>>
           /\ Table' /\ Snapshot' /\ Counts' /\ (~failed => detail = chosen)'
           /\ (UNCHANGED filter => Screen')
           /\ (UNCHANGED jobs => Jobs')
<1>. USE DEF ConsoleInv
<1>1. /\ pc = "idle"
      /\ UNCHANGED <<tasks, alarms, snap, chosen, detail, failed>>
      /\ key = "tab" \/ events < MaxEvents
      /\ events' = IF key = "tab" THEN events ELSE events + 1
  BY DEF Press, detailVars
<1>2. Table' /\ Snapshot' /\ (UNCHANGED filter => Screen')
      /\ (UNCHANGED jobs => Jobs')
  BY <1>1, TableStays
<1>3. Counts'
  <2>1. events' \in Nat /\ events' >= events /\ events' =< MaxEvents
    BY <1>1, ConsoleAssumption DEF Counts
  <2>2. alarms' \in Nat /\ alarms' =< events'
    BY <1>1, <2>1 DEF Counts
  <2>3. failed' \in BOOLEAN
    BY <1>1 DEF Counts
  <2>. QED
    BY <2>1, <2>2, <2>3 DEF Counts
<1>4. (~failed => detail = chosen)'
  BY <1>1 DEF Followed
<1>. QED
  BY <1>1, <1>2, <1>3, <1>4

\* A key that asks for a pull: the screen is behind the filter until then.
LEMMA PullKeyKeeps ==
    ASSUME ConsoleInv, NEW key, Press(key), pc' = "pull",
           enabled' \in BOOLEAN, UNCHANGED <<jobs, focus>>,
           cursor' \in [{"graph", "history"} -> 0..(Max2(MaxTasks, 1) - 1)],
           search' \in {"closed", "empty", "word"}, filter' \in Filter
    PROVE  ConsoleInv'
<1>. USE DEF ConsoleInv
<1>1. /\ UNCHANGED <<tasks, snap, chosen, detail, failed>>
      /\ Table' /\ Snapshot' /\ Counts' /\ Jobs'
      /\ (~failed => detail = chosen)'
  BY PressFacts
<1>2. Cursors'
  BY <1>1 DEF Cursors
<1>3. Screen' /\ Followed'
  BY <1>1 DEF Screen, Followed, Quiet
<1>. QED
  BY <1>1, <1>2, <1>3

LEMMA TabKeyKeeps == ConsoleInv /\ TabKey => ConsoleInv'
<1>. SUFFICES ASSUME ConsoleInv, TabKey PROVE ConsoleInv'
  OBVIOUS
<1>. USE DEF ConsoleInv
<1>1. /\ Press("tab") /\ pc' = "sync"
      /\ UNCHANGED <<enabled, jobs, cursor, filter, search>>
      /\ focus' = IF focus = "graph" THEN "history" ELSE "graph"
  BY DEF TabKey, Command, Resync
<1>2. /\ UNCHANGED <<tasks, chosen, detail>>
      /\ Table' /\ Snapshot' /\ Counts' /\ Jobs' /\ Screen'
      /\ (~failed => detail = chosen)'
  <2>1. enabled' \in BOOLEAN
    BY <1>1 DEF Counts
  <2>. QED
    BY <1>1, <2>1, PressFacts
<1>3. Cursors'
  BY <1>1, <1>2 DEF Cursors
<1>4. Followed'
  BY <1>1, <1>2 DEF Followed, Quiet
<1>. QED
  BY <1>1, <1>2, <1>3, <1>4

LEMMA MoveKeyKeeps == ConsoleInv /\ MoveKey => ConsoleInv'
<1>. SUFFICES ASSUME ConsoleInv, MoveKey PROVE ConsoleInv'
  OBVIOUS
<1>. USE DEF ConsoleInv
<1>1. PICK key \in {"up", "down"}, delta \in {0, 2} :
        /\ Press(key)
        /\ cursor' = [cursor EXCEPT ![focus] =
                        Moved(@, Len(Panel(focus)), delta)]
  BY DEF MoveKey, Command
<1>2. pc' = "sync" /\ UNCHANGED <<enabled, jobs, focus, filter, search>>
  BY DEF MoveKey, Resync
<1>3. /\ UNCHANGED <<tasks, chosen, detail>>
      /\ Table' /\ Snapshot' /\ Counts' /\ Jobs' /\ Screen'
      /\ (~failed => detail = chosen)'
  <2>1. enabled' \in BOOLEAN
    BY <1>2 DEF Counts
  <2>. QED
    BY <1>1, <1>2, <2>1, PressFacts
<1>4. cursor' \in [{"graph", "history"} -> 0..(Max2(MaxTasks, 1) - 1)]
  <2>1. PICK c, len : c = cursor[focus] /\ len = Len(Panel(focus))
    OBVIOUS
  <2>2. focus \in {"graph", "history"} /\ c \in 0..(Max2(MaxTasks, 1) - 1)
        /\ cursor \in [{"graph", "history"} -> 0..(Max2(MaxTasks, 1) - 1)]
    BY <2>1 DEF Cursors
  <2>3. Panel(focus) \in Seq(DOMAIN tasks) /\ Len(Panel(focus)) =< MaxTasks
    BY <2>2, PanelFacts
  <2>4. len \in 0..MaxTasks
    <3>1. Len(Panel(focus)) \in Nat
      BY <2>3
    <3>. QED
      BY <2>1, <2>3, <3>1, ConsoleAssumption
  <2>5. Moved(c, len, delta) \in 0..(Max2(MaxTasks, 1) - 1)
    BY <2>2, <2>4, MovedFacts
  <2>6. cursor' = [cursor EXCEPT ![focus] = Moved(c, len, delta)]
    BY <1>1, <2>1
  <2>. QED
    BY <2>2, <2>5, <2>6
<1>5. Cursors'
  BY <1>2, <1>3, <1>4 DEF Cursors
<1>6. Followed'
  BY <1>2, <1>3 DEF Followed, Quiet
<1>. QED
  BY <1>2, <1>3, <1>5, <1>6

\* The keys that change an axis of the filter.
LEMMA FilterFacts ==
    ASSUME ConsoleInv
    PROVE  /\ filter \in Filter
           /\ \A x \in Range(States) :
                [filter EXCEPT !.state = x, !.offset = 0] \in Filter
           /\ \A x \in Range(Roles) \cup {AnyRole} :
                [filter EXCEPT !.role = x, !.offset = 0] \in Filter
           /\ \A x \in Edge \cup {AnyEdge} :
                [filter EXCEPT !.edge = x, !.offset = 0] \in Filter
           /\ \A x \in Range(Windows) :
                [filter EXCEPT !.window = x, !.offset = 0] \in Filter
           /\ \A x \in BOOLEAN :
                [filter EXCEPT !.retry = x, !.offset = 0] \in Filter
           /\ \A x \in {"empty", "word"} :
                [filter EXCEPT !.text = x, !.offset = 0] \in Filter
           /\ \A n \in Nat : [filter EXCEPT !.offset = n] \in Filter
<1>1. PICK f \in Filter : f = filter
  BY DEF ConsoleInv
<1>2. \A x \in Range(States) :
        [f EXCEPT !.state = x, !.offset = 0] \in Filter
  BY DEF Filter
<1>3. \A x \in Range(Roles) \cup {AnyRole} :
        [f EXCEPT !.role = x, !.offset = 0] \in Filter
  BY DEF Filter
<1>4. \A x \in Edge \cup {AnyEdge} :
        [f EXCEPT !.edge = x, !.offset = 0] \in Filter
  BY DEF Filter
<1>5. \A x \in Range(Windows) :
        [f EXCEPT !.window = x, !.offset = 0] \in Filter
  BY DEF Filter
<1>6. \A x \in BOOLEAN : [f EXCEPT !.retry = x, !.offset = 0] \in Filter
  BY DEF Filter
<1>7. \A x \in {"empty", "word"} :
        [f EXCEPT !.text = x, !.offset = 0] \in Filter
  BY DEF Filter
<1>8. \A n \in Nat : [f EXCEPT !.offset = n] \in Filter
  BY DEF Filter
<1>. QED
  BY <1>1, <1>2, <1>3, <1>4, <1>5, <1>6, <1>7, <1>8

LEMMA NewFilterKeeps ==
    ASSUME ConsoleInv, NEW key, Command(key), NEW f, NewFilter(f),
           [f EXCEPT !.offset = 0] \in Filter
    PROVE  ConsoleInv'
<1>1. /\ Press(key) /\ pc' = "pull" /\ filter' \in Filter
      /\ UNCHANGED <<enabled, jobs, focus, cursor, search>>
  BY DEF Command, NewFilter, Refresh
<1>2. /\ enabled' \in BOOLEAN
      /\ cursor' \in [{"graph", "history"} -> 0..(Max2(MaxTasks, 1) - 1)]
      /\ search' \in {"closed", "empty", "word"}
  BY <1>1 DEF ConsoleInv, Counts, Cursors
<1>. QED
  BY <1>1, <1>2, PullKeyKeeps

LEMMA StateKeyKeeps == ConsoleInv /\ StateKey => ConsoleInv'
<1>. SUFFICES ASSUME ConsoleInv, StateKey PROVE ConsoleInv'
  OBVIOUS
<1>1. PICK x : x = NextIn(States, filter.state)
  OBVIOUS
<1>2. x \in Range(States)
  BY <1>1, FilterFacts, CycleFacts DEF Filter
<1>3. PICK f : f = [filter EXCEPT !.state = x]
  OBVIOUS
<1>4. Command("s") /\ NewFilter(f)
  BY <1>1, <1>3 DEF StateKey
<1>5. [f EXCEPT !.offset = 0] \in Filter
  <2>1. [f EXCEPT !.offset = 0] = [filter EXCEPT !.state = x, !.offset = 0]
    BY <1>3
  <2>. QED
    BY <1>2, <2>1, FilterFacts
<1>. QED
  BY <1>4, <1>5, NewFilterKeeps

LEMMA RoleKeyKeeps == ConsoleInv /\ RoleKey => ConsoleInv'
<1>. SUFFICES ASSUME ConsoleInv, RoleKey PROVE ConsoleInv'
  OBVIOUS
<1>1. PICK choices, x : /\ choices = snap.roles
                        /\ x = NextOption(choices, filter.role, AnyRole)
  OBVIOUS
<1>2. x \in Range(Roles) \cup {AnyRole}
  <2>1. choices = <<>> \/ choices = Roles
    BY <1>1 DEF ConsoleInv, Snapshot
  <2>2. <<>> \in Seq(Range(Roles)) /\ Roles \in Seq(Range(Roles))
    BY ConsoleAssumption
  <2>3. choices \in Seq(Range(Roles))
    BY <2>1, <2>2
  <2>. QED
    BY <1>1, <2>3, OptionFacts
<1>3. PICK f : f = [filter EXCEPT !.role = x]
  OBVIOUS
<1>4. Command("r") /\ NewFilter(f)
  BY <1>1, <1>3 DEF RoleKey
<1>5. [f EXCEPT !.offset = 0] \in Filter
  <2>1. [f EXCEPT !.offset = 0] = [filter EXCEPT !.role = x, !.offset = 0]
    BY <1>3
  <2>. QED
    BY <1>2, <2>1, FilterFacts
<1>. QED
  BY <1>4, <1>5, NewFilterKeeps

LEMMA EdgeKeyKeeps == ConsoleInv /\ EdgeKey => ConsoleInv'
<1>. SUFFICES ASSUME ConsoleInv, EdgeKey PROVE ConsoleInv'
  OBVIOUS
<1>1. PICK choices, x : /\ choices = snap.edges
                        /\ x = NextOption(choices, filter.edge, AnyEdge)
  OBVIOUS
<1>2. x \in Edge \cup {AnyEdge}
  <2>1. choices \in Seq(Edge)
    BY <1>1 DEF ConsoleInv, Snapshot
  <2>. QED
    BY <1>1, <2>1, OptionFacts
<1>3. PICK f : f = [filter EXCEPT !.edge = x]
  OBVIOUS
<1>4. Command("e") /\ NewFilter(f)
  BY <1>1, <1>3 DEF EdgeKey
<1>5. [f EXCEPT !.offset = 0] \in Filter
  <2>1. [f EXCEPT !.offset = 0] = [filter EXCEPT !.edge = x, !.offset = 0]
    BY <1>3
  <2>. QED
    BY <1>2, <2>1, FilterFacts
<1>. QED
  BY <1>4, <1>5, NewFilterKeeps

LEMMA WindowKeyKeeps == ConsoleInv /\ WindowKey => ConsoleInv'
<1>. SUFFICES ASSUME ConsoleInv, WindowKey PROVE ConsoleInv'
  OBVIOUS
<1>1. PICK x : x = NextIn(Windows, filter.window)
  OBVIOUS
<1>2. x \in Range(Windows)
  BY <1>1, FilterFacts, CycleFacts DEF Filter
<1>3. PICK f : f = [filter EXCEPT !.window = x]
  OBVIOUS
<1>4. Command("w") /\ NewFilter(f)
  BY <1>1, <1>3 DEF WindowKey
<1>5. [f EXCEPT !.offset = 0] \in Filter
  <2>1. [f EXCEPT !.offset = 0] = [filter EXCEPT !.window = x, !.offset = 0]
    BY <1>3
  <2>. QED
    BY <1>2, <2>1, FilterFacts
<1>. QED
  BY <1>4, <1>5, NewFilterKeeps

LEMMA RetryKeyKeeps == ConsoleInv /\ RetryKey => ConsoleInv'
<1>. SUFFICES ASSUME ConsoleInv, RetryKey PROVE ConsoleInv'
  OBVIOUS
<1>1. PICK x : x = ~filter.retry
  OBVIOUS
<1>2. x \in BOOLEAN
  BY <1>1
<1>3. PICK f : f = [filter EXCEPT !.retry = x]
  OBVIOUS
<1>4. Command("x") /\ NewFilter(f)
  BY <1>1, <1>3 DEF RetryKey
<1>5. [f EXCEPT !.offset = 0] \in Filter
  <2>1. [f EXCEPT !.offset = 0] = [filter EXCEPT !.retry = x, !.offset = 0]
    BY <1>3
  <2>. QED
    BY <1>2, <2>1, FilterFacts
<1>. QED
  BY <1>4, <1>5, NewFilterKeeps

LEMMA PageKeyKeeps == ConsoleInv /\ PageKey => ConsoleInv'
<1>. SUFFICES ASSUME ConsoleInv, PageKey PROVE ConsoleInv'
  OBVIOUS
<1>1. PICK key \in {"pagedown", "pageup"} : Press(key)
  BY DEF PageKey, Command
<1>2. /\ pc' = "pull" /\ UNCHANGED <<enabled, jobs, focus, search>>
      /\ cursor' = [cursor EXCEPT !.history = 0]
  BY DEF PageKey, Refresh
<1>3. filter' \in Filter
  <2>1. PICK n : n = filter.offset
    OBVIOUS
  <2>2. n \in Nat /\ PageSize \in Nat
    BY <2>1, FilterFacts, ConsoleAssumption DEF Filter
  <2>3. n + PageSize \in Nat /\ Max2(n, PageSize) - PageSize \in Nat
    BY <2>2 DEF Max2
  <2>4. \/ filter' = filter
        \/ filter' = [filter EXCEPT !.offset = n + PageSize]
        \/ filter' = [filter EXCEPT !.offset = Max2(n, PageSize) - PageSize]
    BY <2>1 DEF PageKey
  <2>. QED
    BY <2>3, <2>4, FilterFacts
<1>4. /\ enabled' \in BOOLEAN
      /\ cursor' \in [{"graph", "history"} -> 0..(Max2(MaxTasks, 1) - 1)]
      /\ search' \in {"closed", "empty", "word"}
  <2>1. /\ cursor \in [{"graph", "history"} -> 0..(Max2(MaxTasks, 1) - 1)]
        /\ search \in {"closed", "empty", "word"} /\ enabled \in BOOLEAN
    BY DEF ConsoleInv, Cursors, Counts
  <2>2. 0 \in 0..(Max2(MaxTasks, 1) - 1)
    BY ConsoleAssumption DEF Max2
  <2>. QED
    BY <1>2, <2>1, <2>2
<1>. QED
  BY <1>1, <1>2, <1>3, <1>4, PullKeyKeeps

LEMMA SearchKeyKeeps == ConsoleInv /\ SearchKey => ConsoleInv'
<1>. SUFFICES ASSUME ConsoleInv, SearchKey PROVE ConsoleInv'
  OBVIOUS
<1>. USE DEF ConsoleInv
<1>1. /\ UNCHANGED <<enabled, jobs, focus, cursor>>
      /\ enabled' \in BOOLEAN
      /\ cursor' \in [{"graph", "history"} -> 0..(Max2(MaxTasks, 1) - 1)]
  BY DEF SearchKey, Counts, Cursors
<1>2. /\ filter.text \in {"empty", "word"}
      /\ search \in {"closed", "empty", "word"}
  BY DEF Filter, Cursors
<1>3. CASE \E key \in {"search", "type", "escape"} :
             /\ Press(key) /\ UNCHANGED <<pc, filter>>
             /\ search' \in {"closed", "empty", "word"}
  <2>1. /\ pc = "idle" /\ UNCHANGED <<tasks, snap, chosen, detail>>
        /\ Table' /\ Snapshot' /\ Counts' /\ Jobs' /\ Screen'
        /\ (~failed => detail = chosen)'
    BY <1>1, <1>3, PressFacts
  <2>2. Cursors'
    BY <1>1, <1>3, <2>1 DEF Cursors
  <2>3. Followed'
    BY <1>1, <1>3, <2>1, SelectedKept DEF Followed, Quiet
  <2>. QED
    BY <1>3, <2>1, <2>2, <2>3
<1>4. CASE /\ Press("enter") /\ search # "closed" /\ pc' = "pull"
           /\ filter' = [filter EXCEPT !.text = search, !.offset = 0]
           /\ search' = "closed"
  <2>1. filter' \in Filter
    BY <1>2, <1>4, FilterFacts
  <2>. QED
    BY <1>1, <1>4, <2>1, PullKeyKeeps
<1>. QED
  BY <1>2, <1>3, <1>4 DEF SearchKey, Command, Redraw, Refresh

\* A cancel is asked for a task of the table.
LEMMA CancelKeyKeeps == ConsoleInv /\ CancelKey => ConsoleInv'
<1>. SUFFICES ASSUME ConsoleInv, CancelKey PROVE ConsoleInv'
  OBVIOUS
<1>. USE DEF ConsoleInv
<1>1. /\ Press("c") /\ UNCHANGED <<enabled, focus, cursor, filter, search>>
      /\ enabled' \in BOOLEAN
  BY DEF CancelKey, Command, view, Counts
<1>2. /\ pc = "idle" /\ UNCHANGED <<tasks, snap, chosen, detail>>
      /\ Table' /\ Snapshot' /\ Counts' /\ Screen'
      /\ (~failed => detail = chosen)' /\ (UNCHANGED jobs => Jobs')
  BY <1>1, PressFacts
<1>3. Jobs' /\ pc' \in {"idle", "answer", "pull"}
  <2>1. CASE UNCHANGED jobs
    BY <1>2, <2>1 DEF CancelKey, Redraw, Refresh
  <2>2. CASE /\ Selected # None /\ pc' = "answer"
             /\ jobs' = Append(jobs, [root |-> Selected, phase |-> "new",
                                      upto |-> 0, family |-> <<>>,
                                      todo |-> <<>>])
    <3>1. PICK root, new :
            /\ root = Selected
            /\ new = [root |-> root, phase |-> "new", upto |-> 0,
                      family |-> <<>>, todo |-> <<>>]
      OBVIOUS
    <3>2. root \in DOMAIN tasks /\ root \in Nat
      BY <2>2, <3>1, SelectedFacts DEF Table
    <3>3. new \in Job /\ new.root = root /\ new.phase = "new"
      <4>1. <<>> \in Seq(TaskRow) /\ 0 \in Nat
        OBVIOUS
      <4>. QED
        BY <3>1, <3>2, <4>1 DEF Job
    <3>4. JobOK(new)
      BY <3>2, <3>3 DEF JobOK
    <3>5. Grown
      BY <1>2, TableStays
    <3>6. JobOK(new)'
      BY <3>4, <3>5, JobKept
    <3>7. jobs' = Append(jobs, new) /\ jobs \in Seq(Job)
      BY <2>2, <3>1 DEF Jobs
    <3>8. /\ jobs' \in Seq(Job) /\ DOMAIN jobs' = 1..(Len(jobs) + 1)
          /\ jobs'[Len(jobs) + 1] = new
          /\ \A j \in 1..Len(jobs) : jobs'[j] = jobs[j]
          /\ DOMAIN jobs = 1..Len(jobs) /\ Len(jobs) \in Nat
      BY <3>3, <3>7
    <3>9. \A j \in DOMAIN jobs' : JobOK(jobs[j])'
      <4>. TAKE j \in DOMAIN jobs'
      <4>1. PICK job : job = jobs'[j]
        OBVIOUS
      <4>2. CASE j \in DOMAIN jobs
        <5>1. job = jobs[j]
          BY <3>8, <4>1, <4>2
        <5>2. JobOK(job)
          BY <4>2, <5>1 DEF Jobs
        <5>3. JobOK(job)'
          BY <3>5, <5>2, JobKept
        <5>. QED
          BY <4>1, <5>3
      <4>3. CASE j = Len(jobs) + 1
        <5>1. job = new
          BY <3>8, <4>1, <4>3
        <5>. QED
          BY <3>6, <4>1, <5>1
      <4>. QED
        BY <3>8, <4>2, <4>3
    <3>. QED
      BY <2>2, <3>8, <3>9 DEF Jobs
  <2>. QED
    BY <2>1, <2>2 DEF CancelKey
<1>4. Cursors'
  BY <1>1, <1>2, <1>3 DEF Cursors
<1>5. Followed'
  BY <1>1, <1>2, SelectedKept DEF Followed, Quiet
<1>. QED
  BY <1>1, <1>2, <1>3, <1>4, <1>5

LEMMA ToggleKeyKeeps == ConsoleInv /\ ToggleKey => ConsoleInv'
<1>. SUFFICES ASSUME ConsoleInv, ToggleKey PROVE ConsoleInv'
  OBVIOUS
<1>1. /\ Press("t") /\ pc' = "pull" /\ enabled' \in {FALSE, enabled}
      /\ UNCHANGED <<jobs, focus, cursor, filter, search>>
  BY DEF ToggleKey, Command, Refresh, view, StatusSwarmEnabled
<1>2. /\ enabled' \in BOOLEAN /\ filter' \in Filter
      /\ cursor' \in [{"graph", "history"} -> 0..(Max2(MaxTasks, 1) - 1)]
      /\ search' \in {"closed", "empty", "word"}
  BY <1>1 DEF ConsoleInv, Counts, Cursors
<1>. QED
  BY <1>1, <1>2, PullKeyKeeps

\* The invariant is inductive.
LEMMA ConsoleInvStep == ConsoleInv /\ [Next]_vars => ConsoleInv'
<1>. SUFFICES ASSUME ConsoleInv, [Next]_vars PROVE ConsoleInv'
  OBVIOUS
<1>1. CASE Scheduler
  BY <1>1, SchedulerKeeps
<1>2. CASE RefreshDue \/ CancelAnswered
  BY <1>2, RefreshKeeps
<1>3. CASE Pull
  BY <1>3, PullKeeps
<1>4. CASE Sync
  BY <1>4, SyncKeeps
<1>5. CASE Key
  BY <1>5, TabKeyKeeps, MoveKeyKeeps, StateKeyKeeps, RoleKeyKeeps,
     EdgeKeyKeeps, WindowKeyKeeps, RetryKeyKeeps, PageKeyKeeps,
     SearchKeyKeeps, CancelKeyKeeps, ToggleKeyKeeps DEF Key
<1>6. CASE UNCHANGED vars
  <2>1. UNCHANGED <<server, pc, view, snap, detailVars, counters>>
    BY <1>6 DEF vars
  <2>2. Table' /\ Jobs' /\ Snapshot' /\ Screen'
    BY <2>1, TableStays DEF server, view
  <2>3. Counts' /\ Cursors' /\ (filter \in Filter)'
    BY <2>1 DEF ConsoleInv, Counts, Cursors, server, view, detailVars, counters
  <2>4. Followed'
    BY <2>1, SelectedKept
       DEF ConsoleInv, Followed, Quiet, view, detailVars, counters
  <2>. QED
    BY <2>2, <2>3, <2>4 DEF ConsoleInv
<1>. QED
  BY <1>1, <1>2, <1>3, <1>4, <1>5, <1>6 DEF Next, Loop

LEMMA ConsoleInvAlways == Spec => []ConsoleInv
BY ConsoleInvInit, ConsoleInvStep, PTL DEF Spec

\* The state of the monitor and of the tables behind it has its type: with
\* tasks, cancels and cursors that come and go no cursor leaves the range it
\* is given, and no detail is of a task that is not in the table.
THEOREM MonitorTypes == Spec => []TypeOK
<1>1. ConsoleInv => TypeOK
  <2>. SUFFICES ASSUME ConsoleInv PROVE TypeOK
    OBVIOUS
  <2>1. alarms \in 0..MaxEvents
    BY ConsoleAssumption DEF ConsoleInv, Counts
  <2>2. enabled \in BOOLEAN
    BY DEF ConsoleInv, Counts
  <2>3. filter.state \in Range(States) /\ filter.offset \in Nat
    BY DEF ConsoleInv, Filter
  <2>4. tasks \in Seq([from : Range(Roles), to : Range(Roles),
                       parent : 0..MaxTasks, retry : BOOLEAN,
                       state : TaskState])
    BY DEF ConsoleInv, Table, Task
  <2>. QED
    BY <2>1, <2>2, <2>3, <2>4 DEF ConsoleInv, Cursors, TypeOK
<1>. QED
  BY <1>1, ConsoleInvAlways, PTL

\* tui.rs sync_selection_and_detail: between two pulls the detail asked for
\* is the one of the selected row, for any tree, any page and any height.
THEOREM DetailIsOfSelection == Spec => []DetailFollows
<1>1. ConsoleInv => DetailFollows
  BY DEF ConsoleInv, Followed, DetailFollows
<1>. QED
  BY <1>1, ConsoleInvAlways, PTL

\* tui.rs pull with db.rs list_page: between two pulls every row of the
\* history on the screen is one the filter in the title asks for.
THEOREM RowsAreFiltered == Spec => []RowsMatchFilter
<1>1. ConsoleInv => RowsMatchFilter
  BY DEF ConsoleInv, Screen, Quiet, RowsMatchFilter
<1>. QED
  BY <1>1, ConsoleInvAlways, PTL

\* sched.rs cancel_force with db.rs family: a finished cancel has settled
\* its task and every descendant that was there when it read the family.
THEOREM CancelsReach == Spec => []CancelReachesFamily
<1>1. ConsoleInv => CancelReachesFamily
  <2>. SUFFICES ASSUME ConsoleInv, NEW j \in DOMAIN jobs,
                       jobs[j].phase = "done"
                PROVE  /\ jobs[j].root \in Reached(jobs[j])
                       /\ \A t \in 1..jobs[j].upto :
                            tasks[t].parent \in Reached(jobs[j])
                              => t \in Reached(jobs[j])
                       /\ \A t \in Reached(jobs[j]) :
                            tasks[t].state \in Over
    BY DEF CancelReachesFamily, Reached, Over
  <2>1. PICK job : job = jobs[j]
    OBVIOUS
  <2>2. JobOK(job) /\ JobRead(job) /\ job.todo = <<>>
    <3>1. JobOK(job) /\ job.phase = "done"
      BY <2>1 DEF ConsoleInv, Jobs
    <3>. QED
      BY <3>1 DEF JobOK, JobRead
  <2>3. Range(job.todo) = {}
    BY <2>2 DEF Range
  <2>4. \A t \in Reached(job) : tasks[t].state \in Over
    BY <2>2, <2>3 DEF JobRead, Reached
  <2>. QED
    BY <2>1, <2>2, <2>4 DEF JobRead
<1>. QED
  BY <1>1, ConsoleInvAlways, PTL

-----------------------------------------------------------------------------
(***************************************************************************)
(* Two facts the operator of the monitor relies on and no run asks for.    *)
(***************************************************************************)

\* tui.rs build_graph_layout and graph_task_ids: the graph shows each session
\* once, so that a cursor, which is a position, stands for one task; and
\* whatever a panel lists is a task of the table.
PanelsListTasks ==
    /\ IsInjective(Panel("graph"))
    /\ \A p \in {"graph", "history"} : Panel(p) \in Seq(DOMAIN tasks)

THEOREM PanelsAreOfTasks == Spec => []PanelsListTasks
<1>1. ConsoleInv => PanelsListTasks
  <2>. SUFFICES ASSUME ConsoleInv PROVE PanelsListTasks
    OBVIOUS
  <2>1. PICK g : g = snap
    OBVIOUS
  <2>2. /\ g.active \in Seq(TaskRow) /\ Distinct(g.active)
        /\ g.roles \in {<<>>, Roles} /\ g.alarms \in Nat
    BY <2>1 DEF ConsoleInv, Snapshot, Distinct
  <2>3. IsInjective(GraphIds(g))
    BY <2>2, GraphFacts
  <2>4. Panel("graph") = GraphIds(g)
    BY <2>1 DEF Panel
  <2>5. \A p \in {"graph", "history"} : Panel(p) \in Seq(DOMAIN tasks)
    BY PanelFacts DEF ConsoleInv
  <2>. QED
    BY <2>3, <2>4, <2>5 DEF PanelsListTasks
<1>. QED
  BY <1>1, ConsoleInvAlways, PTL

\* The pages that begin at the multiples of a page size leave no number out.
LEMMA PageOfNumber ==
    ASSUME NEW p \in Nat \ {0}, NEW n \in Nat \ {0}
    PROVE  \E k \in Nat : k * p < n /\ n =< k * p + p
<1>. DEFINE In(m, k) == k * p < m /\ m =< k * p + p
            G == {m \in 0..n : m # 0 => \E k \in Nat : In(m, k)}
<1>1. 0 \in G
  OBVIOUS
<1>2. ASSUME NEW m \in 1..n, m - 1 \in G PROVE m \in G
  <2>1. CASE m = 1
    <3>1. 0 * p = 0
      OBVIOUS
    <3>2. In(m, 0)
      BY <2>1, <3>1
    <3>. QED
      BY <3>2
  <2>2. CASE m # 1
    <3>1. PICK k \in Nat : In(m - 1, k)
      BY <1>2, <2>2
    <3>2. PICK a \in Nat : a = k * p
      OBVIOUS
    <3>3. (k + 1) * p = a + p
      BY <3>2
    <3>4. CASE m =< a + p
      <4>1. In(m, k)
        BY <3>1, <3>2, <3>4
      <4>. QED
        BY <4>1
    <3>5. CASE m > a + p
      <4>1. m = a + p + 1
        BY <3>1, <3>2, <3>5
      <4>2. In(m, k + 1)
        BY <3>3, <4>1
      <4>3. k + 1 \in Nat
        OBVIOUS
      <4>4. \E j \in Nat : In(m, j)
        <5>. HIDE DEF In
        <5>. QED
          BY <4>2, <4>3
      <4>. QED
        BY <4>4
    <3>. QED
      BY <3>4, <3>5
  <2>. QED
    BY <2>1, <2>2
<1>3. n \in G
  <2>1. n \in Nat /\ n \in 0..n
    OBVIOUS
  <2>. HIDE DEF G
  <2>. QED
    BY <1>1, <1>2, <2>1, IntervalInduction
<1>. QED
  BY <1>3

\* tui.rs page_history with db.rs list_page: paging through the history shows
\* every task the filter asks for, as long as a page is not longer than an
\* answer may be, which takes a terminal of more than 800 lines.
THEOREM PagesCover ==
    ASSUME Table, PageSize =< ListCap, NEW q, NEW t \in Range(Found(q))
    PROVE  \E k \in Nat :
             LET rows == ListPage(q, PageSize, k * PageSize).rows IN
             \E i \in DOMAIN rows : rows[i].id = t
<1>1. PageSize \in Nat \ {0} /\ ListCap \in Nat
  BY ConsoleAssumption
<1>2. Found(q) \in Seq(DOMAIN tasks)
  <2>. DEFINE wanted == {u \in DOMAIN tasks : Matches(u, q)}
  <2>1. Newest \in Seq(DOMAIN tasks)
    BY NewestFacts
  <2>2. Found(q) = Keep(Newest, wanted)
    BY DEF Found
  <2>. HIDE DEF wanted
  <2>3. Keep(Newest, wanted) \in Seq(DOMAIN tasks)
    BY <2>1, KeepFacts
  <2>. QED
    BY <2>2, <2>3
<1>3. PICK found \in Seq(DOMAIN tasks) : found = Found(q)
  BY <1>2
<1>4. PICK n \in 1..Len(found) : found[n] = t
  BY <1>3 DEF Range
<1>5. n \in Nat \ {0}
  OBVIOUS
<1>6. PICK k \in Nat : k * PageSize < n /\ n =< k * PageSize + PageSize
  BY <1>1, <1>5, PageOfNumber
<1>7. PICK offset \in Nat : offset = k * PageSize
  BY <1>1
<1>. DEFINE end == Min2(Len(found), offset + Min2(PageSize, ListCap))
            ids == SubSeq(found, offset + 1, end)
            page == ListPage(q, PageSize, offset)
<1>8. page.rows = Rows(ids)
  BY <1>3 DEF ListPage
<1>9. end \in Nat /\ end =< Len(found) /\ n =< end /\ offset < n
  <2>1. Min2(PageSize, ListCap) = PageSize
    BY <1>1 DEF Min2
  <2>2. Len(found) \in Nat
    OBVIOUS
  <2>. QED
    BY <1>1, <1>6, <1>7, <2>1, <2>2 DEF Min2
<1>. HIDE DEF end
<1>10. /\ ids \in Seq(DOMAIN tasks) /\ n - offset \in DOMAIN ids
       /\ ids[n - offset] = t
  BY <1>4, <1>5, <1>9
<1>. HIDE DEF ids
<1>11. /\ DOMAIN Rows(ids) = DOMAIN ids
       /\ \A i \in DOMAIN ids : Rows(ids)[i].id = ids[i]
  BY <1>10, RowsFacts
<1>. HIDE DEF page
<1>12. \E i \in DOMAIN page.rows : page.rows[i].id = t
  BY <1>8, <1>10, <1>11
<1>. QED
  BY <1>7, <1>12 DEF page
=============================================================================
