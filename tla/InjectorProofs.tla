--------------------------- MODULE InjectorProofs ---------------------------
(***************************************************************************)
(* Type correctness of Injector, and, where a pid is not given out again   *)
(* within a poll, OnlyGames, for any number of processes and faults.       *)
(***************************************************************************)
EXTENDS Injector, TLAPS

-----------------------------------------------------------------------------
(* Types *)

LEMMA UpIsProcess ==
  ASSUME TypeOK, NEW p \in Pid, Up(p)
  PROVE  proc[p] \in Process
BY DEF TypeOK, Up, Free, Dead

LEMMA NewStateType ==
  /\ NewState \in ProcState /\ ~NewState.isGame /\ NewState.known /\ NewState.probeFails = 0
  /\ NoState \in ProcState /\ ~NoState.isGame /\ ~NoState.known
<1>1. 0 \in 0..kMaxProbeFails
  BY InjectorAssumption
<1>2. NewState \in ProcState
  BY <1>1, Zenon DEF NewState, ProcState
<1>3. ~NewState.isGame /\ NewState.known /\ NewState.probeFails = 0
  BY DEF NewState
<1>4. NoState = [NewState EXCEPT !.known = FALSE]
  BY Zenon DEF NoState
<1>5. NoState \in ProcState
  BY <1>2, <1>4, Zenon DEF ProcState
<1>6. ~NoState.isGame /\ ~NoState.known
  BY <1>2, <1>3, <1>4 DEF ProcState
<1> QED
  BY <1>2, <1>3, <1>5, <1>6

\* A probe leaves a state that is no game, or one of what the probe found.
LEMMA ProbedIs ==
  ASSUME NEW st \in ProcState, st.known, ~st.isGame, st.probeFails < kMaxProbeFails,
         NEW probe
  PROVE  /\ Probed(st, probe) \in ProcState
         /\ Probed(st, probe).known
         /\ Probed(st, probe).isGame => probe \in {"Game", "Maybe"}
         /\ probe = "Maybe" => Probed(st, probe).needGameModule
<1> DEFINE new == Probed(st, probe)
           maybe == probe = "Maybe"
           once == st.probeFails + 1
<1>1. maybe \in BOOLEAN
  OBVIOUS
<1>2. /\ 0 \in 0..kMaxProbeFails /\ kMaxProbeFails \in 0..kMaxProbeFails
      /\ once \in 0..kMaxProbeFails
  BY InjectorAssumption DEF ProcState
<1>3. CASE probe \in {"Game", "Maybe"}
  <2>1. new = [st EXCEPT !.isGame = TRUE, !.needGameModule = maybe, !.probeFails = 0]
    BY <1>3, Zenon DEF Probed
  <2> HIDE DEF new, maybe
  <2>2. new \in ProcState
    BY <1>1, <1>2, <2>1, Zenon DEF ProcState
  <2>3. new.known /\ new.needGameModule = maybe
    BY <2>1 DEF ProcState
  <2> QED
    BY <1>3, <2>2, <2>3 DEF new, maybe
<1>4. CASE probe = "NotGame"
  <2>1. new = [st EXCEPT !.isGame = FALSE, !.probeFails = kMaxProbeFails]
    BY <1>4, Zenon DEF Probed
  <2> HIDE DEF new
  <2>2. new \in ProcState
    BY <1>2, <2>1, Zenon DEF ProcState
  <2>3. new.known /\ ~new.isGame
    BY <2>1 DEF ProcState
  <2> QED
    BY <1>4, <2>2, <2>3 DEF new
<1>5. CASE probe \notin {"Game", "Maybe", "NotGame"}
  <2>1. new = [st EXCEPT !.probeFails = once]
    BY <1>5, Zenon DEF Probed
  <2> HIDE DEF new, once
  <2>2. new \in ProcState
    BY <1>2, <2>1, Zenon DEF ProcState
  <2>3. new.known /\ ~new.isGame
    BY <2>1 DEF ProcState
  <2> QED
    BY <1>5, <2>2, <2>3 DEF new
<1> QED
  BY <1>3, <1>4, <1>5

LEMMA InitType == Init => TypeOK
<1> SUFFICES ASSUME Init PROVE TypeOK
  OBVIOUS
<1>1. /\ proc \in [Pid -> Process \cup {Free, Dead}]
      /\ procs \in [Pid -> ProcState] /\ alive \in [Pid -> ProcState]
  BY NewStateType, Zenon DEF Init
<1>2. /\ pids \subseteq Pid /\ backoff \subseteq Pid /\ polling \in BOOLEAN
      /\ step \in [Pid -> {"none", "inspect", "inject", "wait"}]
  BY DEF Init, Resting
<1> QED
  BY <1>1, <1>2 DEF TypeOK

\* What the processes do to one of them
LEMMA SystemType ==
  ASSUME TypeOK, NEW q \in Pid,
         \/ \E k \in Program : Start(q, k)
         \/ LoaderDone(q) \/ LoadGameModule(q) \/ Exit(q)
         \/ \E ok \in BOOLEAN : LateLoad(q, ok)
  PROVE  TypeOK'
<1>1. proc' \in [Pid -> Process \cup {Free, Dead}]
  <2>1. CASE \E k \in Program : Start(q, k)
    <3>1. PICK k \in Program : Start(q, k)
      BY <2>1
    <3> DEFINE new == [is |-> "up", program |-> k, loader |-> FALSE,
                       module |-> FALSE, dll |-> FALSE, late |-> FALSE]
    <3>2. new \in Process
      BY DEF Process
    <3>3. proc' = [proc EXCEPT ![q] = new]
      BY <3>1, Zenon DEF Start
    <3> QED
      BY <3>2, <3>3, Zenon DEF TypeOK
  <2>2. CASE LoaderDone(q)
    <3>1. proc[q] \in Process
      BY <2>2, UpIsProcess, Zenon DEF LoaderDone
    <3>2. [proc[q] EXCEPT !.loader = TRUE] \in Process
      BY <3>1, Zenon DEF Process
    <3>3. proc' = [proc EXCEPT ![q] = [proc[q] EXCEPT !.loader = TRUE]]
      BY <2>2, Zenon DEF LoaderDone
    <3> QED
      BY <3>2, <3>3, Zenon DEF TypeOK
  <2>3. CASE LoadGameModule(q)
    <3>1. proc[q] \in Process
      BY <2>3, UpIsProcess, Zenon DEF LoadGameModule
    <3>2. [proc[q] EXCEPT !.module = TRUE] \in Process
      BY <3>1, Zenon DEF Process
    <3>3. proc' = [proc EXCEPT ![q] = [proc[q] EXCEPT !.module = TRUE]]
      BY <2>3, Zenon DEF LoadGameModule
    <3> QED
      BY <3>2, <3>3, Zenon DEF TypeOK
  <2>4. CASE Exit(q)
    BY <2>4, Zenon DEF Exit, TypeOK
  <2>5. CASE \E ok \in BOOLEAN : LateLoad(q, ok)
    <3>1. PICK ok \in BOOLEAN : LateLoad(q, ok)
      BY <2>5
    <3> DEFINE dll == proc[q].dll \/ ok
    <3>2. proc[q] \in Process
      BY <3>1, UpIsProcess, Zenon DEF LateLoad
    <3>3. dll \in BOOLEAN
      OBVIOUS
    <3>4. proc' = [proc EXCEPT ![q] = [proc[q] EXCEPT !.late = FALSE, !.dll = dll]]
      BY <3>1, Zenon DEF LateLoad
    <3> HIDE DEF dll
    <3>5. [proc[q] EXCEPT !.late = FALSE, !.dll = dll] \in Process
      BY <3>2, <3>3, Zenon DEF Process
    <3> QED
      BY <3>4, <3>5, Zenon DEF TypeOK
  <2> QED
    BY <2>1, <2>2, <2>3, <2>4, <2>5
<1>2. UNCHANGED injector
  BY Zenon DEF Start, LoaderDone, LoadGameModule, Exit, LateLoad
<1> QED
  BY <1>1, <1>2 DEF TypeOK, injector

LEMMA PollType ==
  ASSUME TypeOK, Poll
  PROVE  TypeOK'
BY NewStateType, Zenon DEF TypeOK, Poll

LEMMA VisitIs ==
  ASSUME TypeOK, NEW q \in Pid, NEW ok \in BOOLEAN, Visit(q, ok)
  PROVE  \E new \in ProcState :
           /\ alive' = [alive EXCEPT ![q] = new] /\ new.known
           /\ step' = step \/ (step' = [step EXCEPT ![q] = "inspect"] /\ new.isGame)
           /\ new.isGame =>
                \/ new = procs[q]
                \/ Probe(q) = "Game"
                \/ Probe(q) = "Maybe" /\ new.needGameModule
<1> DEFINE st == IF procs[q].known THEN procs[q] ELSE NewState
           probe == IF ok THEN Probe(q) ELSE "Unknown"
           new == IF ToProbe(q) THEN Probed(st, probe) ELSE st
           serve == new.isGame /\ ~new.done /\ q \notin backoff
<1>1. procs[q] \in ProcState
  BY DEF TypeOK
<1>2. alive' = [alive EXCEPT ![q] = new]
  BY Zenon DEF Visit
<1>3. step' = IF serve THEN [step EXCEPT ![q] = "inspect"] ELSE step
  BY Zenon DEF Visit
<1>4. st \in ProcState /\ st.known
  BY <1>1, NewStateType
<1>5. ToProbe(q) => ~st.isGame /\ st.probeFails < kMaxProbeFails
  BY <1>1, NewStateType, InjectorAssumption DEF ToProbe, ProcState
<1>6. ~ToProbe(q) => new = procs[q]
  BY Zenon DEF ToProbe
<1> HIDE DEF st, probe
<1>7. new \in ProcState /\ new.known
  BY <1>4, <1>5, ProbedIs, Zenon
<1>8. new.isGame =>
        \/ new = procs[q]
        \/ Probe(q) = "Game"
        \/ Probe(q) = "Maybe" /\ new.needGameModule
  <2>1. CASE ToProbe(q)
    <3>1. new = Probed(st, probe)
      BY <2>1, Zenon
    <3>2. new.isGame => probe \in {"Game", "Maybe"}
      BY <2>1, <3>1, <1>4, <1>5, ProbedIs, Zenon
    <3>3. probe = "Maybe" => new.needGameModule
      BY <2>1, <3>1, <1>4, <1>5, ProbedIs, Zenon
    <3> HIDE DEF new
    <3> QED
      BY <3>2, <3>3 DEF probe
  <2> QED
    BY <2>1, <1>6
<1> HIDE DEF new
<1> QED
  BY <1>2, <1>3, <1>7, <1>8, Zenon

\* What ServiceGameProcess leaves of the state in hand: as it was but for `done'.
LEMMA DoneType ==
  ASSUME TypeOK, NEW q \in Pid, NEW done \in BOOLEAN,
         alive' = [alive EXCEPT ![q].done = done]
  PROVE  /\ alive' \in [Pid -> ProcState]
         /\ \A p \in Pid : /\ alive'[p].known = alive[p].known
                            /\ alive'[p].isGame = alive[p].isGame
                            /\ alive'[p].needGameModule = alive[p].needGameModule
<1>1. alive[q] \in ProcState
  BY DEF TypeOK
<1> DEFINE new == [alive[q] EXCEPT !.done = done]
<1>2. new \in ProcState
  BY <1>1, Zenon DEF ProcState
<1>3. /\ new.known = alive[q].known /\ new.isGame = alive[q].isGame
      /\ new.needGameModule = alive[q].needGameModule
  BY <1>1 DEF ProcState
<1>4. alive' = [alive EXCEPT ![q] = new]
  BY Zenon
<1> HIDE DEF new
<1> QED
  BY <1>2, <1>3, <1>4, SMT DEF TypeOK

\* What a step of ServiceGameProcess does to the variables.
LEMMA ServiceIs ==
  ASSUME TypeOK, NEW q \in Pid,
         \/ Inspect(q) \/ TimedOut(q)
         \/ \E ok \in BOOLEAN : CreateRemoteThread(q, ok) \/ Loaded(q, ok)
  PROVE  /\ alive' \in [Pid -> ProcState]
         /\ \A p \in Pid : /\ alive'[p].known = alive[p].known
                            /\ alive'[p].isGame = alive[p].isGame
                            /\ alive'[p].needGameModule = alive[p].needGameModule
         /\ backoff' \subseteq Pid
         /\ UNCHANGED <<procs, pids, polling>>
         /\ \E to \in {"none", "inject", "wait"} : step' = [step EXCEPT ![q] = to]
<1>1. CASE Inspect(q)
  <2> DEFINE target == InspectTarget(q, alive[q].needGameModule)
             done == target \in {"WrongArch", "AlreadyHooked"}
             to == IF target = "Ready" THEN "inject" ELSE "none"
  <2>1. alive' = [alive EXCEPT ![q].done = done]
    BY <1>1, SMT DEF Inspect
  <2>2. UNCHANGED <<backoff, procs, pids, polling>>
    BY <1>1 DEF Inspect
  <2>3. step' = [step EXCEPT ![q] = to] /\ to \in {"none", "inject", "wait"}
    BY <1>1, Zenon DEF Inspect, Go
  <2> HIDE DEF target, to
  <2>4. done \in BOOLEAN
    OBVIOUS
  <2> HIDE DEF done
  <2> QED
    BY <2>1, <2>2, <2>3, <2>4, DoneType, Zenon DEF TypeOK
<1>2. CASE TimedOut(q)
  BY <1>2, ZenonT(60) DEF TimedOut, Go, Failed, TypeOK
<1>3. CASE \E ok \in BOOLEAN : CreateRemoteThread(q, ok)
  BY <1>3, ZenonT(60) DEF CreateRemoteThread, Go, Failed, TypeOK
<1>4. CASE \E ok \in BOOLEAN : Loaded(q, ok)
  <2>1. PICK ok \in BOOLEAN : Loaded(q, ok)
    BY <1>4
  <2>2. CASE ok
    BY <2>1, <2>2, DoneType, Zenon DEF Loaded, Go, Succeeded, TypeOK
  <2>3. CASE ~ok
    BY <2>1, <2>3, Zenon DEF Loaded, Go, Failed, TypeOK
  <2> QED
    BY <2>2, <2>3
<1> QED
  BY <1>1, <1>2, <1>3, <1>4

LEMMA LoadedDll ==
  ASSUME TypeOK, NEW q \in Pid, Up(q)
  PROVE  /\ [proc EXCEPT ![q].dll = TRUE] \in [Pid -> Process \cup {Free, Dead}]
         /\ [proc EXCEPT ![q].late = TRUE] \in [Pid -> Process \cup {Free, Dead}]
<1>1. proc[q] \in Process
  BY UpIsProcess
<1>2. [proc[q] EXCEPT !.dll = TRUE] \in Process /\ [proc[q] EXCEPT !.late = TRUE] \in Process
  BY <1>1, Zenon DEF Process
<1> QED
  BY <1>2, Zenon DEF TypeOK

LEMMA ServiceType ==
  ASSUME TypeOK, NEW q \in Pid,
         \/ Inspect(q) \/ TimedOut(q)
         \/ \E ok \in BOOLEAN : CreateRemoteThread(q, ok) \/ Loaded(q, ok)
  PROVE  TypeOK'
<1>1. proc' \in [Pid -> Process \cup {Free, Dead}]
  <2>1. CASE TimedOut(q)
    BY <2>1, LoadedDll, Zenon DEF TimedOut
  <2>2. CASE \E ok \in BOOLEAN : Loaded(q, ok)
    BY <2>2, LoadedDll, Zenon DEF Loaded, TypeOK
  <2>3. CASE Inspect(q) \/ \E ok \in BOOLEAN : CreateRemoteThread(q, ok)
    BY <2>3, Zenon DEF Inspect, CreateRemoteThread, system, TypeOK
  <2> QED
    BY <2>1, <2>2, <2>3
<1>2. /\ alive' \in [Pid -> ProcState] /\ backoff' \subseteq Pid
      /\ UNCHANGED <<procs, pids, polling>>
  BY ServiceIs, Zenon
<1>3. step' \in [Pid -> {"none", "inspect", "inject", "wait"}]
  <2>1. PICK to \in {"none", "inject", "wait"} : step' = [step EXCEPT ![q] = to]
    BY ServiceIs, Zenon
  <2> QED
    BY <2>1 DEF TypeOK
<1> QED
  BY <1>1, <1>2, <1>3 DEF TypeOK

LEMMA RestartType ==
  ASSUME TypeOK, Restart
  PROVE  TypeOK'
<1>1. proc' \in [Pid -> Process \cup {Free, Dead}]
  <2>1. ASSUME NEW p \in Pid, step[p] = "wait" /\ Up(p)
        PROVE  [proc[p] EXCEPT !.late = TRUE] \in Process
    BY <2>1, UpIsProcess, Zenon DEF Process
  <2> QED
    BY <2>1, Zenon DEF Restart, TypeOK
<1>2. procs' \in [Pid -> ProcState] /\ alive' \in [Pid -> ProcState]
  BY NewStateType, Zenon DEF Restart
<1>3. /\ pids' \subseteq Pid /\ backoff' \subseteq Pid /\ polling' \in BOOLEAN
      /\ step' \in [Pid -> {"none", "inspect", "inject", "wait"}]
  BY DEF Restart, Resting
<1> QED
  BY <1>1, <1>2, <1>3 DEF TypeOK

LEMMA TypeStep ==
  ASSUME TypeOK, [Next]_vars
  PROVE  TypeOK'
<1>1. ASSUME NEW q \in Pid,
             \/ \E k \in Program : Start(q, k)
             \/ LoaderDone(q) \/ LoadGameModule(q) \/ Exit(q)
             \/ \E ok \in BOOLEAN : LateLoad(q, ok)
      PROVE  TypeOK'
  BY <1>1, SystemType, Zenon
<1>2. ASSUME NEW q \in Pid,
             \/ Inspect(q) \/ TimedOut(q)
             \/ \E ok \in BOOLEAN : CreateRemoteThread(q, ok) \/ Loaded(q, ok)
      PROVE  TypeOK'
  BY <1>2, ServiceType, Zenon
<1>3. ASSUME NEW q \in Pid, NEW ok \in BOOLEAN, Visit(q, ok)
      PROVE  TypeOK'
  <2>1. PICK new \in ProcState :
          /\ alive' = [alive EXCEPT ![q] = new]
          /\ step' = step \/ step' = [step EXCEPT ![q] = "inspect"]
    BY <1>3, VisitIs, Zenon
  <2>2. UNCHANGED <<proc, procs, backoff, polling>> /\ pids' \subseteq pids
    BY <1>3 DEF Visit, system
  <2>3. step' \in [Pid -> {"none", "inspect", "inject", "wait"}]
    BY <2>1 DEF TypeOK
  <2> QED
    BY <2>1, <2>2, <2>3, Zenon DEF TypeOK
<1>4. CASE \E q \in Pid : BackoffEnds(q)
  BY <1>4 DEF BackoffEnds, TypeOK, system
<1>5. CASE Swap
  BY <1>5 DEF Swap, NextStates, TypeOK, system
<1>6. CASE UNCHANGED vars
  BY <1>6 DEF vars, system, injector, TypeOK
<1> QED
  BY <1>1, <1>2, <1>3, <1>4, <1>5, <1>6, PollType, RestartType, Zenon DEF Next

\* Every variable keeps its type: the states filed under a pid are states, the steps are
\* steps, and the count of failed probes never passes kMaxProbeFails (Injector.cpp:243).
THEOREM TypeCorrect == Spec => []TypeOK
<1>1. Init => TypeOK
  BY InitType
<1>2. TypeOK /\ [Next]_vars => TypeOK'
  BY TypeStep
<1> QED
  BY <1>1, <1>2, PTL DEF Spec

-----------------------------------------------------------------------------
(* The invariant behind OnlyGames.  What the thread knows of a process is    *)
(* right while it is needed: the states of the last poll between two polls   *)
(* and for the pids still to be visited, those of this one during it.  It    *)
(* cannot be overtaken by another process on the pid, as a pid with a state  *)
(* is not free until the poll after the exit.                                *)

Game(p) ==
  /\ proc[p].program \in {"game", "regional"} /\ proc[p].loader
  /\ proc[p].program = "regional" => proc[p].module

Fits(st, p) ==
  Up(p) /\ st.isGame =>
    /\ proc[p].program # "other"
    /\ proc[p].program \in {"regional", "launcher"} => st.needGameModule

Modules(p) == Up(p) /\ proc[p].module => proc[p].program \in {"game", "regional"}
Unknown(p) ==
  /\ procs[p].isGame => procs[p].known
  /\ alive[p].isGame => alive[p].known
Current(p) ==
  /\ ~polling \/ p \in pids => Fits(procs[p], p)
  /\ polling => Fits(alive[p], p)
  /\ p \in pids => polling
Kept(p) ==
  /\ polling /\ (p \in pids \/ alive[p].known) => proc[p] # Free
  /\ ~polling /\ procs[p].known => proc[p] # Free
Serving(p) == step[p] # "none" => polling /\ alive[p].isGame
Ready(p) == step[p] \in {"inject", "wait"} /\ Up(p) => Game(p)
Hooked(p) == Up(p) /\ (proc[p].dll \/ proc[p].late) => Game(p)

PidInv(p) ==
  /\ Modules(p) /\ Unknown(p) /\ Current(p) /\ Kept(p)
  /\ Serving(p) /\ Ready(p) /\ Hooked(p)

IInv == TypeOK /\ \A p \in Pid : PidInv(p)

LEMMA InitInv == Init => IInv
<1> SUFFICES ASSUME Init, NEW p \in Pid PROVE PidInv(p)
  BY InitType, Zenon DEF IInv
<1>1. /\ proc[p] = Free /\ procs[p] = NoState /\ alive[p] = NoState
      /\ pids = {} /\ polling = FALSE /\ step[p] = "none"
  BY Zenon DEF Init, Resting
<1>2. ~Up(p)
  BY <1>1 DEF Up, Free
<1> QED
  BY <1>1, <1>2, NewStateType
  DEF PidInv, Modules, Unknown, Current, Kept, Serving, Ready, Hooked, Fits

\* A step that leaves alone what is known of a process
LEMMA SameInv ==
  ASSUME NEW p \in Pid, PidInv(p),
         proc'[p] = proc[p], procs'[p] = procs[p], step'[p] = step[p],
         alive'[p].known = alive[p].known, alive'[p].isGame = alive[p].isGame,
         alive'[p].needGameModule = alive[p].needGameModule,
         polling' = polling, p \in pids' <=> p \in pids
  PROVE  PidInv(p)'
BY Zenon DEF PidInv, Modules, Unknown, Current, Kept, Serving, Ready, Hooked, Fits, Up, Game

LEMMA SystemInv ==
  ASSUME IInv, ~QuickReuse, NEW q \in Pid, NEW p \in Pid,
         \/ \E k \in Program : Start(q, k)
         \/ LoaderDone(q) \/ LoadGameModule(q) \/ Exit(q)
         \/ \E ok \in BOOLEAN : LateLoad(q, ok)
  PROVE  PidInv(p)'
<1>1. TypeOK /\ PidInv(p) /\ PidInv(q)
  BY Zenon DEF IInv
<1>2. UNCHANGED injector
  BY Zenon DEF Start, LoaderDone, LoadGameModule, Exit, LateLoad
<1>3. CASE p # q
  <2>1. proc'[p] = proc[p]
    BY <1>1, <1>3 DEF Start, LoaderDone, LoadGameModule, Exit, LateLoad, TypeOK
  <2> QED
    BY <1>1, <1>2, <2>1, SameInv DEF injector
<1>4. CASE p = q
  <2>1. CASE \E k \in Program : Start(p, k)
    <3>1. PICK k \in Program : Start(p, k)
      BY <2>1
    <3>2. proc[p] = Free
      BY <3>1, Zenon DEF Start
    <3>3. ~procs[p].isGame \/ polling
      BY <1>1, <3>2 DEF PidInv, Kept, Unknown
    <3>4. polling => p \notin pids /\ ~alive[p].isGame
      BY <1>1, <3>2 DEF PidInv, Kept, Unknown
    <3>5. p \in pids => polling
      BY <1>1 DEF PidInv, Current
    <3>6. step[p] = "none"
      BY <1>1, <3>4 DEF PidInv, Serving
    <3>7. proc'[p] = [is |-> "up", program |-> k, loader |-> FALSE,
                      module |-> FALSE, dll |-> FALSE, late |-> FALSE]
      BY <1>1, <3>1, Zenon DEF Start, TypeOK
    <3>8. proc'[p] # Free /\ ~proc'[p].module /\ ~proc'[p].dll /\ ~proc'[p].late
      BY <3>7 DEF Free
    <3> QED
      BY <1>1, <1>2, <3>3, <3>4, <3>5, <3>6, <3>8
      DEF PidInv, Modules, Unknown, Current, Kept, Serving, Ready, Hooked, Fits, Up, injector
  <2>2. CASE LoaderDone(p)
    <3>1. proc[p] \in Process
      BY <1>1, <2>2, UpIsProcess, Zenon DEF LoaderDone
    <3>2. proc'[p] = [proc[p] EXCEPT !.loader = TRUE]
      BY <1>1, <2>2, Zenon DEF LoaderDone, TypeOK
    <3>3. /\ proc'[p].is = "up" /\ proc'[p].program = proc[p].program /\ proc'[p].loader
          /\ proc'[p].module = proc[p].module /\ proc'[p].dll = proc[p].dll
          /\ proc'[p].late = proc[p].late
      BY <3>1, <3>2 DEF Process
    <3> QED
      BY <1>1, <1>2, <2>2, <3>3
      DEF PidInv, Modules, Unknown, Current, Kept, Serving, Ready, Hooked, Fits, Up, Game,
          Free, LoaderDone, injector
  <2>3. CASE LoadGameModule(p)
    <3>1. proc[p] \in Process
      BY <1>1, <2>3, UpIsProcess, Zenon DEF LoadGameModule
    <3>2. proc'[p] = [proc[p] EXCEPT !.module = TRUE]
      BY <1>1, <2>3, Zenon DEF LoadGameModule, TypeOK
    <3>3. /\ proc'[p].is = "up" /\ proc'[p].program = proc[p].program /\ proc'[p].module
          /\ proc'[p].loader = proc[p].loader /\ proc'[p].dll = proc[p].dll
          /\ proc'[p].late = proc[p].late
      BY <3>1, <3>2 DEF Process
    <3> QED
      BY <1>1, <1>2, <2>3, <3>3
      DEF PidInv, Modules, Unknown, Current, Kept, Serving, Ready, Hooked, Fits, Up, Game,
          Free, LoadGameModule, injector
  <2>4. CASE Exit(p)
    <3>1. proc'[p] = Dead
      BY <1>1, <2>4, Zenon DEF Exit, TypeOK
    <3>2. ~Up(p)' /\ proc'[p] # Free /\ proc[p] # Free
      BY <2>4, <3>1 DEF Exit, Up, Dead, Free
    <3> QED
      BY <1>1, <1>2, <3>2
      DEF PidInv, Modules, Unknown, Current, Kept, Serving, Ready, Hooked, Fits, injector
  <2>5. CASE \E ok \in BOOLEAN : LateLoad(p, ok)
    <3>1. PICK ok \in BOOLEAN : LateLoad(p, ok)
      BY <2>5
    <3> DEFINE dll == proc[p].dll \/ ok
    <3>2. proc[p] \in Process
      BY <1>1, <3>1, UpIsProcess, Zenon DEF LateLoad
    <3>3. proc'[p] = [proc[p] EXCEPT !.late = FALSE, !.dll = dll]
      BY <1>1, <3>1, Zenon DEF LateLoad, TypeOK
    <3>4. Up(p) /\ proc[p].late
      BY <3>1, Zenon DEF LateLoad
    <3> HIDE DEF dll
    <3>5. /\ proc'[p].is = "up" /\ proc'[p].program = proc[p].program
          /\ proc'[p].module = proc[p].module /\ proc'[p].loader = proc[p].loader
      BY <3>2, <3>3 DEF Process
    <3> QED
      BY <1>1, <1>2, <3>4, <3>5
      DEF PidInv, Modules, Unknown, Current, Kept, Serving, Ready, Hooked, Fits, Up, Game,
          Free, injector
  <2> QED
    BY <1>4, <2>1, <2>2, <2>3, <2>4, <2>5
<1> QED
  BY <1>3, <1>4

LEMMA PollInv ==
  ASSUME IInv, NEW p \in Pid, Poll
  PROVE  PidInv(p)'
<1>1. TypeOK /\ PidInv(p)
  BY Zenon DEF IInv
<1>2. /\ ~polling /\ polling' /\ alive'[p] = NoState
      /\ UNCHANGED <<procs, step>>
  BY Zenon DEF Poll
<1>3. p \in pids' <=> Up(p)
  BY DEF Poll
<1>4. step[p] = "none"
  BY <1>1, <1>2 DEF PidInv, Serving
<1>5. CASE proc[p] = Dead
  <2>1. ~Up(p) /\ ~Up(p)'
    BY <1>5 DEF Up, Dead, Free, Poll
  <2> QED
    BY <1>1, <1>2, <1>3, <1>4, <2>1, NewStateType
    DEF PidInv, Modules, Unknown, Current, Kept, Serving, Ready, Hooked, Fits
<1>6. CASE proc[p] # Dead
  <2>1. proc'[p] = proc[p]
    BY <1>6, Zenon DEF Poll
  <2>2. Up(p) => proc[p] # Free
    BY DEF Up, Free
  <2> QED
    BY <1>1, <1>2, <1>3, <1>4, <2>1, <2>2, NewStateType
    DEF PidInv, Modules, Unknown, Current, Kept, Serving, Ready, Hooked, Fits, Up, Game
<1> QED
  BY <1>5, <1>6

LEMMA VisitInv ==
  ASSUME IInv, NEW q \in Pid, NEW ok \in BOOLEAN, Visit(q, ok), NEW p \in Pid
  PROVE  PidInv(p)'
<1>1. TypeOK /\ PidInv(p)
  BY Zenon DEF IInv
<1>2. UNCHANGED <<proc, procs, polling>> /\ pids' = pids \ {q} /\ q \in pids
  BY DEF Visit, system
<1>3. PICK new \in ProcState :
        /\ alive' = [alive EXCEPT ![q] = new] /\ new.known
        /\ step' = step \/ (step' = [step EXCEPT ![q] = "inspect"] /\ new.isGame)
        /\ new.isGame =>
             \/ new = procs[q]
             \/ Probe(q) = "Game"
             \/ Probe(q) = "Maybe" /\ new.needGameModule
  BY <1>1, VisitIs, Zenon
<1>4. CASE p # q
  <2>1. alive'[p] = alive[p] /\ step'[p] = step[p]
    BY <1>1, <1>3, <1>4 DEF TypeOK
  <2> QED
    BY <1>1, <1>2, <1>4, <2>1, SameInv
<1>5. CASE p = q
  <2>1. alive'[p] = new /\ step'[p] \in {step[p], "inspect"}
    BY <1>1, <1>3, <1>5 DEF TypeOK
  <2>2. step'[p] # "none" => new.isGame
    <3>1. step[p] = "none"
      BY <1>5 DEF Visit, Resting
    <3> QED
      BY <1>1, <1>3, <1>5, <3>1 DEF TypeOK
  <2>3. step'[p] \notin {"inject", "wait"}
    <3>1. step[p] = "none"
      BY <1>5 DEF Visit, Resting
    <3> QED
      BY <2>1, <3>1
  <2>4. polling /\ Fits(procs[p], p) /\ proc[p] # Free
    BY <1>1, <1>2, <1>5 DEF PidInv, Current, Kept
  <2>5. Fits(new, p)
    <3>1. CASE new = procs[q]
      BY <1>5, <2>4, <3>1
    <3>2. CASE Probe(q) = "Game"
      BY <1>5, <3>2 DEF Probe, Fits
    <3>3. CASE Probe(q) = "Maybe" /\ new.needGameModule
      BY <1>5, <3>3 DEF Probe, Fits
    <3>4. CASE ~new.isGame
      BY <3>4 DEF Fits
    <3> QED
      BY <1>3, <3>1, <3>2, <3>3, <3>4
  <2>6. Fits(alive[p], p)'
    BY <1>2, <2>1, <2>5 DEF Fits, Up
  <2> QED
    BY <1>1, <1>2, <1>3, <1>5, <2>1, <2>2, <2>3, <2>4, <2>6
    DEF PidInv, Modules, Unknown, Current, Kept, Serving, Ready, Hooked, Up, Game
<1> QED
  BY <1>4, <1>5

LEMMA SwapInv ==
  ASSUME IInv, NEW p \in Pid, Swap
  PROVE  PidInv(p)'
<1>1. PidInv(p)
  BY Zenon DEF IInv
<1>2. /\ polling /\ ~polling' /\ pids = {} /\ procs' = alive
      /\ UNCHANGED <<proc, alive, pids, step>>
  BY DEF Swap, NextStates, system
<1>3. step[p] = "none"
  BY Zenon DEF Swap, Resting
<1> QED
  BY <1>1, <1>2, <1>3
  DEF PidInv, Modules, Unknown, Current, Kept, Serving, Ready, Hooked, Fits, Up, Game

LEMMA RestartInv ==
  ASSUME IInv, NEW p \in Pid, Restart
  PROVE  PidInv(p)'
<1>1. TypeOK /\ PidInv(p)
  BY Zenon DEF IInv
<1>2. /\ procs'[p] = NoState /\ alive'[p] = NoState
      /\ pids' = {} /\ polling' = FALSE /\ step'[p] = "none"
  BY Zenon DEF Restart, Resting
<1>3. Modules(p)' /\ Hooked(p)'
  <2>1. CASE step[p] = "wait" /\ Up(p)
    <3>1. proc[p] \in Process
      BY <1>1, <2>1, UpIsProcess
    <3>2. proc'[p] = [proc[p] EXCEPT !.late = TRUE]
      BY <2>1, Zenon DEF Restart
    <3>3. /\ proc'[p].program = proc[p].program /\ proc'[p].loader = proc[p].loader
          /\ proc'[p].module = proc[p].module
      BY <3>1, <3>2 DEF Process
    <3> QED
      BY <1>1, <2>1, <3>3 DEF PidInv, Ready, Modules, Hooked, Game
  <2>2. CASE ~(step[p] = "wait" /\ Up(p))
    <3>1. proc'[p] = proc[p]
      BY <2>2, Zenon DEF Restart
    <3> QED
      BY <1>1, <3>1 DEF PidInv, Modules, Hooked, Up, Game
  <2> QED
    BY <2>1, <2>2
<1> QED
  BY <1>2, <1>3, NewStateType
  DEF PidInv, Unknown, Current, Kept, Serving, Ready, Fits

\* The hook only gets where InspectTarget has found the game.
LEMMA ServiceInv ==
  ASSUME IInv, NEW q \in Pid, NEW p \in Pid,
         \/ Inspect(q) \/ TimedOut(q)
         \/ \E ok \in BOOLEAN : CreateRemoteThread(q, ok) \/ Loaded(q, ok)
  PROVE  PidInv(p)'
<1>1. TypeOK /\ PidInv(p)
  BY Zenon DEF IInv
<1>2. /\ alive'[p].known = alive[p].known /\ alive'[p].isGame = alive[p].isGame
      /\ alive'[p].needGameModule = alive[p].needGameModule
      /\ UNCHANGED <<procs, pids, polling>>
  BY <1>1, ServiceIs, Zenon
<1>3. CASE p # q
  <2>1. step'[p] = step[p]
    <3>1. PICK to \in {"none", "inject", "wait"} : step' = [step EXCEPT ![q] = to]
      BY <1>1, ServiceIs, Zenon
    <3> QED
      BY <1>1, <1>3, <3>1 DEF TypeOK
  <2>2. proc'[p] = proc[p]
    BY <1>1, <1>3 DEF Inspect, TimedOut, CreateRemoteThread, Loaded, TypeOK, system
  <2> QED
    BY <1>1, <1>2, <2>1, <2>2, SameInv
<1>4. CASE p = q
  <2>1. step[p] # "none"
    BY <1>4, Zenon DEF Inspect, TimedOut, CreateRemoteThread, Loaded, Go
  <2>2. polling /\ alive[p].isGame /\ Fits(alive[p], p)
    BY <1>1, <2>1 DEF PidInv, Serving, Current
  <2>3. proc'[p].is = proc[p].is /\ (proc'[p] = Free <=> proc[p] = Free)
        /\ (Up(p) => /\ proc'[p].program = proc[p].program
                     /\ proc'[p].loader = proc[p].loader
                     /\ proc'[p].module = proc[p].module)
    <3>1. CASE proc' = proc
      BY <3>1
    <3>2. CASE Up(p) /\ proc' = [proc EXCEPT ![p].dll = TRUE]
      <4>1. proc[p] \in Process
        BY <1>1, <3>2, UpIsProcess
      <4>2. proc'[p] = [proc[p] EXCEPT !.dll = TRUE]
        BY <1>1, <3>2, Zenon DEF TypeOK
      <4> QED
        BY <4>1, <4>2 DEF Process, Free
    <3>3. CASE Up(p) /\ proc' = [proc EXCEPT ![p].late = TRUE]
      <4>1. proc[p] \in Process
        BY <1>1, <3>3, UpIsProcess
      <4>2. proc'[p] = [proc[p] EXCEPT !.late = TRUE]
        BY <1>1, <3>3, Zenon DEF TypeOK
      <4> QED
        BY <4>1, <4>2 DEF Process, Free
    <3> QED
      BY <1>4, <3>1, <3>2, <3>3, Zenon
      DEF Inspect, TimedOut, CreateRemoteThread, Loaded, system
  <2>4. Game(p) => Game(p)' \/ ~Up(p)
    BY <2>3 DEF Game
  <2>5. Ready(p)'
    <3>1. CASE Inspect(q)
      <4>1. step'[p] \in {"inject", "wait"} =>
              InspectTarget(p, alive[p].needGameModule) = "Ready"
        BY <1>1, <1>4, <3>1 DEF Inspect, Go, TypeOK
      <4>2. InspectTarget(p, alive[p].needGameModule) = "Ready" =>
              /\ Up(p) /\ proc[p].program # "wow64" /\ proc[p].loader
              /\ alive[p].needGameModule => proc[p].module
        BY DEF InspectTarget
      <4>3. Up(p) => proc[p].program \in {"game", "regional", "launcher", "wow64", "other"}
        BY <1>1, UpIsProcess, InjectorAssumption DEF Process
      <4>4. InspectTarget(p, alive[p].needGameModule) = "Ready" => Game(p)
        BY <1>1, <2>2, <4>2, <4>3 DEF PidInv, Modules, Fits, Game
      <4> QED
        BY <2>3, <2>4, <4>1, <4>4 DEF Ready, Up
    <3>2. CASE \E ok \in BOOLEAN : CreateRemoteThread(q, ok)
      <4>1. step[p] = "inject"
        BY <1>4, <3>2, Zenon DEF CreateRemoteThread, Go
      <4> QED
        BY <1>1, <2>3, <2>4, <4>1 DEF PidInv, Ready, Up
    <3>3. CASE TimedOut(q) \/ \E ok \in BOOLEAN : Loaded(q, ok)
      <4>1. step'[p] = "none"
        BY <1>1, <1>4, <3>3, Zenon DEF TimedOut, Loaded, Go, TypeOK
      <4> QED
        BY <4>1 DEF Ready
    <3> QED
      BY <3>1, <3>2, <3>3
  <2>6. Hooked(p)'
    <3>1. CASE proc' = proc
      BY <1>1, <3>1 DEF PidInv, Hooked, Up, Game
    <3>2. CASE step[p] = "wait"
      BY <1>1, <2>3, <2>4, <3>2 DEF PidInv, Ready, Hooked, Up
    <3> QED
      BY <1>4, <3>1, <3>2, Zenon DEF Inspect, CreateRemoteThread, TimedOut, Loaded, Go, system
  <2>7. Modules(p)'
    BY <1>1, <2>3 DEF PidInv, Modules, Up
  <2>8. Fits(procs[p], p) => Fits(procs[p], p)'
    BY <1>2, <2>3 DEF Fits, Up
  <2>9. Fits(alive[p], p)'
    BY <1>2, <2>2, <2>3 DEF Fits, Up
  <2> QED
    BY <1>1, <1>2, <2>2, <2>3, <2>5, <2>6, <2>7, <2>8, <2>9
    DEF PidInv, Unknown, Current, Kept, Serving
<1> QED
  BY <1>3, <1>4

LEMMA InvStep ==
  ASSUME IInv, ~QuickReuse, [Next]_vars
  PROVE  IInv'
<1> SUFFICES ASSUME NEW p \in Pid PROVE PidInv(p)'
  <2>1. TypeOK'
    BY TypeStep, Zenon DEF IInv
  <2> QED
    BY <2>1, Zenon DEF IInv
<1>1. ASSUME NEW q \in Pid,
             \/ \E k \in Program : Start(q, k)
             \/ LoaderDone(q) \/ LoadGameModule(q) \/ Exit(q)
             \/ \E ok \in BOOLEAN : LateLoad(q, ok)
      PROVE  PidInv(p)'
  BY <1>1, SystemInv, Zenon
<1>2. ASSUME NEW q \in Pid,
             \/ Inspect(q) \/ TimedOut(q)
             \/ \E ok \in BOOLEAN : CreateRemoteThread(q, ok) \/ Loaded(q, ok)
      PROVE  PidInv(p)'
  BY <1>2, ServiceInv, Zenon
<1>3. ASSUME NEW q \in Pid, NEW ok \in BOOLEAN, Visit(q, ok)
      PROVE  PidInv(p)'
  BY <1>3, VisitInv, Zenon
<1>4. CASE UNCHANGED <<proc, procs, alive, pids, polling, step>>
  BY <1>4, SameInv DEF IInv
<1>5. (\E q \in Pid : BackoffEnds(q)) \/ UNCHANGED vars =>
        UNCHANGED <<proc, procs, alive, pids, polling, step>>
  BY DEF BackoffEnds, vars, system, injector
<1> QED
  BY <1>1, <1>2, <1>3, <1>4, <1>5, PollInv, SwapInv, RestartInv, Zenon DEF Next

\* The hook is only ever in a 64-bit game, and in a program that merely shares the prefix
\* only once the game's module is there (Injector.cpp:27), as long as a pid is not given
\* out again within a poll: what is filed under it is then of the process it was taken from.
THEOREM OnlyGamesCorrect ==
  ASSUME ~QuickReuse
  PROVE  Spec => []OnlyGames
<1>1. Init => IInv
  BY InitInv
<1>2. IInv /\ [Next]_vars => IInv'
  BY InvStep
<1>3. IInv => OnlyGames
  BY DEF IInv, PidInv, Hooked, Game, OnlyGames
<1> QED
  BY <1>1, <1>2, <1>3, PTL DEF Spec
=============================================================================
