------------------------------ MODULE Injector ------------------------------
(***************************************************************************)
(* The injector thread of the meter.  It polls the processes of the system *)
(* and loads the hook DLL into the game: at once where the program has a   *)
(* name of the game, and only after the game's module shows up where it    *)
(* merely shares the prefix, which launchers and patchers do too.  All it  *)
(* keeps of a process is filed under its pid, and every look at a process  *)
(* opens whatever has that pid by then.                                    *)
(*                                                                         *)
(* The system is external: programs start, load their modules and exit at  *)
(* any time, and a pid is given out again once its process has exited.     *)
(* With QuickReuse FALSE that takes longer than a poll.                    *)
(***************************************************************************)
EXTENDS Naturals, FiniteSets

CONSTANTS
  Pid,
  Program,       \* kinds of programs that are started
  kMaxProbeFails,
  QuickReuse,    \* may a pid be given out again within a poll?
  MaxStarts,     \* bound on the processes that start
  MaxFaults      \* bound on the calls that fail, LoadLibrary threads that hang, and
                 \* restarts of the meter

ASSUME InjectorAssumption ==
  /\ Program \subseteq {"game", "regional", "launcher", "wow64", "other"}
  /\ kMaxProbeFails \in Nat \ {0} /\ QuickReuse \in BOOLEAN
  /\ MaxStarts \in Nat /\ MaxFaults \in Nat

VARIABLES
  proc,     \* the processes, by pid
  procs,    \* the ProcStates of the last poll, by pid
  alive,    \* those of this one, the one in hand included
  pids,     \* pids of the snapshot still to be visited
  backoff,  \* pids whose nextAttemptTick is still to come
  polling,  \* FALSE between two polls
  step,     \* what the thread does with each process
  started, faults

system == <<proc, started>>
injector == <<procs, alive, pids, backoff, polling, step>>
vars == <<system, injector, faults>>

Free == [is |-> "free"]
Dead == [is |-> "dead"]
Process == [is : {"up"}, program : Program, loader : BOOLEAN, module : BOOLEAN,
            dll : BOOLEAN, late : BOOLEAN]

ProcState == [known : BOOLEAN, isGame : BOOLEAN, needGameModule : BOOLEAN,
              done : BOOLEAN, probeFails : 0..kMaxProbeFails]
NewState == [known |-> TRUE, isGame |-> FALSE, needGameModule |-> FALSE,
             done |-> FALSE, probeFails |-> 0]
NoState == [NewState EXCEPT !.known = FALSE]

Resting == [p \in Pid |-> "none"]
Up(p) == proc[p].is = "up"

Init ==
  /\ proc = [p \in Pid |-> Free] /\ started = 0
  /\ procs = [p \in Pid |-> NoState] /\ alive = procs
  /\ pids = {} /\ backoff = {} /\ polling = FALSE /\ step = Resting
  /\ faults = 0

-----------------------------------------------------------------------------
(* The system *)

Start(p, k) ==
  /\ started < MaxStarts /\ started' = started + 1
  /\ proc[p] = Free \/ (QuickReuse /\ proc[p] = Dead)
  /\ proc' = [proc EXCEPT ![p] = [is |-> "up", program |-> k, loader |-> FALSE,
                                  module |-> FALSE, dll |-> FALSE, late |-> FALSE]]
  /\ UNCHANGED <<injector, faults>>

\* ntdll ends its part of the start, and the process has a list of modules.
LoaderDone(p) ==
  /\ Up(p) /\ ~proc[p].loader
  /\ proc' = [proc EXCEPT ![p].loader = TRUE]
  /\ UNCHANGED <<started, injector, faults>>

\* SoulWorker64.dll
LoadGameModule(p) ==
  /\ Up(p) /\ proc[p].loader /\ ~proc[p].module
  /\ proc[p].program \in {"game", "regional"}
  /\ proc' = [proc EXCEPT ![p].module = TRUE]
  /\ UNCHANGED <<started, injector, faults>>

Exit(p) ==
  /\ Up(p)
  /\ proc' = [proc EXCEPT ![p] = Dead]
  /\ UNCHANGED <<started, injector, faults>>

\* A LoadLibrary thread nobody waits for any more ends.
LateLoad(p, ok) ==
  /\ Up(p) /\ proc[p].late
  /\ proc' = [proc EXCEPT ![p].late = FALSE, ![p].dll = @ \/ ok]
  /\ UNCHANGED <<started, injector, faults>>

Fault == faults < MaxFaults /\ faults' = faults + 1

-----------------------------------------------------------------------------
(* The poll *)

\* EnumProcesses
Poll ==
  /\ ~polling /\ polling' = TRUE
  /\ pids' = {p \in Pid : Up(p)}
  /\ alive' = [p \in Pid |-> NoState]
  /\ proc' = [p \in Pid |-> IF proc[p] = Dead THEN Free ELSE proc[p]]
  /\ UNCHANGED <<started, procs, backoff, step, faults>>

\* ClassifyExe of the name the process has
Probe(p) ==
  CASE ~Up(p) -> "Unknown"
    [] Up(p) /\ proc[p].program \in {"game", "wow64"} -> "Game"
    [] Up(p) /\ proc[p].program \in {"regional", "launcher"} -> "Maybe"
    [] OTHER -> "NotGame"

\* The state after the probe
Probed(st, probe) ==
  CASE probe \in {"Game", "Maybe"} ->
         [st EXCEPT !.isGame = TRUE, !.needGameModule = (probe = "Maybe"), !.probeFails = 0]
    [] probe = "NotGame" -> [st EXCEPT !.isGame = FALSE, !.probeFails = kMaxProbeFails]
    [] OTHER -> [st EXCEPT !.probeFails = @ + 1]

\* Slips: a process that could not be probed is not probed again, or once too often.
ToProbeOnce(p) == ~procs[p].known
ToProbeOver(p) ==
  ~procs[p].known \/ (~procs[p].isGame /\ procs[p].probeFails \in 1..kMaxProbeFails)

ToProbe(p) ==
  ~procs[p].known \/ (~procs[p].isGame /\ procs[p].probeFails \in 1..kMaxProbeFails - 1)

\* One pid of the snapshot; `ok' is FALSE when the process cannot be opened.
Visit(p, ok) ==
  LET st == IF procs[p].known THEN procs[p] ELSE NewState
      new == IF ToProbe(p) THEN Probed(st, IF ok THEN Probe(p) ELSE "Unknown") ELSE st
      serve == new.isGame /\ ~new.done /\ p \notin backoff
  IN /\ p \in pids /\ step = Resting
     /\ IF ok THEN UNCHANGED faults ELSE ToProbe(p) /\ Up(p) /\ Fault
     /\ pids' = pids \ {p}
     /\ alive' = [alive EXCEPT ![p] = new]
     /\ step' = IF serve THEN [step EXCEPT ![p] = "inspect"] ELSE step
     /\ UNCHANGED <<system, procs, backoff, polling>>

InspectTarget(p, needGameModule) ==
  IF ~Up(p) THEN "NotReady"
  ELSE IF proc[p].program = "wow64" THEN "WrongArch"
  ELSE IF proc[p].dll THEN "AlreadyHooked"
  ELSE IF proc[p].loader /\ (needGameModule => proc[p].module) THEN "Ready"
  ELSE "NotReady"

Go(p, from, to) == step[p] = from /\ step' = [step EXCEPT ![p] = to]
Succeeded(p) == alive' = [alive EXCEPT ![p].done = TRUE] /\ UNCHANGED backoff
Failed(p) == backoff' = backoff \cup {p} /\ UNCHANGED alive

\* ServiceGameProcess up to the injection; a snapshot of modules may fail, as NotReady.
Inspect(p) ==
  LET target == InspectTarget(p, alive[p].needGameModule)
  IN /\ Go(p, "inspect", IF target = "Ready" THEN "inject" ELSE "none")
     /\ alive' = [alive EXCEPT ![p].done = target \in {"WrongArch", "AlreadyHooked"}]
     /\ UNCHANGED <<system, procs, pids, backoff, polling, faults>>

\* InjectInto up to the thread it starts in the process; any of its calls may fail.
CreateRemoteThread(p, ok) ==
  /\ Go(p, "inject", IF ok THEN "wait" ELSE "none")
  /\ IF ok THEN Up(p) /\ UNCHANGED <<alive, backoff>> ELSE Failed(p)
  /\ IF ~ok /\ Up(p) THEN Fault ELSE UNCHANGED faults
  /\ UNCHANGED <<system, procs, pids, polling>>

\* LoadLibraryW ends within the five seconds.  In a process that is gone the thread ended
\* with the exit code of the process, which the injector takes for the module.
Loaded(p, ok) ==
  /\ Go(p, "wait", "none")
  /\ IF Up(p) /\ ~ok THEN Fault ELSE UNCHANGED faults
  /\ proc' = IF Up(p) /\ ok THEN [proc EXCEPT ![p].dll = TRUE] ELSE proc
  /\ IF ok THEN Succeeded(p) ELSE Failed(p)
  /\ UNCHANGED <<started, procs, pids, polling>>

\* It does not, and goes on without the injector.
TimedOut(p) ==
  /\ Up(p) /\ Fault
  /\ Go(p, "wait", "none")
  /\ proc' = [proc EXCEPT ![p].late = TRUE]
  /\ Failed(p)
  /\ UNCHANGED <<started, procs, pids, polling>>

\* BackoffMs has passed.
BackoffEnds(p) ==
  /\ p \in backoff /\ backoff' = backoff \ {p}
  /\ UNCHANGED <<system, procs, alive, pids, polling, step, faults>>

\* Slip: the states of processes that are gone are kept.
KeptStates == [p \in Pid |-> IF alive[p].known THEN alive[p] ELSE procs[p]]
NextStates == alive

\* The poll is over.
Swap ==
  /\ polling /\ pids = {} /\ step = Resting
  /\ polling' = FALSE
  /\ procs' = NextStates
  /\ backoff' = {p \in backoff : alive[p].known}
  /\ UNCHANGED <<system, alive, pids, step, faults>>

\* The meter is closed and started again.
Restart ==
  /\ Fault
  /\ proc' = [p \in Pid |-> IF step[p] = "wait" /\ Up(p) THEN [proc[p] EXCEPT !.late = TRUE]
                            ELSE proc[p]]
  /\ procs' = [p \in Pid |-> NoState] /\ alive' = procs'
  /\ pids' = {} /\ backoff' = {} /\ polling' = FALSE /\ step' = Resting
  /\ UNCHANGED started

Thread ==
  \/ Poll
  \/ \E p \in Pid :
       \/ Visit(p, TRUE)
       \/ Inspect(p)
       \/ CreateRemoteThread(p, Up(p))
       \/ Loaded(p, TRUE)
  \/ Swap

Next ==
  \/ \E p \in Pid :
       \/ \E k \in Program : Start(p, k)
       \/ LoaderDone(p)
       \/ LoadGameModule(p)
       \/ Exit(p)
       \/ BackoffEnds(p)
       \/ Inspect(p)
       \/ TimedOut(p)
       \/ \E ok \in BOOLEAN :
            LateLoad(p, ok) \/ Visit(p, ok) \/ CreateRemoteThread(p, ok) \/ Loaded(p, ok)
  \/ Poll
  \/ Swap
  \/ Restart

\* The injector's thread keeps running, processes get on with their start, and time passes.
Fairness ==
  /\ WF_vars(Thread)
  /\ \A p \in Pid : WF_vars(LoaderDone(p)) /\ WF_vars(LoadGameModule(p)) /\ WF_vars(BackoffEnds(p))

Spec == Init /\ [][Next]_vars /\ Fairness

-----------------------------------------------------------------------------
TypeOK ==
  /\ proc \in [Pid -> Process \cup {Free, Dead}]
  /\ procs \in [Pid -> ProcState]
  /\ alive \in [Pid -> ProcState]
  /\ pids \subseteq Pid /\ backoff \subseteq Pid
  /\ polling \in BOOLEAN /\ step \in [Pid -> {"none", "inspect", "inject", "wait"}]

\* The hook is only ever in a 64-bit game, and in a program that merely shares the prefix
\* only once the game's module is there: "a launcher or patcher sharing the prefix must
\* not get the file-IO hooks" (Injector.cpp:27).  Every look at a process opens the pid
\* anew, so this rests on the states being dropped with their processes.
OnlyGames ==
  \A p \in Pid : Up(p) /\ (proc[p].dll \/ proc[p].late) =>
    /\ proc[p].program \in {"game", "regional"} /\ proc[p].loader
    /\ proc[p].program = "regional" => proc[p].module

\* A game that stays up gets the hook, whatever failed or timed out before and whatever
\* the pid belonged to, unless the pid is given up as no game's: its name could not be read
\* kMaxProbeFails times in a row.  (A verdict that it is none looks the same to the code.)
Unreadable(p) == procs[p].known /\ procs[p].probeFails = kMaxProbeFails
GamesHooked ==
  \A p \in Pid :
    (Up(p) /\ proc[p].program \in {"game", "regional"})
      ~> (~Up(p) \/ proc[p].dll \/ Unreadable(p))
=============================================================================
