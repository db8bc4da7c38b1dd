---------------------------- MODULE HookCommand ----------------------------
(***************************************************************************)
(* Commands from the meter's hot keys to the game.  The UI thread puts     *)
(* them in a queue, the server thread of the meter writes them to a pipe   *)
(* with one client, and the command thread of the hook posts them to the   *)
(* game's window.  The pipe is outbound only: the meter learns that a game *)
(* is gone from a write that fails.                                        *)
(*                                                                         *)
(* External: the games start (already injected), show and recreate their   *)
(* windows and exit; the meter may be closed and started again.            *)
(***************************************************************************)
EXTENDS Naturals, Sequences, SequencesExt, FiniteSets

CONSTANTS
  Game,        \* processes of the game, each started once
  Op,          \* the hot keys: restart the maze, leave it
  kQueueSize,  \* one slot stays free
  PipeCap,     \* frames the pipe buffers
  MaxPressed,  \* bound on the keys pressed
  MaxFaults    \* bound on the restarts of the meter and windows recreated

ASSUME CommandAssumption ==
  /\ kQueueSize \in Nat \ {0, 1} /\ PipeCap \in Nat \ {0}
  /\ MaxPressed \in Nat /\ MaxFaults \in Nat

VARIABLES
  queue,      \* g_queue, from tail to head
  connected,  \* g_connected
  server,     \* where CommandServerThread is
  popped,     \* the command it has taken, as a sequence
  tested,     \* a command past the test in Send, before the lock
  peer,       \* the client of the pipe instance, as a sequence
  pipe,       \* what the instance buffers for each game that opened it
  game,       \* the processes, and where their CommandThread is
  window,     \* whether the game has a window, and whether g_hwnd is it
  senders,    \* g_fnRestart and g_fnExitMaze, or g_resolveFailed
  recent,     \* commands fired within the last kDebounceMs, by game
  ran,        \* commands each game ran
  pressed, faults

meter == <<queue, connected, server, popped, tested>>
hook == <<game, window, senders, recent, ran>>
vars == <<meter, peer, pipe, hook, pressed, faults>>

Ping == [op |-> "none", n |-> 0, to |-> <<>>]
\* A command is known by its number; `to' is the game on the pipe when it was queued.
Command == [op : Op, n : 1..MaxPressed, to : {<<>>} \cup {<<g>> : g \in Game}]

Alive(g) == game[g] \in {"init", "open", "read"}
Gone == peer # <<>> /\ game[peer[1]] = "gone"

Init ==
  /\ queue = <<>> /\ connected = FALSE /\ server = "create"
  /\ popped = <<>> /\ tested = <<>>
  /\ peer = <<>> /\ pipe = [g \in Game |-> <<>>]
  /\ game = [g \in Game |-> "later"]
  /\ window = [g \in Game |-> [shown |-> FALSE, hwnd |-> "none"]]
  /\ senders = [g \in Game |-> "unknown"]
  /\ recent = [g \in Game |-> {}]
  /\ ran = [g \in Game |-> <<>>]
  /\ pressed = 0 /\ faults = 0

-----------------------------------------------------------------------------
(* The UI thread *)

\* HookCommandSend, the test of the connection
Test(op) ==
  /\ tested = <<>> /\ pressed < MaxPressed /\ pressed' = pressed + 1
  /\ tested' = IF connected THEN <<[op |-> op, n |-> pressed + 1]>> ELSE <<>>
  /\ UNCHANGED <<queue, connected, server, popped, peer, pipe, hook, faults>>

\* Slip: the queue is filled to the last slot, where it looks empty.
FullLate == Len(queue) = kQueueSize
Full == Len(queue) = kQueueSize - 1

\* The rest, under the lock; a full queue refuses.
Push ==
  /\ tested # <<>> /\ tested' = <<>>
  /\ queue' = IF Full THEN queue
              ELSE Append(queue, [op |-> tested[1].op, n |-> tested[1].n, to |-> peer])
  /\ UNCHANGED <<connected, server, popped, peer, pipe, hook, pressed, faults>>

-----------------------------------------------------------------------------
(* CommandServerThread *)

CreateNamedPipe ==
  /\ server = "create" /\ server' = "listen"
  /\ UNCHANGED <<queue, connected, popped, tested, peer, pipe, hook, pressed, faults>>

\* ConnectNamedPipe.  A client that came and went before the call is an error.
Connect ==
  /\ server = "listen" /\ peer # <<>>
  /\ server' = "clear"
  /\ UNCHANGED <<queue, connected, popped, tested, peer, pipe, hook, pressed, faults>>

ConnectTooLate ==
  /\ server = "listen" /\ Gone
  /\ server' = "create" /\ peer' = <<>>
  /\ UNCHANGED <<queue, connected, popped, tested, pipe, hook, pressed, faults>>

\* Slip: what is queued stays.
Kept == queue
Cleared == <<>>

ClearQueue ==
  /\ server = "clear" /\ server' = "announce"
  /\ queue' = Cleared
  /\ UNCHANGED <<connected, popped, tested, peer, pipe, hook, pressed, faults>>

Announce ==
  /\ server = "announce" /\ server' = "serve" /\ connected' = TRUE
  /\ UNCHANGED <<queue, popped, tested, peer, pipe, hook, pressed, faults>>

PopCommand ==
  /\ server = "serve" /\ queue # <<>>
  /\ server' = "write" /\ popped' = <<Head(queue)>> /\ queue' = Tail(queue)
  /\ UNCHANGED <<connected, tested, peer, pipe, hook, pressed, faults>>

\* WriteFile fails when the client is gone, and waits for room before that.
WriteCommand(c) ==
  /\ Gone \/ Len(pipe[peer[1]]) < PipeCap
  /\ server' = IF Gone THEN "broken" ELSE "serve"
  /\ pipe' = IF Gone THEN pipe ELSE [pipe EXCEPT ![peer[1]] = Append(@, c)]

WritePopped ==
  /\ server = "write" /\ popped' = <<>>
  /\ WriteCommand(popped[1])
  /\ UNCHANGED <<queue, connected, tested, peer, hook, pressed, faults>>

\* Slip: no frame is written on an idle connection.
OnlyCommands == FALSE
KeepAliveDue == TRUE

\* kKeepAliveMs have passed, and the queue was found empty.
KeepAlive ==
  /\ server = "serve" /\ KeepAliveDue
  /\ WriteCommand(Ping)
  /\ UNCHANGED <<queue, connected, popped, tested, peer, hook, pressed, faults>>

Disconnected ==
  /\ server = "broken" /\ server' = "close" /\ connected' = FALSE
  /\ UNCHANGED <<queue, popped, tested, peer, pipe, hook, pressed, faults>>

DisconnectNamedPipe ==
  /\ server = "close" /\ server' = "create"
  /\ peer' = <<>>
  /\ UNCHANGED <<queue, connected, popped, tested, pipe, hook, pressed, faults>>

-----------------------------------------------------------------------------
(* The hook, in each game *)

StartGame(g) ==
  /\ game[g] = "later" /\ game' = [game EXCEPT ![g] = "init"]
  /\ UNCHANGED <<meter, peer, pipe, window, senders, recent, ran, pressed, faults>>

ExitGame(g) ==
  /\ Alive(g) /\ game' = [game EXCEPT ![g] = "gone"]
  /\ window' = [window EXCEPT ![g] = [shown |-> FALSE, hwnd |-> "none"]]
  /\ recent' = [recent EXCEPT ![g] = {}] /\ pipe' = [pipe EXCEPT ![g] = <<>>]
  /\ UNCHANGED <<meter, peer, senders, ran, pressed, faults>>

ShowWindow(g) ==
  /\ Alive(g) /\ ~window[g].shown
  /\ window' = [window EXCEPT ![g].shown = TRUE]
  /\ UNCHANGED <<meter, peer, pipe, game, senders, recent, ran, pressed, faults>>

DestroyWindow(g) ==
  /\ window[g].shown /\ faults < MaxFaults /\ faults' = faults + 1
  /\ window' = [window EXCEPT ![g] = [shown |-> FALSE,
                                      hwnd |-> IF @.hwnd = "none" THEN "none" ELSE "stale"]]
  /\ UNCHANGED <<meter, peer, pipe, game, senders, recent, ran, pressed>>

\* GameCmdInit: a window that is gone is looked for again, but only between connections.
\* The image is mapped by now, so senders that are not found in it are given up for good
\* (`resolves'); the window may not let itself be subclassed this time (`subclassed').
GameCmdInit(g, resolves, subclassed) ==
  LET armed == window[g].hwnd = "live"
      found == senders[g] = "found" \/ (senders[g] = "unknown" /\ resolves)
      opens == armed \/ (found /\ window[g].shown /\ subclassed)
  IN /\ game[g] = "init"
     /\ senders' = [senders EXCEPT ![g] = IF armed THEN @
                                          ELSE IF found THEN "found" ELSE "failed"]
     /\ window' = [window EXCEPT ![g].hwnd = IF opens THEN "live" ELSE "none"]
     /\ game' = [game EXCEPT ![g] = IF opens THEN "open" ELSE "init"]
     /\ UNCHANGED <<meter, peer, pipe, recent, ran, pressed, faults>>

\* CreateFile; without a free instance the thread starts over.
OpenPipe(g) ==
  /\ game[g] = "open"
  /\ IF server = "listen" /\ peer = <<>>
     THEN peer' = <<g>> /\ game' = [game EXCEPT ![g] = "read"]
     ELSE UNCHANGED peer /\ game' = [game EXCEPT ![g] = "init"]
  /\ UNCHANGED <<meter, pipe, window, senders, recent, ran, pressed, faults>>

\* GameCmdPost and, on the game's thread, RunCommand; `seen' is FALSE as long as
\* g_netMgr is not known, or when the window goes before its thread sees the message.
ReadCommand(g, seen) ==
  LET c == Head(pipe[g])
      posted == c # Ping /\ window[g].hwnd # "none" /\ c.op \notin recent[g]
      runs == posted /\ window[g].hwnd = "live" /\ seen
  IN /\ game[g] = "read" /\ pipe[g] # <<>>
     /\ c = Ping => seen
     /\ pipe' = [pipe EXCEPT ![g] = Tail(@)]
     /\ recent' = IF posted THEN [recent EXCEPT ![g] = @ \cup {c.op}] ELSE recent
     /\ ran' = IF runs THEN [ran EXCEPT ![g] = Append(@, c)] ELSE ran
     /\ UNCHANGED <<meter, peer, game, window, senders, pressed, faults>>

\* The read fails once the meter's end is closed, after what the pipe still held.
ReadFails(g) ==
  /\ game[g] = "read" /\ peer # <<g>> /\ pipe[g] = <<>>
  /\ game' = [game EXCEPT ![g] = "init"]
  /\ UNCHANGED <<meter, peer, pipe, window, senders, recent, ran, pressed, faults>>

\* kDebounceMs have passed.
Debounced(g, op) ==
  /\ op \in recent[g] /\ recent' = [recent EXCEPT ![g] = @ \ {op}]
  /\ UNCHANGED <<meter, peer, pipe, game, window, senders, ran, pressed, faults>>

\* The meter is closed and started again.
RestartMeter ==
  /\ faults < MaxFaults /\ faults' = faults + 1
  /\ queue' = <<>> /\ connected' = FALSE /\ server' = "create"
  /\ popped' = <<>> /\ tested' = <<>> /\ peer' = <<>>
  /\ UNCHANGED <<pipe, hook, pressed>>

Server ==
  \/ CreateNamedPipe \/ Connect \/ ConnectTooLate \/ ClearQueue \/ Announce
  \/ PopCommand \/ WritePopped \/ KeepAlive \/ Disconnected \/ DisconnectNamedPipe

CommandThread(g) ==
  \/ \E resolves \in BOOLEAN : GameCmdInit(g, resolves, TRUE)
  \/ OpenPipe(g) \/ ReadCommand(g, TRUE) \/ ReadFails(g)

Next ==
  \/ \E op \in Op : Test(op)
  \/ Push
  \/ Server
  \/ \E g \in Game :
       \/ StartGame(g) \/ ExitGame(g) \/ ShowWindow(g) \/ DestroyWindow(g)
       \/ CommandThread(g) \/ ReadCommand(g, FALSE)
       \/ \E resolves \in BOOLEAN : GameCmdInit(g, resolves, FALSE)
       \/ \E op \in Op : Debounced(g, op)
  \/ RestartMeter

\* Both threads run, and time passes for the keep-alive; a game shows a window, and one
\* of the calls to subclass it succeeds.
Fairness ==
  /\ WF_vars(Server) /\ WF_vars(KeepAlive)
  /\ \A g \in Game : WF_vars(CommandThread(g)) /\ WF_vars(ShowWindow(g))

Spec == Init /\ [][Next]_vars /\ Fairness

-----------------------------------------------------------------------------
\* A queue never holds more than kQueueSize - 1 commands, nor a pipe more than it buffers.
TypeOK ==
  /\ queue \in Seq(Command) /\ Len(queue) < kQueueSize
  /\ connected \in BOOLEAN
  /\ server \in {"create", "listen", "clear", "announce", "serve", "write", "broken", "close"}
  /\ popped \in Seq(Command) /\ (popped # <<>> <=> server = "write")
  /\ peer = <<>> \/ peer[1] \in Game
  /\ \A g \in Game :
       /\ pipe[g] \in Seq(Command \cup {Ping}) /\ Len(pipe[g]) <= PipeCap
       /\ game[g] \in {"later", "init", "open", "read", "gone"}
       /\ window[g].hwnd \in {"none", "live", "stale"}
       /\ senders[g] \in {"unknown", "found", "failed"}
       /\ recent[g] \subseteq Op /\ ran[g] \in Seq(Command)

\* A game runs no command that was queued for another game or for none: "Anything queued
\* while disconnected is stale by now." (HookCommand.cpp:100).  It runs each at most once
\* and in the order of the keys, over reconnections and restarts of the meter.
RunsFresh ==
  \A g \in Game : \A i \in DOMAIN ran[g] :
    /\ ran[g][i].to = <<g>>
    /\ \A j \in 1..i - 1 : ran[g][j].n < ran[g][i].n

\* A game that stays up gets the pipe, unless its senders cannot be found or another one
\* is up that can have it: the connection to a game that is gone is noticed without a key
\* being pressed (HookCommand.cpp:15), and one without senders is not in the way.
Reachable ==
  \A g \in Game :
    Alive(g) ~> \/ ~Alive(g) \/ senders[g] = "failed" \/ (connected /\ peer = <<g>>)
               \/ \E other \in Game \ {g} : Alive(other) /\ senders[other] # "failed"
=============================================================================
