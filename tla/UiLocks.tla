------------------------------- MODULE UiLocks -------------------------------
(***************************************************************************)
(* The locks of the meter's two threads: the receiver, which handles a     *)
(* packet under the lock of the damage meter, and the UI, which draws and  *)
(* runs the commands.  They take HISTORY and DAMAGEMETER in both orders.   *)
(*                                                                         *)
(* A handler or a command is the sequence of its steps on locks and on     *)
(* what they guard: the members of the meter, with the plot of its run,    *)
(* and the vector of sessions.  Some of the UI uses these with no lock.    *)
(* Which one runs, and which way it takes, is chosen as it begins.  The    *)
(* locks are std::mutex: not recursive, and try_lock fails on an own lock. *)
(***************************************************************************)
EXTENDS Sequences, TLC

VARIABLES
  doing,  \* what each thread does
  left,   \* the steps it has left to do
  owner,  \* the thread that has a lock
  got     \* canLock of each thread

vars == <<doing, left, owner, got>>

Thread == {"receiver", "ui"}
Lock == {"DAMAGEMETER", "HISTORY", "COMBATMETER", "BUFFMETER", "UtillWindow"}
Nobody == "nobody"

Use(what) == <<[op |-> "use", on |-> what]>>
Ask == <<[op |-> "ask", on |-> "user"]>>
Locked(l, body) == <<[op |-> "lock", on |-> l]>> \o body \o <<[op |-> "unlock", on |-> l]>>

-----------------------------------------------------------------------------
(* The meter, on either thread *)

CombatMeter == Locked("COMBATMETER", <<>>)
ClearCombatTemp == Locked("UtillWindow", <<>>)
ClearInfo == Use("meter") \o CombatMeter \o CombatMeter \o ClearCombatTemp

\* Slips: the lock is waited for; it is freed by a thread that did not get it.
PushBackWaits == Locked("HISTORY", Use("list"))
PushBackFrees ==
  <<[op |-> "try", on |-> "HISTORY"]>> \o Use("list")
    \o <<[op |-> "unlock", on |-> "HISTORY"]>>

\* Without the lock it goes on all the same.
PushBack ==
  <<[op |-> "try", on |-> "HISTORY"]>> \o Use("list")
    \o <<[op |-> "unlock if", on |-> "HISTORY"]>>

\* A run that is filed, one in test mode or a session that is left, a run without rows
Clear ==
  {Use("meter") \o PushBack \o ClearInfo, Use("meter") \o ClearInfo, Use("meter") \o CombatMeter}

SetHistory == {c \o Use("list") \o Use("meter") \o CombatMeter : c \in Clear \cup {<<>>}}

\* Slip: the handler of an unknown packet returns with the lock.
HandlersReturn ==
  {Locked("DAMAGEMETER", h) : h \in Clear} \cup {<<[op |-> "lock", on |-> "DAMAGEMETER"]>>}

\* CreateSWPacket: packets that do nothing, feed the run, add a log or a buff, or end the run
Handlers ==
  {Locked("DAMAGEMETER", h) :
    h \in Clear \cup {<<>>, Use("meter"), Use("meter") \o CombatMeter,
                      Locked("BUFFMETER", Use("meter") \o CombatMeter)}}

-----------------------------------------------------------------------------
(* The UI, under the lock of the meter *)

HotKey == {Locked("DAMAGEMETER", c) : c \in Clear \cup {Use("meter")}}

\* The table with its menu and the windows of its players
PlayerTable ==
  {Locked("DAMAGEMETER", Use("meter") \o c) :
    c \in Clear \cup {Locked("BUFFMETER", Use("meter"))}
          \cup {Locked("HISTORY", Use("list") \o s) : s \in SetHistory \cup {<<>>}}}

ClearAll ==
  {Locked("HISTORY", Locked("DAMAGEMETER", Use("meter") \o Use("list") \o Ask \o c)) :
    c \in {<<>>} \cup {d \o Use("list") : d \in Clear}}

\* Slip: the meter is cleared under the lock of the history alone.
DeleteUnlocked == {Locked("HISTORY", Use("meter") \o c \o Use("list")) : c \in Clear}
DeleteSelected ==
  {Locked("HISTORY", Locked("DAMAGEMETER", Use("meter") \o c)) :
    c \in {<<>>} \cup {d \o Use("list") : d \in Clear}}

\* Save to a file, or load one: each session of it is added by push_back.
LoadFile ==
  {Locked("HISTORY", Locked("DAMAGEMETER", Use("meter") \o c)) :
    c \in {<<>>} \cup {d \o Use("list") \o p : d \in Clear, p \in {<<>>, PushBack}}}

ChangeLang == Locked("DAMAGEMETER", <<>>)

-----------------------------------------------------------------------------
(* The UI, without it *)

\* The save file is loaded once the receiver runs.
Startup == {<<>>, PushBack}

\* The buttons of the history tab, which look before they ask or lock
HistoryButtons == {Use("meter"), Use("meter") \o Use("list")}

RefreshHistoryList ==
  {Use("list") \o Locked("HISTORY", Use("list") \o Use("meter") \o Use("list"))}

\* The list is drawn, and one of it may be selected.
SelectInUtility ==
  {Use("meter")} \cup {Use("meter") \o c \o s : c \in Clear, s \in SetHistory}

\* World and monsters, hits with their log and rows, test mode: one call after the other
Helper == Use("meter") \o Use("meter") \o CombatMeter \o Use("meter") \o Use("meter")
SaveAndExit == Use("meter") \o Use("meter")
Options == {Use("meter") \o c : c \in {<<>>, Helper, SaveAndExit, ChangeLang}}

\* The plot of the run, and the monsters of its players
PlotWindow == {Use("meter") \o Use("meter")}

\* Names come from the meter: of the one selected, of all of them, of those in its logs.
CombatWindow ==
  {Locked("UtillWindow", CombatMeter \o Use("meter") \o c \o d) :
    c, d \in {<<>>, Locked("COMBATMETER", Use("meter"))}}

-----------------------------------------------------------------------------
Guarded ==
  [handler |-> Handlers, hotkey |-> HotKey, table |-> PlayerTable, clearall |-> ClearAll,
   delete |-> DeleteSelected, load |-> LoadFile]
Unguarded ==
  [buttons |-> HistoryButtons, refresh |-> RefreshHistoryList, select |-> SelectInUtility,
   options |-> Options, plot |-> PlotWindow, combat |-> CombatWindow]
Programs == Guarded @@ Unguarded
RunBy(t) == IF t = "receiver" THEN {"handler"} ELSE DOMAIN Programs \ {"handler"}

Init ==
  /\ doing = [t \in Thread |-> IF t = "ui" THEN "startup" ELSE "none"]
  /\ left \in [Thread -> Startup] /\ left["receiver"] = <<>>
  /\ owner = [l \in Lock |-> Nobody] /\ got = [t \in Thread |-> FALSE]

Begin(t) ==
  /\ left[t] = <<>>
  /\ \E name \in RunBy(t) :
       /\ doing' = [doing EXCEPT ![t] = name]
       /\ \E program \in Programs[name] : left' = [left EXCEPT ![t] = program]
  /\ UNCHANGED <<owner, got>>

Busy(t) == left[t] # <<>>
Now(t) == Head(left[t])
Waits(t) == Now(t).op = "lock" /\ owner[Now(t).on] # Nobody

\* What a step does to its lock
NewOwner(t, l) ==
  CASE Now(t).op = "lock" -> t
    [] Now(t).op = "try" -> IF owner[l] = Nobody THEN t ELSE owner[l]
    [] Now(t).op = "unlock" -> Nobody
    [] Now(t).op = "unlock if" -> IF got[t] THEN Nobody ELSE owner[l]

Step(t) ==
  /\ Busy(t) /\ ~Waits(t)
  /\ left' = [left EXCEPT ![t] = Tail(@)]
  /\ owner' = [l \in Lock |-> IF Now(t).on = l THEN NewOwner(t, l) ELSE owner[l]]
  /\ got' = [got EXCEPT ![t] = IF Now(t).op = "try" THEN owner[Now(t).on] = Nobody
                               ELSE @ /\ Now(t).op # "unlock if"]
  /\ UNCHANGED doing

Next == \E t \in Thread : Begin(t) \/ Step(t)

\* A thread that can go on does; a dialog is answered.
Spec == Init /\ [][Next]_vars /\ \A t \in Thread : WF_vars(Step(t))

-----------------------------------------------------------------------------
\* Each lock has one owner or none, and a thread that has nothing left to do keeps none.
TypeOK ==
  /\ doing \in [Thread -> DOMAIN Programs \cup {"none", "startup"}]
  /\ owner \in [Lock -> Thread \cup {Nobody}]
  /\ got \in [Thread -> BOOLEAN]
  /\ \A t \in Thread : Busy(t) \/ (~got[t] /\ \A l \in Lock : owner[l] # t)

\* A thread frees no lock that it does not have, though push_back is called with and
\* without the lock of the history (History.cpp:139-156).
FreesOwn ==
  \A t \in Thread :
    Busy(t) /\ (Now(t).op = "unlock" \/ (Now(t).op = "unlock if" /\ got[t]))
      => owner[Now(t).on] = t

\* Two threads at work are never both waiting, nor one for itself: as long as no new packet
\* comes, a command of the UI ends, and a handler while the UI rests; of two at work one ends.
\* The two orders of HISTORY and DAMAGEMETER rest on the try_lock of push_back.
Ends ==
  /\ \A t \in Thread : Busy(t) ~> ~Busy(t) \/ \E u \in Thread \ {t} : Busy(u)
  /\ (\A t \in Thread : Busy(t)) ~> (\E t \in Thread : ~Busy(t))

\* What takes the lock of the meter has the meter and the vector of sessions to itself, as
\* long as the UI is not in one of the places that use them without it: the load at the
\* start (main.cpp:66), the buttons, the refresh and the selection of the history tab
\* (UtillWindow.cpp:76, 143, 205), the options (Option.cpp:299, 455, 472), the plots
\* (PlotWindow.cpp:176, 386), and the names of the combat tab (CombatMeter.cpp:157).
OneAtATime ==
  doing["ui"] \in DOMAIN Guarded =>
    ~ /\ \A t \in Thread : Busy(t) /\ Now(t).op = "use"
      /\ Now("receiver").on = Now("ui").on
=============================================================================
