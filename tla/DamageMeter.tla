---------------------------- MODULE DamageMeter ----------------------------
(***************************************************************************)
(* The combat session of the meter process: SWDamageMeter with the history *)
(* it files finished runs in, and the COMBATMETER, BUFFMETER and           *)
(* PLOTWINDOW singletons that either record the live run or show a filed   *)
(* one.                                                                    *)
(*                                                                         *)
(* Packet handlers (pipe receiver thread) run under the DAMAGEMETER lock,  *)
(* and so do most of the user's commands (UI thread).  A selection in the  *)
(* history tab (UtillWindow.cpp:207) and the test values and save and exit *)
(* of the options (Option.cpp:299, 470) run without it; UiLocks has what   *)
(* then comes in between, and here they are one step like every handler.   *)
(* A handler is a chain of member calls: every call is an operator from    *)
(* the state it finds to the state it leaves, and the action composes them *)
(* in the order of the code.                                               *)
(*                                                                         *)
(* Operators marked "Slip" are not the code: each is a definition with one *)
(* plausible mistake, which a property must notice.                        *)
(*                                                                         *)
(* Left out because nothing here depends on it: amounts of damage, skill   *)
(* and buff contents, names, times (a run's time is only tested for being  *)
(* zero in the millisecond it starts, when a packet is dropped).           *)
(***************************************************************************)
EXTENDS Integers, Sequences, SequencesExt

CONSTANTS
  Player,          \* ids CheckPlayer accepts
  Monster,         \* monster species (DB2 ids), one individual of each
  World,           \* world ids
  NoWorld,         \* world id 0: the meter does not know where it is
  MyRoom,          \* world 20011, the placeholder of the test values
  TownWorlds, RankWorlds, LunarFall,
  StrictList,      \* StrictModeList: world -> the monsters that count there
  LunarBosses, Queen,
  ResumeIgnore, GodMode, RaidBosses, EndIds, PauseIds,
  KillPause,       \* <<world, monster>> whose death pauses the run
  TestMonster,     \* stands for the four species of the test values
  HistorySize,
  SessionId,       \* addresses of HISTORY_INFO objects
  CombatId,        \* addresses of CombatInterface objects
  Settings         \* the option values the user may have chosen

Nil == 0

ASSUME SizeAssumption == HistorySize \in Nat \ {0}
ASSUME PoolAssumption == SessionId \subseteq Nat \ {Nil} /\ CombatId \subseteq Nat \ {Nil}
ASSUME WorldAssumption == {NoWorld, MyRoom, LunarFall} \subseteq World
ASSUME MonsterAssumption == TestMonster \in Monster /\ Queen \in Monster
ASSUME StrictAssumption == DOMAIN StrictList \subseteq World
ASSUME SettingsAssumption ==
  Settings \subseteq [soloRank : BOOLEAN, dontSave : BOOLEAN, teamTALF : 0..2]

VARIABLE meter

Session == [id : SessionId, world : World, combat : CombatId \cup {Nil}]
NoSession == [id |-> Nil, world |-> NoWorld, combat |-> Nil]

\* players, damage, db : _playerInfo, its _monsterInfo rows, _dbInfo
\* historyMode, hi, selected : _historyMode, _historyHI, _currentHistoryId >= 0
\* history, curIndex : HISTORY._historys, ._curIndex (only compared with the size)
\* ci, ciHistory, heap : COMBATMETER._ci, ._historyMode, the live CombatInterfaces
\* plot, plotEnd, buff : whose data PLOTWINDOW and BUFFMETER hold (Nil: the live
\*   run's, else a session's, which is their _historyMode), PLOTWINDOW._end
Init ==
  meter = [timer |-> "end", worldID |-> NoWorld, mazeEnd |-> FALSE, testMode |-> FALSE,
           players |-> {}, damage |-> {}, db |-> {},
           historyMode |-> FALSE, hi |-> NoSession, selected |-> FALSE,
           history |-> <<>>, curIndex |-> 0,
           ci |-> Nil, ciHistory |-> FALSE, heap |-> {},
           plot |-> Nil, plotEnd |-> FALSE, buff |-> Nil]

-----------------------------------------------------------------------------
(* Timer and views *)

isRun(s) == s.timer = "run"
GetWorldID(s) == IF s.historyMode THEN s.hi.world ELSE s.worldID
isTownMap(s) == s.worldID \in TownWorlds

\* An allocation takes the lowest free address: freed ones are used again.
Fresh(pool, used) == {a \in pool \ used : \A b \in pool \ used : a <= b}
FreshSession == Fresh(SessionId, {h.id : h \in ToSet(meter.history)})
FreshCombat == Fresh(CombatId, meter.heap)

(* COMBATMETER *)

\* The first log of a run allocates the CombatInterface it goes into.
CombatInsert(s, c) ==
  IF s.ciHistory \/ isTownMap(s) \/ s.ci # Nil THEN s
  ELSE [s EXCEPT !.ci = c, !.heap = @ \cup {c}]

CombatSet(s, ci) ==
  [s EXCEPT !.heap = IF s.ciHistory THEN @ ELSE @ \ {s.ci},
            !.ci = ci, !.ciHistory = TRUE]

CombatClear(s, realClear) ==
  [s EXCEPT !.heap = IF realClear /\ ~s.ciHistory THEN @ \ {s.ci} ELSE @,
            !.ci = Nil, !.ciHistory = FALSE]

(* HISTORY *)

\* _HISTORYINFO::Clear and the delete after it: the session's objects go too.
FreeSession(s, h) == [s EXCEPT !.heap = @ \ {h.combat}]

ClearHistory(s, h) ==
  LET itr == CHOOSE i \in DOMAIN s.history : s.history[i] = h
  IN IF s.history = <<>> THEN s
     ELSE IF h \notin ToSet(s.history) THEN FreeSession(s, h)
     ELSE FreeSession([s EXCEPT !.history = RemoveAt(@, itr)], h)

\* Slip: the size test is off by one.
PushBackLate(s, h) ==
  LET t == IF s.curIndex > HistorySize /\ s.history # <<>>
           THEN ClearHistory(s, Head(s.history)) ELSE s
  IN [t EXCEPT !.history = Append(@, h),
               !.curIndex = IF @ < HistorySize THEN @ + 1 ELSE @]

PushBack(s, h) ==
  LET t == IF s.curIndex >= HistorySize /\ s.history # <<>>
           THEN ClearHistory(s, Head(s.history)) ELSE s
  IN [t EXCEPT !.history = Append(@, h),
               !.curIndex = IF @ < HistorySize THEN @ + 1 ELSE @]

ClearVector(s) ==
  [s EXCEPT !.heap = @ \ {h.combat : h \in ToSet(s.history)},
            !.history = <<>>, !.curIndex = 0]

-----------------------------------------------------------------------------
(* SWDamageMeter's members *)

ClearInfo(s, clear) ==
  LET t == CombatClear(s, FALSE)
  IN [t EXCEPT !.players = IF s.historyMode THEN @ ELSE {},
               !.damage = IF s.historyMode THEN @ ELSE {},
               !.db = IF clear THEN {} ELSE @,
               !.plot = Nil, !.plotEnd = FALSE, !.buff = Nil,
               !.hi = NoSession, !.selected = FALSE]

\* Restore and the reset of _historyMode its three callers do after it.
LeaveHistory(s) ==
  IF s.historyMode THEN [ClearInfo(s, FALSE) EXCEPT !.historyMode = FALSE] ELSE s

\* Slip: the plot is not told.
StartNoPlot(s) == [LeaveHistory(s) EXCEPT !.timer = "run"]

Start(s) ==
  [LeaveHistory(s) EXCEPT !.timer = "run", !.plotEnd = FALSE]

Suspend(s) ==
  [LeaveHistory(s) EXCEPT !.timer = IF @ = "run" THEN "suspend" ELSE @,
                          !.plotEnd = TRUE]

SetMazeState(s, end) ==
  [s EXCEPT !.mazeEnd = end, !.plotEnd = end \/ @]

\* What Clear does with a live run that has rows: file it under the fresh id n,
\* or drop it in test mode, when only the rows and the log go.
EndRun(s, n, o) ==
  IF s.testMode
  THEN FreeSession(ClearInfo(s, FALSE), [NoSession EXCEPT !.combat = s.ci])
  ELSE LET run == [id |-> n, world |-> s.worldID, combat |-> s.ci]
           keepDB == o.teamTALF # 0 /\ s.worldID = LunarFall
       IN ClearInfo(PushBack(s, run), ~keepDB)

\* Slip: without rows, the combat log is dropped but not deleted.
ClearKeepsLog(s, n, o) ==
  LET t == IF s.historyMode THEN LeaveHistory(s)
           ELSE [(IF s.players # {} THEN EndRun(s, n, o) ELSE CombatClear(s, FALSE))
                 EXCEPT !.mazeEnd = FALSE]
  IN [t EXCEPT !.testMode = FALSE, !.timer = "end"]

Clear(s, n, o) ==
  LET t == IF s.historyMode THEN LeaveHistory(s)
           ELSE [(IF s.players # {} THEN EndRun(s, n, o) ELSE CombatClear(s, TRUE))
                 EXCEPT !.mazeEnd = FALSE]
  IN [t EXCEPT !.testMode = FALSE, !.timer = "end"]

\* Slip: a live run is not cleared before a session is shown.
SetHistoryOver(s, h, n, o) ==
  IF h \notin ToSet(s.history) THEN s
  ELSE [CombatSet(s, h.combat) EXCEPT !.buff = h.id, !.plot = h.id, !.plotEnd = TRUE,
                                      !.hi = h, !.historyMode = TRUE]

SetHistory(s, h, n, o) ==
  LET t == IF s.historyMode THEN s ELSE Clear(s, n, o)
  IN IF h \notin ToSet(t.history) THEN t
     ELSE [CombatSet(t, h.combat) EXCEPT !.buff = h.id, !.plot = h.id, !.plotEnd = TRUE,
                                         !.hi = h, !.historyMode = TRUE]

\* Slip: player and monster are swapped in the row.
InsertPlayerInfoSwapped(s, p, m) ==
  [s EXCEPT !.players = @ \cup {p}, !.damage = @ \cup {<<m, p>>}]

\* InsertPlayerInfo with SWDamagePlayer::AddDamage: in a strict world only the
\* listed monsters get a row under the player.
InsertPlayerInfo(s, p, m) ==
  LET w == GetWorldID(s)
      counts == m \in s.db /\ (w \in DOMAIN StrictList => m \in StrictList[w])
  IN [s EXCEPT !.players = @ \cup {p},
               !.damage = IF counts THEN @ \cup {<<p, m>>} ELSE @]

\* Slip: only a hit that hurts starts the timer, any hit makes a row.
AddDamageUntimed(s, p, m, hurts, c) ==
  IF s.mazeEnd \/ GetWorldID(s) = NoWorld THEN s
  ELSE InsertPlayerInfo(IF hurts THEN Start(CombatInsert(s, c)) ELSE LeaveHistory(s), p, m)

AddDamage(s, p, m, hurts, c) ==
  LET w == GetWorldID(s)
      isListMap == w \in DOMAIN StrictList
      isListBoss == isListMap /\ m \in StrictList[w]
      mayStart == m \notin ResumeIgnore /\ (isListMap => isListBoss)
  IN IF s.mazeEnd \/ w = NoWorld \/ (~isRun(s) /\ ~mayStart) THEN s
     ELSE IF ~hurts /\ w \notin RankWorlds
             /\ (isListBoss \/ m \in RaidBosses \cup GodMode) THEN Suspend(s)
     ELSE InsertPlayerInfo(Start(IF hurts THEN CombatInsert(s, c) ELSE s), p, m)

\* The part of SWPacketDamage::Do for a monster whose remaining HP is zero.
Killed(s, m, n, o) ==
  LET isEndId == m \in EndIds \cup RaidBosses
      newPart == /\ o.teamTALF # 0 /\ GetWorldID(s) = LunarFall /\ m \in LunarBosses
                 /\ o.teamTALF = 2 => m = Queen
      t == IF newPart THEN SetMazeState(Clear(s, n, o), isEndId) ELSE s
  IN IF m \in PauseIds THEN Suspend(t)
     ELSE IF isEndId THEN Suspend(SetMazeState(t, TRUE))
     ELSE t

-----------------------------------------------------------------------------
(* Packets, handled under the DAMAGEMETER lock *)

\* A packet with several hits is several steps; a player hits known monsters only.
DamagePacket ==
  \E p \in Player, m \in meter.db, hurts, dead \in BOOLEAN, o \in Settings,
     n \in FreshSession, c \in FreshCombat :
    LET s == AddDamage(meter, p, m, hurts, c)
        rankMode == o.soloRank /\ GetWorldID(s) \in RankWorlds
    IN meter' = IF dead /\ ~rankMode THEN Killed(s, m, n, o) ELSE s

\* AttackOfMonster and AddPlayerGetDamage
TakeDamagePacket ==
  /\ isRun(meter)
  /\ \E p \in Player, c \in FreshCombat :
       meter' = [CombatInsert(meter, c) EXCEPT !.players = @ \cup {p}]

\* AddEnlighten, AddBroochProc, AddSkillUsed, AddDodgeUsed, AddDeath
PlayerEventPacket ==
  /\ isRun(meter)
  /\ \E p \in Player : meter' = [meter EXCEPT !.players = @ \cup {p}]

\* A packet that only writes to the combat log (skills, stats, buffs, animations)
CombatLogPacket ==
  \E c \in FreshCombat : meter' = CombatInsert(meter, c)

\* A monster comes into sight, with or without stats to log.
InInfoMonsterPacket ==
  \E m \in Monster, c \in FreshCombat, stats \in BOOLEAN :
    meter' = [(IF stats THEN CombatInsert(meter, c) ELSE meter)
              EXCEPT !.db = @ \cup {m}]

MazeStartPacket == meter' = SetMazeState(meter, FALSE)

MazeEndPacket == meter' = Suspend(SetMazeState(meter, TRUE))

MazeUpdateState(start) ==
  \E o \in Settings :
    /\ o.soloRank /\ GetWorldID(meter) \in RankWorlds
    /\ meter' =
         IF start
         THEN Start(SetMazeState([meter EXCEPT !.testMode = o.dontSave \/ @], FALSE))
         ELSE Suspend(SetMazeState([meter EXCEPT !.testMode = FALSE], TRUE))

\* Slip: the new world is set before the run of the old one is filed.
WorldChangeEarly ==
  \E w \in World \ {NoWorld}, n \in FreshSession, o \in Settings :
    meter' = SetMazeState(Clear([meter EXCEPT !.worldID = w], n, o), FALSE)

WorldChangePacket ==
  \E w \in World \ {NoWorld}, n \in FreshSession, o \in Settings :
    meter' = SetMazeState([Clear(meter, n, o) EXCEPT !.worldID = w], FALSE)

PresencePacket ==
  \E w \in World \ {NoWorld} : meter' = [meter EXCEPT !.worldID = w]

MonsterKilledPacket ==
  /\ isRun(meter)
  /\ \E m \in meter.db, c \in FreshCombat :
       LET s == CombatInsert(meter, c)
       IN meter' = IF <<GetWorldID(meter), m>> \in KillPause THEN Suspend(s) ELSE s

-----------------------------------------------------------------------------
(* User commands *)

Reset ==
  \E n \in FreshSession, o \in Settings : meter' = Clear(meter, n, o)

Toggle == meter' = IF isRun(meter) THEN Suspend(meter) ELSE Start(meter)

\* The meter's history menu
SelectInMenu ==
  /\ ~isRun(meter)
  /\ \E h \in ToSet(meter.history), n \in FreshSession, o \in Settings :
       meter' = SetHistory([meter EXCEPT !.selected = TRUE], h, n, o)

\* The history tab of the utility window
SelectInUtility ==
  /\ ~isRun(meter)
  /\ \E h \in ToSet(meter.history), n \in FreshSession, o \in Settings :
       meter' = SetHistory([Clear(meter, n, o) EXCEPT !.selected = TRUE], h, n, o)

\* The tab rebuilds its list when sessions came or went.
RefreshHistoryList == meter' = [meter EXCEPT !.selected = FALSE]

\* Slip: the session is deleted while it is on screen.
DeleteShown ==
  /\ ~isRun(meter) /\ meter.historyMode /\ meter.selected
  /\ meter' = ClearHistory(meter, meter.hi)

DeleteSelected ==
  /\ ~isRun(meter) /\ meter.historyMode /\ meter.selected
  /\ \E n \in FreshSession, o \in Settings :
       meter' = ClearHistory(Clear(meter, n, o), meter.hi)

ClearAll ==
  /\ ~isRun(meter) /\ meter.history # <<>>
  /\ \E n \in FreshSession, o \in Settings : meter' = ClearVector(Clear(meter, n, o))

\* "Add test values": damage of made-up players to made-up monsters, test mode
Helper ==
  \E p \in Player, c \in FreshCombat :
    LET s == [meter EXCEPT !.worldID = IF GetWorldID(meter) = NoWorld THEN MyRoom ELSE @,
                           !.db = @ \cup {TestMonster}]
    IN meter' = [AddDamage(s, p, TestMonster, TRUE, c) EXCEPT !.testMode = TRUE]

\* Save and exit of the options window takes the placeholder world back.
SaveAndExit ==
  /\ GetWorldID(meter) = MyRoom
  /\ meter' = [meter EXCEPT !.worldID = NoWorld]

-----------------------------------------------------------------------------
Packet ==
  \/ DamagePacket \/ TakeDamagePacket \/ PlayerEventPacket \/ CombatLogPacket
  \/ InInfoMonsterPacket \/ MazeStartPacket \/ MazeEndPacket
  \/ MazeUpdateState(TRUE) \/ MazeUpdateState(FALSE)
  \/ WorldChangePacket \/ PresencePacket \/ MonsterKilledPacket

Command ==
  \/ Reset \/ Toggle \/ SelectInMenu \/ SelectInUtility \/ RefreshHistoryList
  \/ DeleteSelected \/ ClearAll \/ Helper \/ SaveAndExit

Next == Packet \/ Command

Spec == Init /\ [][Next]_meter

-----------------------------------------------------------------------------
MeterState ==
  [timer : {"end", "run", "suspend"}, worldID : World, mazeEnd : BOOLEAN,
   testMode : BOOLEAN, players : SUBSET Player, damage : SUBSET (Player \X Monster),
   db : SUBSET Monster, historyMode : BOOLEAN, hi : Session \cup {NoSession},
   selected : BOOLEAN, history : Seq(Session), curIndex : 0..HistorySize,
   ci : CombatId \cup {Nil}, ciHistory : BOOLEAN, heap : SUBSET CombatId,
   plot : SessionId \cup {Nil}, plotEnd : BOOLEAN, buff : SessionId \cup {Nil}]

\* The state of the meter is well formed.
TypeOK == meter \in MeterState

\* Everything that knows about the history mode agrees on it.
ModeAgrees(s) ==
  IF s.historyMode
  THEN /\ s.timer = "end" /\ s.players = {} /\ s.damage = {}
       /\ s.hi # NoSession /\ s.ciHistory /\ s.plotEnd
       /\ s.ci = s.hi.combat
       /\ s.plot = s.hi.id /\ s.buff = s.hi.id
  ELSE /\ s.hi = NoSession /\ ~s.ciHistory
       /\ s.plot = Nil /\ s.buff = Nil

\* While a filed session is on screen nothing is being recorded: the timer is
\* off, there is no live row, and table, combat log, plot and buffs all show
\* that same session. With a live run on screen none of them shows history.
\* The four singletons keep this mode each on its own (Damage Meter.cpp:804-831).
HistoryModeIsIdle == ModeAgrees(meter)

\* The session on screen is still filed: the pointers SetHistory handed to the
\* views do not outlive the HISTORY_INFO they came from.
ShownIsFiled ==
  meter.historyMode => meter.hi \in ToSet(meter.history)

\* A CombatInterface has exactly one owner, the live run or one filed session:
\* none is used after its deletion, deleted twice or leaked.
CombatOwned ==
  LET filed == {h.combat : h \in ToSet(meter.history)} \ {Nil}
      live == IF meter.ciHistory THEN {} ELSE {meter.ci} \ {Nil}
  IN /\ meter.heap = filed \cup live
     /\ filed \cap live = {}
     /\ \A g, h \in ToSet(meter.history) : g.combat = h.combat /\ g # h => g.combat = Nil

\* The history never holds more than HISTORY_SIZE sessions, and each once: the
\* counter that triggers evictions may run ahead of the length, never behind.
HistoryBounded ==
  /\ Len(meter.history) <= meter.curIndex
  /\ \A i, j \in DOMAIN meter.history :
       meter.history[i].id = meter.history[j].id => i = j

\* Rows exist only in a run whose timer was started and not stopped, so the
\* time a run is filed with is that run's.
RowsAreTimed == meter.players # {} => meter.timer # "end"

\* The plot takes samples whenever the timer runs, and then of the live run.
PlotFollowsTimer == isRun(meter) => ~meter.plotEnd /\ meter.plot = Nil

\* The rows of a run go away in one way only: outside test mode the run becomes
\* the newest session, filed under the world the meter was in before the step,
\* with the run's own combat log (the user wiping the whole history apart).
RunsAreKept ==
  [][ meter.players # {} /\ meter'.players = {} /\ meter'.history # <<>>
      => IF meter.testMode
         THEN meter'.history = meter.history
         ELSE LET run == Last(meter'.history)
              IN run.id \notin {h.id : h \in ToSet(meter.history)}
                 /\ run.world = meter.worldID /\ meter.ci \in {run.combat, Nil} ]_meter

\* Damage Meter.cpp:106, "only damage in list Boss can start/resume timer.": in
\* a strict world, a hit that starts the timer and brings the player's row is on
\* a listed monster (test values apart).
OnlyListBossStarts ==
  [][ \A p \in Player :
        /\ ~isRun(meter) /\ isRun(meter') /\ p \in meter'.players \ meter.players
        /\ meter.worldID \in DOMAIN StrictList /\ ~meter'.testMode
        => \E m \in StrictList[meter.worldID] : <<p, m>> \in meter'.damage ]_meter
====
