------------------------- MODULE DamageMeterProofs -------------------------
(***************************************************************************)
(* Invariants of DamageMeter for every choice of its constants.  A handler *)
(* is a composition of member calls, so each call gets a lemma, and the    *)
(* step of a handler follows from the lemmas of its calls.  First types,   *)
(* then the modes of timer, rows and plot, then who owns the combat logs   *)
(* and what is in the history.                                             *)
(***************************************************************************)
EXTENDS DamageMeter, TLAPS

-----------------------------------------------------------------------------
(* Types: every member call keeps the state well formed. *)

LEMMA RemoveAtType ==
  ASSUME NEW S, NEW q \in Seq(S), NEW i \in 1..Len(q)
  PROVE  RemoveAt(q, i) \in Seq(S)
BY DEF RemoveAt

LEMMA CombatInsertType ==
  ASSUME NEW s \in MeterState, NEW c \in CombatId
  PROVE  CombatInsert(s, c) \in MeterState
<1>1. s.heap \cup {c} \in SUBSET CombatId
  BY DEF MeterState
<1>2. [s EXCEPT !.ci = c, !.heap = @ \cup {c}] \in MeterState
  BY <1>1, Zenon DEF MeterState
<1> QED
  BY <1>2, Zenon DEF CombatInsert

LEMMA CombatSetType ==
  ASSUME NEW s \in MeterState, NEW c \in CombatId \cup {Nil}
  PROVE  CombatSet(s, c) \in MeterState
<1> DEFINE heap == IF s.ciHistory THEN s.heap ELSE s.heap \ {s.ci}
<1>1. heap \in SUBSET CombatId
  BY DEF MeterState
<1>2. CombatSet(s, c) = [s EXCEPT !.heap = heap, !.ci = c, !.ciHistory = TRUE]
  BY Zenon DEF CombatSet
<1> HIDE DEF heap
<1> QED
  BY <1>1, <1>2, ZenonT(60) DEF MeterState

LEMMA CombatClearType ==
  ASSUME NEW s \in MeterState, NEW b \in BOOLEAN
  PROVE  CombatClear(s, b) \in MeterState
<1> DEFINE heap == IF b /\ ~s.ciHistory THEN s.heap \ {s.ci} ELSE s.heap
<1>1. heap \in SUBSET CombatId
  BY DEF MeterState
<1>2. CombatClear(s, b) = [s EXCEPT !.heap = heap, !.ci = Nil, !.ciHistory = FALSE]
  BY Zenon DEF CombatClear
<1> HIDE DEF heap
<1> QED
  BY <1>1, <1>2, ZenonT(60) DEF MeterState

LEMMA FreeSessionType ==
  ASSUME NEW s \in MeterState, NEW h
  PROVE  FreeSession(s, h) \in MeterState
<1>1. s.heap \ {h.combat} \in SUBSET CombatId
  BY DEF MeterState
<1> QED
  BY <1>1, Zenon DEF FreeSession, MeterState

LEMMA ClearHistoryType ==
  ASSUME NEW s \in MeterState, NEW h
  PROVE  ClearHistory(s, h) \in MeterState
<1> DEFINE itr == CHOOSE i \in DOMAIN s.history : s.history[i] = h
           t == [s EXCEPT !.history = RemoveAt(@, itr)]
<1>1. CASE s.history = <<>> \/ h \notin ToSet(s.history)
  BY <1>1, FreeSessionType, Zenon DEF ClearHistory
<1>2. CASE s.history # <<>> /\ h \in ToSet(s.history)
  <2>1. s.history \in Seq(Session)
    BY Zenon DEF MeterState
  <2>2. itr \in 1..Len(s.history)
    BY <1>2, <2>1 DEF ToSet
  <2>3. RemoveAt(s.history, itr) \in Seq(Session)
    BY <2>1, <2>2, RemoveAtType, Zenon
  <2>4. t \in MeterState
    BY <2>3, Zenon DEF MeterState
  <2>5. ClearHistory(s, h) = FreeSession(t, h)
    BY <1>2, Zenon DEF ClearHistory
  <2> QED
    BY <2>4, <2>5, FreeSessionType, Zenon
<1> QED
  BY <1>1, <1>2, Zenon

LEMMA PushBackType ==
  ASSUME NEW s \in MeterState, NEW h \in Session
  PROVE  PushBack(s, h) \in MeterState
<1> DEFINE t == IF s.curIndex >= HistorySize /\ s.history # <<>>
                THEN ClearHistory(s, Head(s.history)) ELSE s
<1>1. t \in MeterState
  BY ClearHistoryType, Zenon
<1> HIDE DEF t
<1>2. t.history \in Seq(Session) /\ t.curIndex \in 0..HistorySize
  BY <1>1, Zenon DEF MeterState
<1> DEFINE history == Append(t.history, h)
           curIndex == IF t.curIndex < HistorySize THEN t.curIndex + 1 ELSE t.curIndex
<1>3. history \in Seq(Session)
  BY <1>2
<1>4. curIndex \in 0..HistorySize
  BY <1>2, SizeAssumption
<1>5. PushBack(s, h) = [t EXCEPT !.history = history, !.curIndex = curIndex]
  BY Zenon DEF PushBack, t
<1> HIDE DEF history, curIndex
<1> QED
  BY <1>1, <1>3, <1>4, <1>5, ZenonT(60) DEF MeterState

LEMMA ClearVectorType ==
  ASSUME NEW s \in MeterState
  PROVE  ClearVector(s) \in MeterState
<1>1. s.heap \ {h.combat : h \in ToSet(s.history)} \in SUBSET CombatId
  BY Zenon DEF MeterState
<1>2. <<>> \in Seq(Session) /\ 0 \in 0..HistorySize
  BY SizeAssumption
<1> QED
  BY <1>1, <1>2, Zenon DEF ClearVector, MeterState

LEMMA ClearInfoType ==
  ASSUME NEW s \in MeterState, NEW clear
  PROVE  ClearInfo(s, clear) \in MeterState
<1> DEFINE t == CombatClear(s, FALSE)
<1>1. t \in MeterState
  BY CombatClearType, Zenon
<1> HIDE DEF t
<1> DEFINE players == IF s.historyMode THEN t.players ELSE {}
           damage == IF s.historyMode THEN t.damage ELSE {}
           db == IF clear THEN {} ELSE t.db
<1>2. /\ players \in SUBSET Player
      /\ damage \in SUBSET (Player \X Monster)
      /\ db \in SUBSET Monster
  BY <1>1, Zenon DEF MeterState
<1>3. ClearInfo(s, clear) =
        [t EXCEPT !.players = players, !.damage = damage, !.db = db,
                  !.plot = Nil, !.plotEnd = FALSE, !.buff = Nil,
                  !.hi = NoSession, !.selected = FALSE]
  BY Zenon DEF ClearInfo, t
<1> HIDE DEF players, damage, db
<1> QED
  BY <1>1, <1>2, <1>3, ZenonT(60) DEF MeterState

LEMMA LeaveHistoryType ==
  ASSUME NEW s \in MeterState
  PROVE  LeaveHistory(s) \in MeterState
<1> DEFINE t == ClearInfo(s, FALSE)
<1>1. t \in MeterState
  BY ClearInfoType, Zenon
<1> HIDE DEF t
<1>2. [t EXCEPT !.historyMode = FALSE] \in MeterState
  BY <1>1, ZenonT(60) DEF MeterState
<1> QED
  BY <1>2, Zenon DEF LeaveHistory, t

LEMMA StartType ==
  ASSUME NEW s \in MeterState
  PROVE  Start(s) \in MeterState
<1> DEFINE t == LeaveHistory(s)
<1>1. t \in MeterState
  BY LeaveHistoryType, Zenon
<1> HIDE DEF t
<1>2. [t EXCEPT !.timer = "run", !.plotEnd = FALSE] \in MeterState
  BY <1>1, ZenonT(60) DEF MeterState
<1> QED
  BY <1>2, Zenon DEF Start, t

LEMMA SuspendType ==
  ASSUME NEW s \in MeterState
  PROVE  Suspend(s) \in MeterState
<1> DEFINE t == LeaveHistory(s)
<1>1. t \in MeterState
  BY LeaveHistoryType, Zenon
<1> HIDE DEF t
<1> DEFINE timer == IF t.timer = "run" THEN "suspend" ELSE t.timer
<1>2. timer \in {"end", "run", "suspend"}
  BY <1>1, Zenon DEF MeterState
<1>3. Suspend(s) = [t EXCEPT !.timer = timer, !.plotEnd = TRUE]
  BY Zenon DEF Suspend, t
<1> HIDE DEF timer
<1> QED
  BY <1>1, <1>2, <1>3, ZenonT(60) DEF MeterState

LEMMA SetMazeStateType ==
  ASSUME NEW s \in MeterState, NEW end \in BOOLEAN
  PROVE  SetMazeState(s, end) \in MeterState
<1> DEFINE plotEnd == end \/ s.plotEnd
<1>1. plotEnd \in BOOLEAN
  BY Zenon
<1>2. SetMazeState(s, end) = [s EXCEPT !.mazeEnd = end, !.plotEnd = plotEnd]
  BY Zenon DEF SetMazeState
<1> HIDE DEF plotEnd
<1> QED
  BY <1>1, <1>2, ZenonT(60) DEF MeterState

\* A run is filed under an address that is free, with options of the user's.
LEMMA EndRunType ==
  ASSUME NEW s \in MeterState, NEW n \in SessionId, NEW o \in Settings
  PROVE  EndRun(s, n, o) \in MeterState
<1> DEFINE run == [id |-> n, world |-> s.worldID, combat |-> s.ci]
           keepDB == o.teamTALF # 0 /\ s.worldID = LunarFall
<1>1. CASE s.testMode
  BY <1>1, ClearInfoType, FreeSessionType, Zenon DEF EndRun
<1>2. CASE ~s.testMode
  <2>1. run \in Session
    BY Zenon DEF Session, MeterState
  <2>2. PushBack(s, run) \in MeterState
    BY <2>1, PushBackType, Zenon
  <2>3. EndRun(s, n, o) = ClearInfo(PushBack(s, run), ~keepDB)
    BY <1>2, Zenon DEF EndRun
  <2> HIDE DEF keepDB, run
  <2> QED
    BY <2>2, <2>3, ClearInfoType, Zenon
<1> QED
  BY <1>1, <1>2, Zenon

LEMMA ClearType ==
  ASSUME NEW s \in MeterState, NEW n \in SessionId, NEW o \in Settings
  PROVE  Clear(s, n, o) \in MeterState
<1> DEFINE r == IF s.players # {} THEN EndRun(s, n, o) ELSE CombatClear(s, TRUE)
           t == IF s.historyMode THEN LeaveHistory(s) ELSE [r EXCEPT !.mazeEnd = FALSE]
<1>1. r \in MeterState
  BY EndRunType, CombatClearType, Zenon
<1>2. Clear(s, n, o) = [t EXCEPT !.testMode = FALSE, !.timer = "end"]
  BY Zenon DEF Clear
<1> HIDE DEF r
<1>3. [r EXCEPT !.mazeEnd = FALSE] \in MeterState
  BY <1>1, ZenonT(60) DEF MeterState
<1>4. t \in MeterState
  BY <1>3, LeaveHistoryType, Zenon
<1> HIDE DEF t
<1> QED
  BY <1>2, <1>4, Zenon DEF MeterState

LEMMA SetHistoryType ==
  ASSUME NEW s \in MeterState, NEW h \in Session, NEW n \in SessionId, NEW o \in Settings
  PROVE  SetHistory(s, h, n, o) \in MeterState
<1> DEFINE t == IF s.historyMode THEN s ELSE Clear(s, n, o)
           u == CombatSet(t, h.combat)
<1>1. t \in MeterState
  BY ClearType, Zenon
<1>2. /\ h.combat \in CombatId \cup {Nil}
      /\ h.id \in SessionId \cup {Nil}
      /\ h \in Session \cup {NoSession}
  BY Zenon DEF Session
<1>3. SetHistory(s, h, n, o) =
        IF h \notin ToSet(t.history) THEN t
        ELSE [u EXCEPT !.buff = h.id, !.plot = h.id, !.plotEnd = TRUE,
                       !.hi = h, !.historyMode = TRUE]
  BY Zenon DEF SetHistory
<1> HIDE DEF t
<1>4. u \in MeterState
  BY <1>1, <1>2, CombatSetType, Zenon
<1> HIDE DEF u
<1>5. [u EXCEPT !.buff = h.id, !.plot = h.id, !.plotEnd = TRUE,
                !.hi = h, !.historyMode = TRUE] \in MeterState
  BY <1>2, <1>4, ZenonT(60) DEF MeterState
<1> QED
  BY <1>1, <1>3, <1>5, Zenon

LEMMA InsertPlayerInfoType ==
  ASSUME NEW s \in MeterState, NEW p \in Player, NEW m \in Monster
  PROVE  InsertPlayerInfo(s, p, m) \in MeterState
<1> DEFINE w == GetWorldID(s)
           counts == m \in s.db /\ (w \in DOMAIN StrictList => m \in StrictList[w])
           players == s.players \cup {p}
           damage == IF counts THEN s.damage \cup {<<p, m>>} ELSE s.damage
<1>1. s.players \in SUBSET Player /\ s.damage \in SUBSET (Player \X Monster)
  BY Zenon DEF MeterState
<1>2. InsertPlayerInfo(s, p, m) = [s EXCEPT !.players = players, !.damage = damage]
  BY Zenon DEF InsertPlayerInfo
<1> HIDE DEF counts
<1>3. players \in SUBSET Player /\ damage \in SUBSET (Player \X Monster)
  BY <1>1
<1> HIDE DEF players, damage
<1> QED
  BY <1>2, <1>3, ZenonT(60) DEF MeterState

LEMMA AddDamageType ==
  ASSUME NEW s \in MeterState, NEW p \in Player, NEW m \in Monster,
         NEW hurts \in BOOLEAN, NEW c \in CombatId
  PROVE  AddDamage(s, p, m, hurts, c) \in MeterState
<1> DEFINE t == IF hurts THEN CombatInsert(s, c) ELSE s
<1>1. t \in MeterState
  BY CombatInsertType, Zenon
<1> HIDE DEF t
<1>2. InsertPlayerInfo(Start(t), p, m) \in MeterState
  BY <1>1, StartType, InsertPlayerInfoType, Zenon
<1>3. AddDamage(s, p, m, hurts, c) \in {s, Suspend(s), InsertPlayerInfo(Start(t), p, m)}
  BY Zenon DEF AddDamage, t
<1> QED
  BY <1>2, <1>3, SuspendType, Zenon

LEMMA KilledType ==
  ASSUME NEW s \in MeterState, NEW m \in Monster, NEW n \in SessionId, NEW o \in Settings
  PROVE  Killed(s, m, n, o) \in MeterState
<1> DEFINE isEndId == m \in EndIds \cup RaidBosses
           t == IF /\ o.teamTALF # 0 /\ GetWorldID(s) = LunarFall /\ m \in LunarBosses
                   /\ o.teamTALF = 2 => m = Queen
                THEN SetMazeState(Clear(s, n, o), isEndId) ELSE s
<1>1. isEndId \in BOOLEAN
  OBVIOUS
<1>2. Killed(s, m, n, o) \in {t, Suspend(t), Suspend(SetMazeState(t, TRUE))}
  BY Zenon DEF Killed
<1> HIDE DEF isEndId
<1>3. t \in MeterState
  BY <1>1, ClearType, SetMazeStateType, Zenon
<1> HIDE DEF t
<1> QED
  BY <1>2, <1>3, SuspendType, SetMazeStateType, Zenon

-----------------------------------------------------------------------------
(* The actions *)

LEMMA FreshType ==
  FreshSession \subseteq SessionId /\ FreshCombat \subseteq CombatId
BY Zenon DEF FreshSession, FreshCombat, Fresh

LEMMA InitType == Init => TypeOK
<1> DEFINE m == [timer |-> "end", worldID |-> NoWorld, mazeEnd |-> FALSE,
                 testMode |-> FALSE, players |-> {}, damage |-> {}, db |-> {},
                 historyMode |-> FALSE, hi |-> NoSession, selected |-> FALSE,
                 history |-> <<>>, curIndex |-> 0,
                 ci |-> Nil, ciHistory |-> FALSE, heap |-> {},
                 plot |-> Nil, plotEnd |-> FALSE, buff |-> Nil]
<1>1. 0 \in 0..HistorySize /\ <<>> \in Seq(Session) /\ NoWorld \in World
  BY SizeAssumption, WorldAssumption
<1>2. m \in MeterState
  BY <1>1, ZenonT(60) DEF MeterState
<1> QED
  BY <1>2, Zenon DEF Init, TypeOK

LEMMA PacketType == TypeOK /\ Packet => TypeOK'
<1> SUFFICES ASSUME meter \in MeterState, Packet
             PROVE  meter' \in MeterState
  BY Zenon DEF TypeOK
<1>1. CASE DamagePacket
  <2>1. PICK p \in Player, m \in meter.db, hurts \in BOOLEAN, dead \in BOOLEAN,
             o \in Settings, n \in FreshSession, c \in FreshCombat :
               LET s == AddDamage(meter, p, m, hurts, c)
                   rankMode == o.soloRank /\ GetWorldID(s) \in RankWorlds
               IN meter' = IF dead /\ ~rankMode THEN Killed(s, m, n, o) ELSE s
    BY <1>1, Zenon DEF DamagePacket
  <2>2. m \in Monster
    BY Zenon DEF MeterState
  <2>3. AddDamage(meter, p, m, hurts, c) \in MeterState
    BY <2>2, AddDamageType, FreshType, Zenon
  <2> QED
    BY <2>1, <2>2, <2>3, KilledType, FreshType, Zenon
<1>2. CASE TakeDamagePacket
  <2>1. PICK p \in Player, c \in FreshCombat :
               meter' = [CombatInsert(meter, c) EXCEPT !.players = @ \cup {p}]
    BY <1>2, Zenon DEF TakeDamagePacket
  <2> DEFINE t == CombatInsert(meter, c)
             players == t.players \cup {p}
  <2>2. t \in MeterState
    BY CombatInsertType, FreshType, Zenon
  <2> HIDE DEF t
  <2>3. players \in SUBSET Player
    BY <2>2 DEF MeterState
  <2>4. meter' = [t EXCEPT !.players = players]
    BY <2>1, Zenon DEF t
  <2> HIDE DEF players
  <2> QED
    BY <2>2, <2>3, <2>4, Zenon DEF MeterState
<1>3. CASE PlayerEventPacket
  <2>1. PICK p \in Player : meter' = [meter EXCEPT !.players = @ \cup {p}]
    BY <1>3, Zenon DEF PlayerEventPacket
  <2> DEFINE players == meter.players \cup {p}
  <2>2. players \in SUBSET Player
    BY DEF MeterState
  <2>3. meter' = [meter EXCEPT !.players = players]
    BY <2>1, Zenon
  <2> HIDE DEF players
  <2> QED
    BY <2>2, <2>3, Zenon DEF MeterState
<1>4. CASE CombatLogPacket
  BY <1>4, CombatInsertType, FreshType, Zenon DEF CombatLogPacket
<1>5. CASE InInfoMonsterPacket
  <2>1. PICK m \in Monster, c \in FreshCombat, stats \in BOOLEAN :
          meter' = [(IF stats THEN CombatInsert(meter, c) ELSE meter)
                    EXCEPT !.db = @ \cup {m}]
    BY <1>5, Zenon DEF InInfoMonsterPacket
  <2> DEFINE t == IF stats THEN CombatInsert(meter, c) ELSE meter
             db == t.db \cup {m}
  <2>2. t \in MeterState
    BY CombatInsertType, FreshType, Zenon
  <2>3. meter' = [t EXCEPT !.db = db]
    BY <2>1, Zenon
  <2> HIDE DEF t
  <2>4. db \in SUBSET Monster
    BY <2>2 DEF MeterState
  <2> HIDE DEF db
  <2> QED
    BY <2>2, <2>3, <2>4, Zenon DEF MeterState
<1>6. CASE MazeStartPacket
  BY <1>6, SetMazeStateType, Zenon DEF MazeStartPacket
<1>7. CASE MazeEndPacket
  BY <1>7, SetMazeStateType, SuspendType, Zenon DEF MazeEndPacket
<1>8. ASSUME NEW start \in BOOLEAN, MazeUpdateState(start)
      PROVE  meter' \in MeterState
  <2>1. PICK o \in Settings :
          meter' =
            IF start
            THEN Start(SetMazeState([meter EXCEPT !.testMode = o.dontSave \/ @], FALSE))
            ELSE Suspend(SetMazeState([meter EXCEPT !.testMode = FALSE], TRUE))
    BY <1>8, Zenon DEF MazeUpdateState
  <2> DEFINE testMode == o.dontSave \/ meter.testMode
  <2>2. testMode \in BOOLEAN
    OBVIOUS
  <2>3. meter' = IF start
                 THEN Start(SetMazeState([meter EXCEPT !.testMode = testMode], FALSE))
                 ELSE Suspend(SetMazeState([meter EXCEPT !.testMode = FALSE], TRUE))
    BY <2>1, Zenon
  <2> HIDE DEF testMode
  <2>4. /\ [meter EXCEPT !.testMode = testMode] \in MeterState
        /\ [meter EXCEPT !.testMode = FALSE] \in MeterState
    BY <2>2, ZenonT(60) DEF MeterState
  <2> QED
    BY <2>3, <2>4, SetMazeStateType, StartType, SuspendType, Zenon
<1>9. CASE WorldChangePacket
  <2>1. PICK w \in World \ {NoWorld}, n \in FreshSession, o \in Settings :
          meter' = SetMazeState([Clear(meter, n, o) EXCEPT !.worldID = w], FALSE)
    BY <1>9, Zenon DEF WorldChangePacket
  <2> DEFINE t == Clear(meter, n, o)
  <2>2. t \in MeterState
    BY ClearType, FreshType, Zenon
  <2> HIDE DEF t
  <2>3. [t EXCEPT !.worldID = w] \in MeterState
    BY <2>2, ZenonT(60) DEF MeterState
  <2> QED
    BY <2>1, <2>3, SetMazeStateType, Zenon DEF t
<1>10. CASE PresencePacket
  BY <1>10, ZenonT(60) DEF PresencePacket, MeterState
<1>11. CASE MonsterKilledPacket
  BY <1>11, CombatInsertType, SuspendType, FreshType, Zenon DEF MonsterKilledPacket
<1> QED
  BY <1>1, <1>2, <1>3, <1>4, <1>5, <1>6, <1>7, <1>8, <1>9, <1>10, <1>11, Zenon DEF Packet

LEMMA CommandType == TypeOK /\ Command => TypeOK'
<1> SUFFICES ASSUME meter \in MeterState, Command
             PROVE  meter' \in MeterState
  BY Zenon DEF TypeOK
<1>1. CASE Reset
  BY <1>1, ClearType, FreshType, Zenon DEF Reset
<1>2. CASE Toggle
  BY <1>2, SuspendType, StartType, Zenon DEF Toggle
<1>3. ToSet(meter.history) \subseteq Session
  <2>1. meter.history \in Seq(Session)
    BY Zenon DEF MeterState
  <2> QED
    BY <2>1 DEF ToSet
<1>4. CASE SelectInMenu
  <2>1. [meter EXCEPT !.selected = TRUE] \in MeterState
    BY Zenon DEF MeterState
  <2> QED
    BY <1>3, <1>4, <2>1, SetHistoryType, FreshType, Zenon DEF SelectInMenu
<1>5. CASE SelectInUtility
  <2>1. PICK h \in ToSet(meter.history), n \in FreshSession, o \in Settings :
          meter' = SetHistory([Clear(meter, n, o) EXCEPT !.selected = TRUE], h, n, o)
    BY <1>5, Zenon DEF SelectInUtility
  <2> DEFINE t == Clear(meter, n, o)
  <2>2. t \in MeterState
    BY ClearType, FreshType, Zenon
  <2> HIDE DEF t
  <2>3. [t EXCEPT !.selected = TRUE] \in MeterState
    BY <2>2, ZenonT(60) DEF MeterState
  <2> QED
    BY <1>3, <2>1, <2>3, SetHistoryType, FreshType, Zenon DEF t
<1>6. CASE RefreshHistoryList
  BY <1>6, Zenon DEF RefreshHistoryList, MeterState
<1>7. CASE DeleteSelected
  BY <1>7, ClearType, ClearHistoryType, FreshType, Zenon DEF DeleteSelected
<1>8. CASE ClearAll
  BY <1>8, ClearType, ClearVectorType, FreshType, Zenon DEF ClearAll
<1>9. CASE Helper
  <2>1. PICK p \in Player, c \in FreshCombat :
          LET s == [meter EXCEPT !.worldID = IF GetWorldID(meter) = NoWorld
                                             THEN MyRoom ELSE @,
                                 !.db = @ \cup {TestMonster}]
          IN meter' = [AddDamage(s, p, TestMonster, TRUE, c) EXCEPT !.testMode = TRUE]
    BY <1>9, Zenon DEF Helper
  <2> DEFINE worldID == IF GetWorldID(meter) = NoWorld THEN MyRoom ELSE meter.worldID
             db == meter.db \cup {TestMonster}
             s == [meter EXCEPT !.worldID = worldID, !.db = db]
             t == AddDamage(s, p, TestMonster, TRUE, c)
  <2>2. worldID \in World
    BY WorldAssumption, Zenon DEF MeterState
  <2>3. db \in SUBSET Monster
    BY MonsterAssumption DEF MeterState
  <2>4. meter' = [t EXCEPT !.testMode = TRUE]
    BY <2>1, Zenon
  <2> HIDE DEF worldID, db
  <2>5. s \in MeterState
    BY <2>2, <2>3, Zenon DEF MeterState
  <2> HIDE DEF s
  <2>6. t \in MeterState
    BY <2>5, AddDamageType, MonsterAssumption, FreshType, Zenon
  <2> HIDE DEF t
  <2> QED
    BY <2>4, <2>6, Zenon DEF MeterState
<1>10. CASE SaveAndExit
  BY <1>10, WorldAssumption, Zenon DEF SaveAndExit, MeterState
<1> QED
  BY <1>1, <1>2, <1>4, <1>5, <1>6, <1>7, <1>8, <1>9, <1>10, Zenon DEF Command

\* The meter's state is well formed after every sequence of packets and
\* commands, for any number of players, monsters, worlds and sessions.
THEOREM TypeCorrect == Spec => []TypeOK
<1>1. Init => TypeOK
  BY InitType
<1>2. TypeOK /\ [Next]_meter => TypeOK'
  BY PacketType, CommandType, Zenon DEF Next, TypeOK
<1> QED
  BY <1>1, <1>2, PTL DEF Spec

-----------------------------------------------------------------------------
(* The views agree with the meter. *)

\* What every member call keeps.  RowsAreTimed and PlotFollowsTimer are part of
\* it because ModeAgrees is not inductive: a session is shown with the timer off
\* and without rows only because a live run is cleared first, and Clear finds
\* the rows and the timer as these parts promise.
Views(s) ==
  /\ s \in MeterState
  /\ ModeAgrees(s)
  /\ s.players = {} => s.damage = {}

Timed(s) ==
  /\ s.players # {} => s.timer # "end"
  /\ isRun(s) => ~s.plotEnd /\ s.plot = Nil

Coherent(s) == Views(s) /\ Timed(s)

\* A call that leaves these fields alone keeps both parts.
SameView(s, t) ==
  /\ t.timer = s.timer /\ t.players = s.players /\ t.damage = s.damage
  /\ t.historyMode = s.historyMode /\ t.hi = s.hi
  /\ t.ci = s.ci /\ t.ciHistory = s.ciHistory
  /\ t.plot = s.plot /\ t.plotEnd = s.plotEnd /\ t.buff = s.buff

LEMMA SameViewKeeps ==
  ASSUME NEW s, NEW t \in MeterState, SameView(s, t)
  PROVE  (Views(s) => Views(t)) /\ (Coherent(s) => Coherent(t))
BY Zenon DEF SameView, Coherent, Views, Timed, ModeAgrees, isRun

LEMMA FreeSessionView ==
  ASSUME NEW s \in MeterState, NEW h
  PROVE  SameView(s, FreeSession(s, h))
BY DEF FreeSession, SameView, MeterState

LEMMA ClearHistoryView ==
  ASSUME NEW s \in MeterState, NEW h
  PROVE  SameView(s, ClearHistory(s, h))
<1> DEFINE itr == CHOOSE i \in DOMAIN s.history : s.history[i] = h
           history == RemoveAt(s.history, itr)
           t == [s EXCEPT !.history = history]
<1>1. ClearHistory(s, h) \in {s, FreeSession(s, h), FreeSession(t, h)}
  BY Zenon DEF ClearHistory
<1> HIDE DEF history
<1>2. SameView(s, s) /\ SameView(s, FreeSession(s, h)) /\ SameView(s, FreeSession(t, h))
  BY DEF FreeSession, SameView, MeterState
<1> QED
  BY <1>1, <1>2, Zenon

LEMMA PushBackView ==
  ASSUME NEW s \in MeterState, NEW h \in Session
  PROVE  SameView(s, PushBack(s, h))
<1> DEFINE t == IF s.curIndex >= HistorySize /\ s.history # <<>>
                THEN ClearHistory(s, Head(s.history)) ELSE s
           history == Append(t.history, h)
           curIndex == IF t.curIndex < HistorySize THEN t.curIndex + 1 ELSE t.curIndex
<1>1. PushBack(s, h) = [t EXCEPT !.history = history, !.curIndex = curIndex]
  BY Zenon DEF PushBack
<1>2. SameView(s, s)
  BY DEF SameView
<1>3. t \in MeterState /\ SameView(s, t)
  BY <1>2, ClearHistoryType, ClearHistoryView, Zenon
<1> HIDE DEF t, history, curIndex
<1> QED
  BY <1>1, <1>3 DEF SameView, MeterState

LEMMA ClearVectorView ==
  ASSUME NEW s \in MeterState
  PROVE  SameView(s, ClearVector(s))
<1> DEFINE heap == s.heap \ {h.combat : h \in ToSet(s.history)}
<1>1. ClearVector(s) = [s EXCEPT !.heap = heap, !.history = <<>>, !.curIndex = 0]
  BY Zenon DEF ClearVector
<1> HIDE DEF heap
<1> QED
  BY <1>1 DEF SameView, MeterState

LEMMA CombatInsertView ==
  ASSUME NEW s, Coherent(s), NEW c \in CombatId
  PROVE  Coherent(CombatInsert(s, c))
<1> DEFINE heap == s.heap \cup {c}
           t == [s EXCEPT !.ci = c, !.heap = heap]
<1>1. CombatInsert(s, c) \in MeterState
  BY CombatInsertType, Zenon DEF Coherent, Views
<1>2. CASE s.ciHistory \/ isTownMap(s) \/ s.ci # Nil
  BY <1>2, Zenon DEF CombatInsert
<1>3. CASE ~(s.ciHistory \/ isTownMap(s) \/ s.ci # Nil)
  <2>1. CombatInsert(s, c) = t
    BY <1>3, Zenon DEF CombatInsert
  <2> HIDE DEF heap
  <2>2. /\ t.timer = s.timer /\ t.players = s.players /\ t.damage = s.damage
        /\ t.historyMode = s.historyMode /\ t.hi = s.hi
        /\ t.ciHistory = s.ciHistory
        /\ t.plot = s.plot /\ t.plotEnd = s.plotEnd /\ t.buff = s.buff
    BY DEF Coherent, Views, MeterState
  <2> HIDE DEF t
  <2> QED
    BY <1>1, <1>3, <2>1, <2>2 DEF Coherent, Views, Timed, ModeAgrees, isRun
<1> QED
  BY <1>2, <1>3, Zenon

LEMMA CombatClearView ==
  ASSUME NEW s \in MeterState, NEW b
  PROVE  LET t == CombatClear(s, b)
         IN /\ t.timer = s.timer /\ t.historyMode = s.historyMode
            /\ t.players = s.players /\ t.damage = s.damage
            /\ t.hi = s.hi /\ t.ci = Nil /\ ~t.ciHistory
            /\ t.plot = s.plot /\ t.plotEnd = s.plotEnd /\ t.buff = s.buff
<1> DEFINE heap == IF b /\ ~s.ciHistory THEN s.heap \ {s.ci} ELSE s.heap
<1>1. CombatClear(s, b) = [s EXCEPT !.heap = heap, !.ci = Nil, !.ciHistory = FALSE]
  BY Zenon DEF CombatClear
<1> HIDE DEF heap
<1> QED
  BY <1>1 DEF MeterState

\* Every view is back on the live run, whatever it showed.
LEMMA ClearInfoView ==
  ASSUME NEW s \in MeterState, NEW clear
  PROVE  LET t == ClearInfo(s, clear)
         IN /\ t.timer = s.timer /\ t.historyMode = s.historyMode
            /\ t.players = (IF s.historyMode THEN s.players ELSE {})
            /\ t.damage = (IF s.historyMode THEN s.damage ELSE {})
            /\ t.hi = NoSession /\ t.ci = Nil /\ ~t.ciHistory
            /\ t.plot = Nil /\ ~t.plotEnd /\ t.buff = Nil
<1> DEFINE u == CombatClear(s, FALSE)
           db == IF clear THEN {} ELSE u.db
<1>1. u \in MeterState
  BY CombatClearType, Zenon
<1>2. /\ u.timer = s.timer /\ u.historyMode = s.historyMode
      /\ u.players = s.players /\ u.damage = s.damage
      /\ u.ci = Nil /\ ~u.ciHistory
  BY CombatClearView, Zenon
<1>3. ClearInfo(s, clear) =
        [u EXCEPT !.players = IF s.historyMode THEN @ ELSE {},
                  !.damage = IF s.historyMode THEN @ ELSE {},
                  !.db = db, !.plot = Nil, !.plotEnd = FALSE, !.buff = Nil,
                  !.hi = NoSession, !.selected = FALSE]
  BY Zenon DEF ClearInfo
<1> HIDE DEF u, db
<1> QED
  BY <1>1, <1>2, <1>3 DEF MeterState

\* Leaving the history leaves a live run with nothing in it.
LEMMA LeaveHistoryView ==
  ASSUME NEW s, Coherent(s)
  PROVE  Coherent(LeaveHistory(s)) /\ ~LeaveHistory(s).historyMode
<1> DEFINE t == ClearInfo(s, FALSE)
           u == [t EXCEPT !.historyMode = FALSE]
<1>1. s \in MeterState /\ LeaveHistory(s) \in MeterState
  BY LeaveHistoryType, Zenon DEF Coherent, Views
<1>2. CASE s.historyMode
  <2>1. t \in MeterState
    BY <1>1, ClearInfoType, Zenon
  <2>2. /\ t.timer = s.timer
        /\ t.players = s.players /\ t.damage = s.damage
        /\ t.hi = NoSession /\ t.ci = Nil /\ ~t.ciHistory
        /\ t.plot = Nil /\ ~t.plotEnd /\ t.buff = Nil
    <3>1. /\ t.players = (IF s.historyMode THEN s.players ELSE {})
          /\ t.damage = (IF s.historyMode THEN s.damage ELSE {})
      BY <1>1, ClearInfoView, Zenon
    <3>2. /\ t.timer = s.timer
          /\ t.hi = NoSession /\ t.ci = Nil /\ ~t.ciHistory
          /\ t.plot = Nil /\ ~t.plotEnd /\ t.buff = Nil
      BY <1>1, ClearInfoView, Zenon
    <3> QED
      BY <1>2, <3>1, <3>2, Zenon
  <2>3. LeaveHistory(s) = u
    BY <1>2, Zenon DEF LeaveHistory
  <2> HIDE DEF t
  <2>4. /\ ~u.historyMode
        /\ u.timer = s.timer /\ u.players = s.players /\ u.damage = s.damage
        /\ u.hi = NoSession /\ u.ci = Nil /\ ~u.ciHistory
        /\ u.plot = Nil /\ ~u.plotEnd /\ u.buff = Nil
    BY <2>1, <2>2 DEF MeterState
  <2> HIDE DEF u
  <2> QED
    BY <1>1, <2>3, <2>4 DEF Coherent, Views, Timed, ModeAgrees, isRun
<1>3. CASE ~s.historyMode
  BY <1>3, Zenon DEF LeaveHistory
<1> QED
  BY <1>2, <1>3, Zenon

LEMMA StartView ==
  ASSUME NEW s, Coherent(s)
  PROVE  Coherent(Start(s)) /\ ~Start(s).historyMode /\ Start(s).timer = "run"
<1> DEFINE t == LeaveHistory(s)
           u == [t EXCEPT !.timer = "run", !.plotEnd = FALSE]
<1>1. Start(s) = u
  BY Zenon DEF Start
<1>2. Coherent(t) /\ ~t.historyMode
  BY LeaveHistoryView, Zenon
<1>3. u \in MeterState
  BY <1>1, StartType, Zenon DEF Coherent, Views
<1> HIDE DEF t
<1>4. /\ u.timer = "run" /\ ~u.plotEnd /\ u.historyMode = t.historyMode
      /\ u.players = t.players /\ u.damage = t.damage
      /\ u.hi = t.hi /\ u.ci = t.ci /\ u.ciHistory = t.ciHistory
      /\ u.plot = t.plot /\ u.buff = t.buff
  BY <1>2 DEF Coherent, Views, MeterState
<1> HIDE DEF u
<1> QED
  BY <1>1, <1>2, <1>3, <1>4 DEF Coherent, Views, Timed, ModeAgrees, isRun

\* Suspend also ends a plot that SetMazeState has ended under a running timer.
LEMMA SuspendView ==
  ASSUME NEW s, Views(s), s.players # {} => s.timer # "end"
  PROVE  Coherent(Suspend(s))
<1> DEFINE t == LeaveHistory(s)
           timer == IF t.timer = "run" THEN "suspend" ELSE t.timer
           u == [t EXCEPT !.timer = timer, !.plotEnd = TRUE]
<1>1. Suspend(s) = u
  BY Zenon DEF Suspend
<1>2. u \in MeterState /\ t \in MeterState
  BY <1>1, SuspendType, LeaveHistoryType, Zenon DEF Views
<1>3. Views(t) /\ ~t.historyMode /\ (t.players # {} => t.timer # "end")
  <2>1. CASE s.historyMode
    <3>1. Coherent(s)
      BY <2>1 DEF Coherent, Views, Timed, ModeAgrees, isRun
    <3> QED
      BY <3>1, LeaveHistoryView, Zenon DEF Coherent, Timed
  <2>2. CASE ~s.historyMode
    BY <2>2, Zenon DEF LeaveHistory
  <2> QED
    BY <2>1, <2>2, Zenon
<1> HIDE DEF t
<1>4. /\ timer # "run" /\ (timer = "end" => t.timer = "end")
  BY DEF MeterState
<1> HIDE DEF timer
<1>5. /\ u.timer = timer /\ u.plotEnd /\ u.historyMode = t.historyMode
      /\ u.players = t.players /\ u.damage = t.damage
      /\ u.hi = t.hi /\ u.ci = t.ci /\ u.ciHistory = t.ciHistory
      /\ u.plot = t.plot /\ u.buff = t.buff
  BY <1>2 DEF MeterState
<1> HIDE DEF u
<1> QED
  BY <1>1, <1>2, <1>3, <1>4, <1>5 DEF Coherent, Views, Timed, ModeAgrees, isRun

LEMMA SetMazeStateView ==
  ASSUME NEW s, Coherent(s), NEW end \in BOOLEAN
  PROVE  LET t == SetMazeState(s, end)
         IN /\ Views(t) /\ (t.players # {} => t.timer # "end")
            /\ ~end \/ ~isRun(s) => Coherent(t)
<1> DEFINE plotEnd == end \/ s.plotEnd
           u == [s EXCEPT !.mazeEnd = end, !.plotEnd = plotEnd]
<1>1. SetMazeState(s, end) = u
  BY Zenon DEF SetMazeState
<1>2. u \in MeterState /\ s \in MeterState
  BY <1>1, SetMazeStateType, Zenon DEF Coherent, Views
<1>3. (s.plotEnd => plotEnd) /\ (~end /\ ~s.plotEnd => ~plotEnd)
  OBVIOUS
<1> HIDE DEF plotEnd
<1>4. /\ u.plotEnd = plotEnd
      /\ u.timer = s.timer /\ u.historyMode = s.historyMode
      /\ u.players = s.players /\ u.damage = s.damage
      /\ u.hi = s.hi /\ u.ci = s.ci /\ u.ciHistory = s.ciHistory
      /\ u.plot = s.plot /\ u.buff = s.buff
  BY <1>2 DEF MeterState
<1> HIDE DEF u
<1> QED
  BY <1>1, <1>2, <1>3, <1>4 DEF Coherent, Views, Timed, ModeAgrees, isRun

LEMMA EndRunView ==
  ASSUME NEW s \in MeterState, ~s.historyMode,
         NEW n \in SessionId, NEW o \in Settings
  PROVE  LET t == EndRun(s, n, o)
         IN /\ t.timer = s.timer /\ t.historyMode = s.historyMode
            /\ t.players = {} /\ t.damage = {}
            /\ t.hi = NoSession /\ t.ci = Nil /\ ~t.ciHistory
            /\ t.plot = Nil /\ ~t.plotEnd /\ t.buff = Nil
<1> DEFINE run == [id |-> n, world |-> s.worldID, combat |-> s.ci]
           keepDB == o.teamTALF # 0 /\ s.worldID = LunarFall
           h == [NoSession EXCEPT !.combat = s.ci]
<1>1. CASE s.testMode
  <2>1. ClearInfo(s, FALSE) \in MeterState
    BY ClearInfoType, Zenon
  <2>2. SameView(ClearInfo(s, FALSE), EndRun(s, n, o))
    BY <1>1, <2>1, FreeSessionView, Zenon DEF EndRun
  <2> QED
    BY <2>2, ClearInfoView, Zenon DEF SameView
<1>2. CASE ~s.testMode
  <2>1. run \in Session
    BY Zenon DEF Session, MeterState
  <2>2. EndRun(s, n, o) = ClearInfo(PushBack(s, run), ~keepDB)
    BY <1>2, Zenon DEF EndRun
  <2> HIDE DEF run, keepDB
  <2>3. PushBack(s, run) \in MeterState /\ SameView(s, PushBack(s, run))
    BY <2>1, PushBackType, PushBackView, Zenon
  <2> QED
    BY <2>2, <2>3, ClearInfoView DEF SameView
<1> QED
  BY <1>1, <1>2, Zenon

\* A reset leaves no live run, and no session on screen.
LEMMA ClearView ==
  ASSUME NEW s, Coherent(s), NEW n \in SessionId, NEW o \in Settings
  PROVE  LET t == Clear(s, n, o)
         IN Coherent(t) /\ ~t.historyMode /\ t.timer = "end" /\ t.players = {}
<1> DEFINE r == IF s.players # {} THEN EndRun(s, n, o) ELSE CombatClear(s, TRUE)
           t == IF s.historyMode THEN LeaveHistory(s) ELSE [r EXCEPT !.mazeEnd = FALSE]
           u == [t EXCEPT !.testMode = FALSE, !.timer = "end"]
           Idle(v) == /\ v \in MeterState /\ ~v.historyMode
                      /\ v.players = {} /\ v.damage = {}
                      /\ v.hi = NoSession /\ ~v.ciHistory
                      /\ v.plot = Nil /\ v.buff = Nil
<1>1. Clear(s, n, o) = u
  BY Zenon DEF Clear
<1>2. s \in MeterState /\ Clear(s, n, o) \in MeterState
  BY ClearType, Zenon DEF Coherent, Views
<1>3. Idle(t)
  <2>1. CASE s.historyMode
    <3>1. /\ Coherent(LeaveHistory(s)) /\ ~LeaveHistory(s).historyMode
      BY LeaveHistoryView, Zenon
    <3>2. s.players = {} /\ s.damage = {}
      BY <2>1, Zenon DEF Coherent, Views, ModeAgrees
    <3>3. LeaveHistory(s).players = {}
      <4> DEFINE v == ClearInfo(s, FALSE)
      <4>1. v \in MeterState /\ v.players = {}
        BY <1>2, <2>1, <3>2, ClearInfoType, ClearInfoView, ZenonT(60)
      <4>2. LeaveHistory(s) = [v EXCEPT !.historyMode = FALSE]
        BY <2>1, Zenon DEF LeaveHistory
      <4> HIDE DEF v
      <4> QED
        BY <4>1, <4>2 DEF MeterState
    <3> QED
      BY <2>1, <3>1, <3>3, Zenon DEF Coherent, Views, ModeAgrees
  <2>2. CASE ~s.historyMode
    <3>1. r \in MeterState
      BY <1>2, EndRunType, CombatClearType, Zenon
    <3>3. /\ ~r.historyMode /\ r.players = {} /\ r.damage = {}
          /\ r.hi = NoSession /\ ~r.ciHistory /\ r.plot = Nil /\ r.buff = Nil
      <4>1. CASE s.players # {}
        <5>1. r = EndRun(s, n, o)
          BY <4>1, Zenon
        <5>2. /\ EndRun(s, n, o).historyMode = s.historyMode
              /\ EndRun(s, n, o).players = {} /\ EndRun(s, n, o).damage = {}
              /\ EndRun(s, n, o).hi = NoSession /\ ~EndRun(s, n, o).ciHistory
              /\ EndRun(s, n, o).plot = Nil /\ EndRun(s, n, o).buff = Nil
          BY <1>2, <2>2, EndRunView, ZenonT(60)
        <5> HIDE DEF r
        <5> QED
          BY <2>2, <5>1, <5>2, Zenon
      <4>2. CASE s.players = {}
        BY <1>2, <2>2, <4>2, CombatClearView, ZenonT(60) DEF Coherent, Views, ModeAgrees
      <4> QED
        BY <4>1, <4>2, Zenon
    <3> HIDE DEF r
    <3>4. t = [r EXCEPT !.mazeEnd = FALSE]
      BY <2>2, Zenon
    <3>5. Idle([r EXCEPT !.mazeEnd = FALSE])
      <4>1. [r EXCEPT !.mazeEnd = FALSE] \in MeterState
        BY <3>1, Zenon DEF MeterState
      <4> QED
        BY <3>1, <3>3, <4>1 DEF MeterState
    <3> QED
      BY <3>4, <3>5, Zenon
  <2> QED
    BY <2>1, <2>2, Zenon
<1> HIDE DEF t
<1>4. /\ ~u.historyMode /\ u.timer = "end"
      /\ u.players = {} /\ u.damage = {} /\ u.hi = NoSession /\ ~u.ciHistory
      /\ u.plot = Nil /\ u.buff = Nil
  BY <1>3 DEF MeterState
<1> HIDE DEF u
<1> QED
  BY <1>1, <1>2, <1>4 DEF Coherent, Views, Timed, ModeAgrees, isRun

LEMMA SetHistoryView ==
  ASSUME NEW s, Coherent(s), NEW h \in Session, NEW n \in SessionId, NEW o \in Settings
  PROVE  Coherent(SetHistory(s, h, n, o))
<1> DEFINE t == IF s.historyMode THEN s ELSE Clear(s, n, o)
           u == CombatSet(t, h.combat)
           v == [u EXCEPT !.buff = h.id, !.plot = h.id, !.plotEnd = TRUE,
                          !.hi = h, !.historyMode = TRUE]
<1>1. SetHistory(s, h, n, o) = IF h \notin ToSet(t.history) THEN t ELSE v
  BY Zenon DEF SetHistory
<1>2. SetHistory(s, h, n, o) \in MeterState
  BY SetHistoryType, Zenon DEF Coherent, Views
<1>3. Coherent(t) /\ t.timer = "end" /\ t.players = {} /\ t.damage = {}
  <2>1. CASE s.historyMode
    BY <2>1, Zenon DEF Coherent, Views, ModeAgrees
  <2>2. CASE ~s.historyMode
    BY <2>2, ClearView, Zenon DEF Coherent, Views
  <2> QED
    BY <2>1, <2>2, Zenon
<1> HIDE DEF t
<1>4. /\ u \in MeterState /\ u.timer = "end" /\ u.players = {} /\ u.damage = {}
      /\ u.ci = h.combat /\ u.ciHistory
  <2> DEFINE heap == IF t.ciHistory THEN t.heap ELSE t.heap \ {t.ci}
  <2>1. h.combat \in CombatId \cup {Nil} /\ t \in MeterState
    BY <1>3, Zenon DEF Session, Coherent, Views
  <2>2. u = [t EXCEPT !.heap = heap, !.ci = h.combat, !.ciHistory = TRUE]
    BY Zenon DEF CombatSet
  <2>3. u \in MeterState
    BY <2>1, CombatSetType, Zenon
  <2> HIDE DEF heap, u
  <2> QED
    BY <1>3, <2>1, <2>2, <2>3 DEF MeterState
<1> HIDE DEF u
<1>5. /\ v.timer = "end" /\ v.players = {} /\ v.damage = {}
      /\ v.ci = h.combat /\ v.ciHistory /\ v.historyMode
      /\ v.hi = h /\ v.plot = h.id /\ v.buff = h.id /\ v.plotEnd
  BY <1>4 DEF MeterState
<1>6. h # NoSession
  <2>1. h.id \in SessionId
    BY Zenon DEF Session
  <2>2. h.id # Nil
    BY <2>1, PoolAssumption
  <2>3. NoSession.id = Nil
    BY DEF NoSession
  <2> QED
    BY <2>2, <2>3, Zenon
<1> HIDE DEF v
<1>7. ASSUME v \in MeterState
      PROVE  Coherent(v)
  BY <1>5, <1>6, <1>7 DEF Coherent, Views, Timed, ModeAgrees, isRun
<1> QED
  BY <1>1, <1>2, <1>3, <1>7, Zenon

LEMMA InsertPlayerInfoView ==
  ASSUME NEW s, Coherent(s), ~s.historyMode, s.timer # "end",
         NEW p \in Player, NEW m \in Monster
  PROVE  Coherent(InsertPlayerInfo(s, p, m))
<1> DEFINE w == GetWorldID(s)
           counts == m \in s.db /\ (w \in DOMAIN StrictList => m \in StrictList[w])
           players == s.players \cup {p}
           damage == IF counts THEN s.damage \cup {<<p, m>>} ELSE s.damage
           u == [s EXCEPT !.players = players, !.damage = damage]
<1>1. InsertPlayerInfo(s, p, m) = u
  BY Zenon DEF InsertPlayerInfo
<1>2. s \in MeterState /\ InsertPlayerInfo(s, p, m) \in MeterState
  BY InsertPlayerInfoType, Zenon DEF Coherent, Views
<1>3. players # {}
  OBVIOUS
<1> HIDE DEF players, damage
<1>4. /\ u.players = players /\ u.timer = s.timer /\ u.historyMode = s.historyMode
      /\ u.hi = s.hi /\ u.ci = s.ci /\ u.ciHistory = s.ciHistory
      /\ u.plot = s.plot /\ u.plotEnd = s.plotEnd /\ u.buff = s.buff
  BY <1>2 DEF MeterState
<1> HIDE DEF u
<1> QED
  BY <1>1, <1>2, <1>3, <1>4 DEF Coherent, Views, Timed, ModeAgrees, isRun

LEMMA AddDamageView ==
  ASSUME NEW s, Coherent(s), NEW p \in Player, NEW m \in Monster,
         NEW hurts \in BOOLEAN, NEW c \in CombatId
  PROVE  Coherent(AddDamage(s, p, m, hurts, c))
<1> DEFINE t == IF hurts THEN CombatInsert(s, c) ELSE s
<1>1. Coherent(t)
  BY CombatInsertView, Zenon
<1> HIDE DEF t
<1>2. /\ Coherent(Start(t)) /\ ~Start(t).historyMode /\ Start(t).timer # "end"
  <2>1. "run" # "end"
    OBVIOUS
  <2> QED
    BY <1>1, <2>1, StartView, Zenon
<1>3. Coherent(InsertPlayerInfo(Start(t), p, m))
  BY <1>2, InsertPlayerInfoView, Zenon
<1>4. Coherent(Suspend(s))
  BY SuspendView, Zenon DEF Coherent, Timed
<1>5. AddDamage(s, p, m, hurts, c) \in {s, Suspend(s), InsertPlayerInfo(Start(t), p, m)}
  BY Zenon DEF AddDamage, t
<1> QED
  BY <1>3, <1>4, <1>5, Zenon

LEMMA KilledView ==
  ASSUME NEW s, Coherent(s), NEW m \in Monster, NEW n \in SessionId, NEW o \in Settings
  PROVE  Coherent(Killed(s, m, n, o))
<1> DEFINE isEndId == m \in EndIds \cup RaidBosses
           r == Clear(s, n, o)
           t == IF /\ o.teamTALF # 0 /\ GetWorldID(s) = LunarFall /\ m \in LunarBosses
                   /\ o.teamTALF = 2 => m = Queen
                THEN SetMazeState(r, isEndId) ELSE s
<1>1. isEndId \in BOOLEAN
  OBVIOUS
<1>2. Killed(s, m, n, o) \in {t, Suspend(t), Suspend(SetMazeState(t, TRUE))}
  BY Zenon DEF Killed
<1>3. Coherent(r) /\ ~isRun(r)
  <2>1. Coherent(r) /\ r.timer = "end"
    BY ClearView, Zenon
  <2> HIDE DEF r
  <2> QED
    BY <2>1 DEF isRun
<1> HIDE DEF isEndId, r
<1>4. Coherent(t)
  BY <1>1, <1>3, SetMazeStateView, Zenon
<1> HIDE DEF t
<1>5. Coherent(Suspend(t)) /\ Coherent(Suspend(SetMazeState(t, TRUE)))
  BY <1>4, SuspendView, SetMazeStateView, Zenon DEF Coherent, Timed
<1> QED
  BY <1>2, <1>4, <1>5, Zenon

\* A row without damage, for a player who was hit or used a skill
LEMMA RowAddedView ==
  ASSUME NEW s, Coherent(s), s.timer = "run", NEW p \in Player,
         [s EXCEPT !.players = @ \cup {p}] \in MeterState
  PROVE  Coherent([s EXCEPT !.players = @ \cup {p}])
<1> DEFINE players == s.players \cup {p}
           u == [s EXCEPT !.players = players]
<1>1. s \in MeterState
  BY Zenon DEF Coherent, Views
<1>2. players # {}
  OBVIOUS
<1> HIDE DEF players
<1>3. /\ u.players = players /\ u.timer = s.timer /\ u.historyMode = s.historyMode
      /\ u.hi = s.hi /\ u.ci = s.ci /\ u.ciHistory = s.ciHistory
      /\ u.plot = s.plot /\ u.plotEnd = s.plotEnd /\ u.buff = s.buff
  BY <1>1 DEF MeterState
<1>4. u \in MeterState
  BY Zenon DEF players
<1> HIDE DEF u
<1>5. Coherent(u)
  BY <1>2, <1>3, <1>4 DEF Coherent, Views, Timed, ModeAgrees, isRun
<1> QED
  BY <1>5, Zenon DEF u, players

LEMMA PacketView == Coherent(meter) /\ Packet => Coherent(meter')
<1> SUFFICES ASSUME Coherent(meter), Packet
             PROVE  Coherent(meter')
  OBVIOUS
<1> meter \in MeterState
  BY Zenon DEF Coherent, Views
<1>0. meter' \in MeterState
  BY PacketType, Zenon DEF TypeOK
<1>1. CASE DamagePacket
  <2>1. PICK p \in Player, m \in meter.db, hurts \in BOOLEAN, dead \in BOOLEAN,
             o \in Settings, n \in FreshSession, c \in FreshCombat :
               LET s == AddDamage(meter, p, m, hurts, c)
                   rankMode == o.soloRank /\ GetWorldID(s) \in RankWorlds
               IN meter' = IF dead /\ ~rankMode THEN Killed(s, m, n, o) ELSE s
    BY <1>1, Zenon DEF DamagePacket
  <2>2. m \in Monster
    BY Zenon DEF MeterState
  <2>3. Coherent(AddDamage(meter, p, m, hurts, c))
    BY <2>2, AddDamageView, FreshType, Zenon
  <2> QED
    BY <2>1, <2>2, <2>3, KilledView, FreshType, Zenon
<1>2. CASE TakeDamagePacket
  <2>1. PICK p \in Player, c \in FreshCombat :
          /\ isRun(meter)
          /\ meter' = [CombatInsert(meter, c) EXCEPT !.players = @ \cup {p}]
    BY <1>2, Zenon DEF TakeDamagePacket
  <2> DEFINE t == CombatInsert(meter, c)
  <2>2. Coherent(t)
    BY CombatInsertView, FreshType, Zenon
  <2>3. t.timer = "run"
    BY <2>1 DEF CombatInsert, isRun, MeterState
  <2>4. meter' = [t EXCEPT !.players = @ \cup {p}]
    BY <2>1, Zenon
  <2> HIDE DEF t
  <2> QED
    BY <1>0, <2>2, <2>3, <2>4, RowAddedView, Zenon
<1>3. CASE PlayerEventPacket
  <2>1. PICK p \in Player : isRun(meter) /\ meter' = [meter EXCEPT !.players = @ \cup {p}]
    BY <1>3, Zenon DEF PlayerEventPacket
  <2> QED
    BY <1>0, <2>1, RowAddedView, Zenon DEF isRun
<1>4. CASE CombatLogPacket
  BY <1>4, CombatInsertView, FreshType, Zenon DEF CombatLogPacket
<1>5. CASE InInfoMonsterPacket
  <2>1. PICK m \in Monster, c \in FreshCombat, stats \in BOOLEAN :
          meter' = [(IF stats THEN CombatInsert(meter, c) ELSE meter)
                    EXCEPT !.db = @ \cup {m}]
    BY <1>5, Zenon DEF InInfoMonsterPacket
  <2> DEFINE t == IF stats THEN CombatInsert(meter, c) ELSE meter
             db == t.db \cup {m}
  <2>2. Coherent(t)
    BY CombatInsertView, FreshType, Zenon
  <2>3. meter' = [t EXCEPT !.db = db]
    BY <2>1, Zenon
  <2> HIDE DEF t, db
  <2>4. SameView(t, meter')
    BY <2>2, <2>3 DEF SameView, MeterState, Coherent, Views
  <2> QED
    BY <1>0, <2>2, <2>4, SameViewKeeps, Zenon
<1>6. CASE MazeStartPacket
  BY <1>6, SetMazeStateView, Zenon DEF MazeStartPacket
<1>7. CASE MazeEndPacket
  BY <1>7, SetMazeStateView, SuspendView, Zenon DEF MazeEndPacket
<1>8. ASSUME NEW start \in BOOLEAN, MazeUpdateState(start)
      PROVE  Coherent(meter')
  <2>1. PICK o \in Settings :
          meter' =
            IF start
            THEN Start(SetMazeState([meter EXCEPT !.testMode = o.dontSave \/ @], FALSE))
            ELSE Suspend(SetMazeState([meter EXCEPT !.testMode = FALSE], TRUE))
    BY <1>8, Zenon DEF MazeUpdateState
  <2> DEFINE testMode == o.dontSave \/ meter.testMode
             t == [meter EXCEPT !.testMode = testMode]
             u == [meter EXCEPT !.testMode = FALSE]
  <2>2. testMode \in BOOLEAN
    OBVIOUS
  <2>3. meter' = IF start THEN Start(SetMazeState(t, FALSE))
                          ELSE Suspend(SetMazeState(u, TRUE))
    BY <2>1, Zenon
  <2> HIDE DEF testMode
  <2>4. t \in MeterState /\ u \in MeterState
    BY <2>2, ZenonT(60) DEF MeterState
  <2>5. SameView(meter, t) /\ SameView(meter, u)
    BY DEF SameView, MeterState
  <2> HIDE DEF t, u
  <2>6. Coherent(t) /\ Coherent(u)
    BY <2>4, <2>5, SameViewKeeps, Zenon
  <2>7. Coherent(SetMazeState(t, FALSE))
    BY <2>6, SetMazeStateView, Zenon
  <2>8. Coherent(Suspend(SetMazeState(u, TRUE)))
    BY <2>6, SetMazeStateView, SuspendView, Zenon
  <2> QED
    BY <2>3, <2>7, <2>8, StartView, Zenon
<1>9. CASE WorldChangePacket
  <2>1. PICK w \in World \ {NoWorld}, n \in FreshSession, o \in Settings :
          meter' = SetMazeState([Clear(meter, n, o) EXCEPT !.worldID = w], FALSE)
    BY <1>9, Zenon DEF WorldChangePacket
  <2> DEFINE t == Clear(meter, n, o)
             u == [t EXCEPT !.worldID = w]
  <2>2. Coherent(t)
    BY ClearView, FreshType, Zenon
  <2> HIDE DEF t
  <2>3. u \in MeterState /\ SameView(t, u)
    <3>1. t \in MeterState
      BY <2>2, Zenon DEF Coherent, Views
    <3>2. u \in MeterState
      BY <3>1, ZenonT(60) DEF MeterState
    <3> QED
      BY <3>1, <3>2 DEF SameView, MeterState
  <2>4. meter' = SetMazeState(u, FALSE)
    BY <2>1, Zenon DEF t
  <2> HIDE DEF u
  <2>5. Coherent(u)
    BY <2>2, <2>3, SameViewKeeps, Zenon
  <2> QED
    BY <2>4, <2>5, SetMazeStateView, Zenon
<1>10. CASE PresencePacket
  <2>1. SameView(meter, meter')
    BY <1>10 DEF PresencePacket, SameView, MeterState
  <2> QED
    BY <1>0, <2>1, SameViewKeeps, Zenon
<1>11. CASE MonsterKilledPacket
  <2>1. PICK m \in meter.db, c \in FreshCombat :
          meter' \in {CombatInsert(meter, c), Suspend(CombatInsert(meter, c))}
    BY <1>11, Zenon DEF MonsterKilledPacket
  <2>2. Coherent(CombatInsert(meter, c))
    BY CombatInsertView, FreshType, Zenon
  <2> QED
    BY <2>1, <2>2, SuspendView, Zenon DEF Coherent, Timed
<1> QED
  BY <1>1, <1>2, <1>3, <1>4, <1>5, <1>6, <1>7, <1>8, <1>9, <1>10, <1>11, Zenon DEF Packet

LEMMA CommandView == Coherent(meter) /\ Command => Coherent(meter')
<1> SUFFICES ASSUME Coherent(meter), Command
             PROVE  Coherent(meter')
  OBVIOUS
<1> meter \in MeterState
  BY Zenon DEF Coherent, Views
<1>0. meter' \in MeterState
  BY CommandType, Zenon DEF TypeOK
<1>1. ToSet(meter.history) \subseteq Session
  <2>1. meter.history \in Seq(Session)
    BY Zenon DEF MeterState
  <2> QED
    BY <2>1 DEF ToSet
<1>2. CASE Reset
  BY <1>2, ClearView, FreshType, Zenon DEF Reset
<1>3. CASE Toggle
  BY <1>3, SuspendView, StartView, Zenon DEF Toggle, Coherent, Timed
<1>4. ASSUME NEW t, Coherent(t)
      PROVE  Coherent([t EXCEPT !.selected = TRUE])
  <2> DEFINE u == [t EXCEPT !.selected = TRUE]
  <2>1. t \in MeterState
    BY <1>4, Zenon DEF Coherent, Views
  <2>2. u \in MeterState
    BY <2>1, ZenonT(60) DEF MeterState
  <2>3. SameView(t, u)
    BY <2>1 DEF SameView, MeterState
  <2> QED
    BY <1>4, <2>2, <2>3, SameViewKeeps, Zenon
<1>5. CASE SelectInMenu
  BY <1>1, <1>4, <1>5, SetHistoryView, FreshType, Zenon DEF SelectInMenu
<1>6. CASE SelectInUtility
  <2>1. PICK h \in ToSet(meter.history), n \in FreshSession, o \in Settings :
          meter' = SetHistory([Clear(meter, n, o) EXCEPT !.selected = TRUE], h, n, o)
    BY <1>6, Zenon DEF SelectInUtility
  <2>2. Coherent(Clear(meter, n, o))
    BY ClearView, FreshType, Zenon
  <2> QED
    BY <1>1, <1>4, <2>1, <2>2, SetHistoryView, FreshType, Zenon
<1>7. CASE RefreshHistoryList
  <2>1. SameView(meter, meter')
    BY <1>7 DEF RefreshHistoryList, SameView, MeterState
  <2> QED
    BY <1>0, <2>1, SameViewKeeps, Zenon
<1>8. CASE DeleteSelected
  <2>1. PICK n \in FreshSession, o \in Settings :
          meter' = ClearHistory(Clear(meter, n, o), meter.hi)
    BY <1>8, Zenon DEF DeleteSelected
  <2>2. Coherent(Clear(meter, n, o)) /\ Clear(meter, n, o) \in MeterState
    BY ClearView, FreshType, Zenon DEF Coherent, Views
  <2> QED
    BY <1>0, <2>1, <2>2, ClearHistoryView, SameViewKeeps, Zenon
<1>9. CASE ClearAll
  <2>1. PICK n \in FreshSession, o \in Settings : meter' = ClearVector(Clear(meter, n, o))
    BY <1>9, Zenon DEF ClearAll
  <2>2. Coherent(Clear(meter, n, o)) /\ Clear(meter, n, o) \in MeterState
    BY ClearView, FreshType, Zenon DEF Coherent, Views
  <2> QED
    BY <1>0, <2>1, <2>2, ClearVectorView, SameViewKeeps, Zenon
<1>10. CASE Helper
  <2>1. PICK p \in Player, c \in FreshCombat :
          LET s == [meter EXCEPT !.worldID = IF GetWorldID(meter) = NoWorld
                                             THEN MyRoom ELSE @,
                                 !.db = @ \cup {TestMonster}]
          IN meter' = [AddDamage(s, p, TestMonster, TRUE, c) EXCEPT !.testMode = TRUE]
    BY <1>10, Zenon DEF Helper
  <2> DEFINE worldID == IF GetWorldID(meter) = NoWorld THEN MyRoom ELSE meter.worldID
             db == meter.db \cup {TestMonster}
             s == [meter EXCEPT !.worldID = worldID, !.db = db]
             t == AddDamage(s, p, TestMonster, TRUE, c)
  <2>2. worldID \in World
    BY WorldAssumption, Zenon DEF MeterState
  <2>3. db \in SUBSET Monster
    BY MonsterAssumption DEF MeterState
  <2>4. meter' = [t EXCEPT !.testMode = TRUE]
    BY <2>1, Zenon
  <2> HIDE DEF worldID, db
  <2>5. s \in MeterState
    BY <2>2, <2>3, Zenon DEF MeterState
  <2>6. SameView(meter, s)
    BY <2>5 DEF SameView, MeterState
  <2> HIDE DEF s
  <2>7. Coherent(s)
    BY <2>5, <2>6, SameViewKeeps, Zenon
  <2>8. Coherent(t)
    BY <2>7, AddDamageView, MonsterAssumption, FreshType, Zenon
  <2> HIDE DEF t
  <2>9. SameView(t, meter')
    BY <2>4, <2>8 DEF SameView, MeterState, Coherent, Views
  <2> QED
    BY <1>0, <2>8, <2>9, SameViewKeeps, Zenon
<1>11. CASE SaveAndExit
  <2>1. SameView(meter, meter')
    BY <1>11 DEF SaveAndExit, SameView, MeterState
  <2> QED
    BY <1>0, <2>1, SameViewKeeps, Zenon
<1> QED
  BY <1>2, <1>3, <1>5, <1>6, <1>7, <1>8, <1>9, <1>10, <1>11, Zenon DEF Command

\* Coherent is inductive.
THEOREM CoherentAlways == Spec => []Coherent(meter)
<1>1. Init => Coherent(meter)
  <2> SUFFICES ASSUME Init
               PROVE  Coherent(meter)
    OBVIOUS
  <2>1. meter \in MeterState
    BY InitType, Zenon DEF TypeOK
  <2> QED
    BY <2>1 DEF Init, Coherent, Views, Timed, ModeAgrees, isRun
<1>2. Coherent(meter) /\ [Next]_meter => Coherent(meter)'
  BY PacketView, CommandView, Zenon DEF Next
<1> QED
  BY <1>1, <1>2, PTL DEF Spec

\* Whatever is on screen, the meter, its combat log, its plot and its buffs
\* agree on it, and nothing is recorded behind a filed session.
THEOREM ModeCorrect == Spec => []HistoryModeIsIdle
<1>1. Coherent(meter) => HistoryModeIsIdle
  BY Zenon DEF Coherent, Views, HistoryModeIsIdle
<1> QED
  BY <1>1, CoherentAlways, PTL

\* No run has rows unless its timer was started and not ended.
THEOREM RowsCorrect == Spec => []RowsAreTimed
<1>1. Coherent(meter) => RowsAreTimed
  BY Zenon DEF Coherent, Timed, RowsAreTimed
<1> QED
  BY <1>1, CoherentAlways, PTL

\* While the timer runs the plot takes samples, of the live run.
THEOREM PlotCorrect == Spec => []PlotFollowsTimer
<1>1. Coherent(meter) => PlotFollowsTimer
  BY Zenon DEF Coherent, Timed, PlotFollowsTimer
<1> QED
  BY <1>1, CoherentAlways, PTL

-----------------------------------------------------------------------------
(* The combat logs and the history *)

FiledLogs(q) == {q[i].combat : i \in DOMAIN q} \ {Nil}

\* The sessions of q and the live run share out the logs that exist, and no two
\* sessions have the same log or address.
Owns(q, heap, live) ==
  /\ heap = FiledLogs(q) \cup live
  /\ FiledLogs(q) \cap live = {}
  /\ \A i, j \in DOMAIN q :
       i # j => q[i].id # q[j].id /\ (q[i].combat = q[j].combat => q[i].combat = Nil)

\* The log of the run that is being recorded
Live(s) == IF s.ciHistory THEN {} ELSE {s.ci} \ {Nil}

\* CombatOwned and HistoryBounded in terms of positions, which is what the
\* eviction of one session out of the middle of the history preserves.
Kept(s) ==
  /\ Owns(s.history, s.heap, Live(s))
  /\ Len(s.history) <= s.curIndex

Shown(s) == s.historyMode => s.hi \in ToSet(s.history)

\* RemoveAt shifts what stands behind the position.
LEMMA RemoveAtIs ==
  ASSUME NEW S, NEW q \in Seq(S), NEW k \in 1..Len(q)
  PROVE  /\ RemoveAt(q, k) \in Seq(S)
         /\ Len(RemoveAt(q, k)) = Len(q) - 1
         /\ \A i \in 1..(Len(q) - 1) :
              RemoveAt(q, k)[i] = q[IF i < k THEN i ELSE i + 1]
<1> DEFINE a == SubSeq(q, 1, k - 1)
           b == SubSeq(q, k + 1, Len(q))
<1>1. a \in Seq(S) /\ Len(a) = k - 1 /\ \A i \in 1..(k - 1) : a[i] = q[i]
  OBVIOUS
<1>2. b \in Seq(S) /\ Len(b) = Len(q) - k /\ \A i \in 1..(Len(q) - k) : b[i] = q[k + i]
  OBVIOUS
<1>3. RemoveAt(q, k) = a \o b
  BY Zenon DEF RemoveAt
<1> HIDE DEF a, b
<1>4. a \o b \in Seq(S) /\ Len(a \o b) = Len(q) - 1
  <2>1. a \o b \in Seq(S) /\ Len(a \o b) = Len(a) + Len(b)
    <3>1. a \in Seq(S) /\ b \in Seq(S)
      BY <1>1, <1>2, Zenon
    <3> QED
      BY <3>1
  <2>2. (k - 1) + (Len(q) - k) = Len(q) - 1
    OBVIOUS
  <2> QED
    BY <1>1, <1>2, <2>1, <2>2, Zenon
<1>5. ASSUME NEW i \in 1..(Len(q) - 1)
      PROVE  (a \o b)[i] = q[IF i < k THEN i ELSE i + 1]
  <2>1. CASE i < k
    BY <1>1, <1>2, <2>1
  <2>2. CASE ~(i < k)
    <3>1. (a \o b)[i] = b[i - (k - 1)]
      BY <1>1, <1>2, <2>2
    <3>2. i - (k - 1) \in 1..(Len(q) - k) /\ k + (i - (k - 1)) = i + 1
      BY <2>2
    <3> QED
      BY <1>2, <2>2, <3>1, <3>2
  <2> QED
    BY <2>1, <2>2, Zenon
<1> QED
  BY <1>3, <1>4, <1>5, Zenon

\* A session that leaves takes its log with it.
LEMMA OwnsWithout ==
  ASSUME NEW q \in Seq(Session), NEW heap, NEW live, NEW k \in 1..Len(q),
         Owns(q, heap, live), Nil \notin live
  PROVE  Owns(RemoveAt(q, k), heap \ {q[k].combat}, live)
<1> DEFINE r == RemoveAt(q, k)
           old(i) == IF i < k THEN i ELSE i + 1
           new(i) == IF i < k THEN i ELSE i - 1
<1>1. /\ r \in Seq(Session) /\ DOMAIN r = 1..(Len(q) - 1)
      /\ \A i \in DOMAIN r : r[i] = q[old(i)]
  BY RemoveAtIs
<1>2. DOMAIN q = 1..Len(q) /\ Len(q) \in Nat
  OBVIOUS
<1>3. \A i \in DOMAIN r : old(i) \in DOMAIN q /\ old(i) # k
  BY <1>1, <1>2
<1>4. \A i, j \in DOMAIN r : i # j => old(i) # old(j)
  BY <1>1, <1>2
<1>5. \A i \in DOMAIN q \ {k} : new(i) \in DOMAIN r /\ old(new(i)) = i
  BY <1>1, <1>2
<1>6. k \in DOMAIN q
  OBVIOUS
<1> HIDE DEF r, old, new
<1>7. FiledLogs(r) = FiledLogs(q) \ {q[k].combat}
  <2>1. ASSUME NEW c \in FiledLogs(r)
        PROVE  c \in FiledLogs(q) \ {q[k].combat}
    <3>1. PICK i \in DOMAIN r : c = r[i].combat /\ c # Nil
      BY Zenon DEF FiledLogs
    <3> QED
      BY <1>1, <1>3, <1>6, <3>1, ZenonT(60) DEF FiledLogs, Owns
  <2>2. ASSUME NEW c \in FiledLogs(q), c # q[k].combat
        PROVE  c \in FiledLogs(r)
    <3>1. PICK i \in DOMAIN q : c = q[i].combat /\ c # Nil
      BY Zenon DEF FiledLogs
    <3>2. i \in DOMAIN q \ {k}
      BY <2>2, <3>1, Zenon
    <3>3. c = r[new(i)].combat
      BY <1>1, <1>5, <3>1, <3>2, Zenon
    <3> QED
      BY <1>5, <3>1, <3>2, <3>3, Zenon DEF FiledLogs
  <2> QED
    BY <2>1, <2>2, Zenon
<1>8. q[k].combat \notin live
  BY <1>6 DEF Owns, FiledLogs
<1>9. \A i, j \in DOMAIN r :
        i # j => r[i].id # r[j].id /\ (r[i].combat = r[j].combat => r[i].combat = Nil)
  <2> SUFFICES ASSUME NEW i \in DOMAIN r, NEW j \in DOMAIN r, i # j
               PROVE  r[i].id # r[j].id /\ (r[i].combat = r[j].combat => r[i].combat = Nil)
    OBVIOUS
  <2>1. r[i] = q[old(i)] /\ r[j] = q[old(j)]
    BY <1>1, Zenon
  <2>2. old(i) \in DOMAIN q /\ old(j) \in DOMAIN q /\ old(i) # old(j)
    BY <1>3, <1>4, Zenon
  <2> QED
    BY <2>1, <2>2, Zenon DEF Owns
<1>10. heap \ {q[k].combat} = FiledLogs(r) \cup live /\ FiledLogs(r) \cap live = {}
  BY <1>7, <1>8 DEF Owns
<1> QED
  BY <1>9, <1>10, Zenon DEF Owns, r

\* A run that is filed hands its log over.
LEMMA OwnsWith ==
  ASSUME NEW q \in Seq(Session), NEW heap, NEW run \in Session,
         Owns(q, heap, {run.combat} \ {Nil}), \A i \in DOMAIN q : q[i].id # run.id
  PROVE  Owns(Append(q, run), heap, {})
<1> DEFINE r == Append(q, run)
           n == Len(q) + 1
<1>1. /\ DOMAIN r = DOMAIN q \cup {n} /\ n \notin DOMAIN q
      /\ \A i \in DOMAIN q : r[i] = q[i]
      /\ r[n] = run
  OBVIOUS
<1> HIDE DEF r, n
<1>2. FiledLogs(r) = FiledLogs(q) \cup ({run.combat} \ {Nil})
  <2>1. {r[i].combat : i \in DOMAIN r} = {q[i].combat : i \in DOMAIN q} \cup {run.combat}
    <3>1. \A i \in DOMAIN q : r[i].combat = q[i].combat
      BY <1>1, Zenon
    <3>2. r[n].combat = run.combat
      BY <1>1, Zenon
    <3> QED
      BY <1>1, <3>1, <3>2
  <2> QED
    BY <2>1 DEF FiledLogs
<1>3. ASSUME NEW i \in DOMAIN q
      PROVE  q[i].combat = run.combat => run.combat = Nil
  BY <1>3 DEF Owns, FiledLogs
<1>4. \A i, j \in DOMAIN r :
        i # j => r[i].id # r[j].id /\ (r[i].combat = r[j].combat => r[i].combat = Nil)
  <2> SUFFICES ASSUME NEW i \in DOMAIN r, NEW j \in DOMAIN r, i # j
               PROVE  r[i].id # r[j].id /\ (r[i].combat = r[j].combat => r[i].combat = Nil)
    OBVIOUS
  <2>1. CASE i \in DOMAIN q /\ j \in DOMAIN q
    BY <1>1, <2>1, ZenonT(60) DEF Owns
  <2>2. CASE i = n
    <3>1. j \in DOMAIN q
      BY <1>1, <2>2, Zenon
    <3> QED
      BY <1>1, <1>3, <2>2, <3>1, Zenon
  <2>3. CASE j = n
    <3>1. i \in DOMAIN q
      BY <1>1, <2>3, Zenon
    <3> QED
      BY <1>1, <1>3, <2>3, <3>1, Zenon
  <2> QED
    BY <1>1, <2>1, <2>2, <2>3, Zenon
<1>5. heap = FiledLogs(r) \cup {} /\ FiledLogs(r) \cap {} = {}
  BY <1>2 DEF Owns
<1> QED
  BY <1>4, <1>5, Zenon DEF Owns, r

\* A log that is deleted with the live run was the live run's.
LEMMA OwnsNoMore ==
  ASSUME NEW q, NEW heap, NEW ci, Owns(q, heap, {ci} \ {Nil})
  PROVE  Owns(q, heap \ {ci}, {})
<1>1. heap \ {ci} = FiledLogs(q) \cup {} /\ FiledLogs(q) \cap {} = {}
  BY DEF Owns, FiledLogs
<1> QED
  BY <1>1, Zenon DEF Owns

LEMMA OwnsNew ==
  ASSUME NEW q, NEW heap, NEW c, Owns(q, heap, {}), c \notin heap, c # Nil
  PROVE  Owns(q, heap \cup {c}, {c} \ {Nil})
<1>1. /\ heap \cup {c} = FiledLogs(q) \cup ({c} \ {Nil})
      /\ FiledLogs(q) \cap ({c} \ {Nil}) = {}
  BY DEF Owns
<1> QED
  BY <1>1, Zenon DEF Owns

Filing(s) == Kept(s) /\ Shown(s)

\* A call that leaves these fields alone keeps both parts.
SameLogs(s, t) ==
  /\ t.history = s.history /\ t.curIndex = s.curIndex /\ t.heap = s.heap
  /\ t.ci = s.ci /\ t.ciHistory = s.ciHistory
  /\ t.historyMode = s.historyMode /\ t.hi = s.hi

\* What a step of the live run does not touch
SameRun(s, t) ==
  /\ t.history = s.history /\ t.worldID = s.worldID /\ t.testMode = s.testMode

\* A call that does not end the run, nor changes what it will be filed as
GoesOn(s, t) ==
  /\ SameRun(s, t)
  /\ s.players # {} => t.players # {} /\ (s.ci # Nil => t.ci = s.ci)

\* What is left of the run of s when it was filed, under n, or dropped
EndsRun(s, n, t) ==
  /\ s.players = {} \/ s.testMode => t.history = s.history
  /\ s.players # {} /\ ~s.testMode =>
       \E q \in Seq(Session) :
         t.history = Append(q, [id |-> n, world |-> s.worldID, combat |-> s.ci])

\* The address a run of s is filed under is not a filed session's.
NewFor(s, n) ==
  n \in SessionId /\ (s.players # {} => n \notin {h.id : h \in ToSet(s.history)})

LEMMA SameLogsKeeps ==
  ASSUME NEW s, NEW t, SameLogs(s, t)
  PROVE  (Kept(s) => Kept(t)) /\ (Filing(s) => Filing(t))
BY Zenon DEF SameLogs, Filing, Kept, Shown, Live

LEMMA NilNotLive ==
  ASSUME NEW s
  PROVE  Nil \notin Live(s)
BY DEF Live

LEMMA CombatInsertKept ==
  ASSUME NEW s \in MeterState, Kept(s), NEW c \in CombatId, c \notin s.heap
  PROVE  LET t == CombatInsert(s, c)
         IN /\ Kept(t) /\ SameRun(s, t)
            /\ t.historyMode = s.historyMode /\ t.hi = s.hi
            /\ t.players = s.players
            /\ s.ci # Nil => t.ci = s.ci
<1> DEFINE heap == s.heap \cup {c}
           t == [s EXCEPT !.ci = c, !.heap = heap]
<1>1. CASE s.ciHistory \/ isTownMap(s) \/ s.ci # Nil
  BY <1>1, Zenon DEF CombatInsert, SameRun
<1>2. CASE ~(s.ciHistory \/ isTownMap(s) \/ s.ci # Nil)
  <2>1. CombatInsert(s, c) = t
    BY <1>2, Zenon DEF CombatInsert
  <2>2. c # Nil
    BY PoolAssumption
  <2>3. Live(s) = {}
    BY <1>2 DEF Live
  <2>4. Owns(s.history, heap, {c} \ {Nil})
    BY <2>2, <2>3, OwnsNew, Zenon DEF Kept
  <2> HIDE DEF heap
  <2>5. /\ t.history = s.history /\ t.worldID = s.worldID /\ t.testMode = s.testMode
        /\ t.curIndex = s.curIndex /\ t.heap = heap
        /\ t.historyMode = s.historyMode /\ t.hi = s.hi
        /\ t.ci = c /\ t.ciHistory = s.ciHistory /\ t.players = s.players
    BY DEF MeterState
  <2> HIDE DEF t
  <2>6. Live(t) = {c} \ {Nil}
    BY <1>2, <2>5, Zenon DEF Live
  <2> QED
    BY <1>2, <2>1, <2>4, <2>5, <2>6, Zenon DEF Kept, SameRun
<1> QED
  BY <1>1, <1>2, Zenon

LEMMA CombatClearIs ==
  ASSUME NEW s \in MeterState, NEW b
  PROVE  LET t == CombatClear(s, b)
         IN /\ SameRun(s, t) /\ t.curIndex = s.curIndex
            /\ t.heap = IF b /\ ~s.ciHistory THEN s.heap \ {s.ci} ELSE s.heap
<1> DEFINE heap == IF b /\ ~s.ciHistory THEN s.heap \ {s.ci} ELSE s.heap
<1>1. CombatClear(s, b) = [s EXCEPT !.heap = heap, !.ci = Nil, !.ciHistory = FALSE]
  BY Zenon DEF CombatClear
<1> HIDE DEF heap
<1>2. CombatClear(s, b).heap = heap
  BY <1>1 DEF MeterState
<1>3. SameRun(s, CombatClear(s, b)) /\ CombatClear(s, b).curIndex = s.curIndex
  BY <1>1 DEF MeterState, SameRun
<1> QED
  BY <1>2, <1>3, Zenon DEF heap

\* ClearInfo forgets the log without deleting it.
LEMMA ClearInfoIs ==
  ASSUME NEW s \in MeterState, NEW clear
  PROVE  LET t == ClearInfo(s, clear)
         IN SameRun(s, t) /\ t.curIndex = s.curIndex /\ t.heap = s.heap
<1> DEFINE u == CombatClear(s, FALSE)
           db == IF clear THEN {} ELSE u.db
<1>1. u \in MeterState
  BY CombatClearType, Zenon
<1>2. SameRun(s, u) /\ u.curIndex = s.curIndex /\ u.heap = s.heap
  BY CombatClearIs, Zenon
<1>3. ClearInfo(s, clear) =
        [u EXCEPT !.players = IF s.historyMode THEN @ ELSE {},
                  !.damage = IF s.historyMode THEN @ ELSE {},
                  !.db = db, !.plot = Nil, !.plotEnd = FALSE, !.buff = Nil,
                  !.hi = NoSession, !.selected = FALSE]
  BY Zenon DEF ClearInfo
<1> HIDE DEF u, db
<1> QED
  BY <1>1, <1>2, <1>3 DEF MeterState, SameRun

LEMMA LeaveHistoryKept ==
  ASSUME NEW s, Views(s), Filing(s)
  PROVE  LET t == LeaveHistory(s)
         IN Filing(t) /\ GoesOn(s, t) /\ ~t.historyMode
<1> DEFINE u == ClearInfo(s, FALSE)
           t == [u EXCEPT !.historyMode = FALSE]
<1> s \in MeterState
  BY Zenon DEF Views
<1>1. CASE ~s.historyMode
  BY <1>1, Zenon DEF LeaveHistory, SameRun, GoesOn
<1>2. CASE s.historyMode
  <2>1. u \in MeterState /\ SameRun(s, u) /\ u.curIndex = s.curIndex /\ u.heap = s.heap
    BY ClearInfoType, ClearInfoIs, Zenon
  <2>2. u.ci = Nil /\ ~u.ciHistory
    BY ClearInfoView, Zenon
  <2>3. LeaveHistory(s) = t
    BY <1>2, Zenon DEF LeaveHistory
  <2>4. Live(s) = {} /\ s.players = {}
    BY <1>2, Zenon DEF Live, Views, ModeAgrees
  <2> HIDE DEF u
  <2>5. /\ ~t.historyMode /\ t.ci = Nil /\ SameRun(s, t)
        /\ t.curIndex = s.curIndex /\ t.heap = s.heap
    BY <2>1, <2>2 DEF MeterState, SameRun
  <2> HIDE DEF t
  <2>6. Live(t) = {}
    BY <2>5 DEF Live
  <2> QED
    BY <2>3, <2>4, <2>5, <2>6, Zenon DEF Filing, Kept, Shown, SameRun, GoesOn
<1> QED
  BY <1>1, <1>2, Zenon

LEMMA StartKept ==
  ASSUME NEW s, Views(s), Filing(s)
  PROVE  Filing(Start(s)) /\ GoesOn(s, Start(s)) /\ ~Start(s).historyMode
<1> DEFINE t == LeaveHistory(s)
           u == [t EXCEPT !.timer = "run", !.plotEnd = FALSE]
<1>1. Start(s) = u
  BY Zenon DEF Start
<1>2. t \in MeterState /\ Filing(t) /\ GoesOn(s, t) /\ ~t.historyMode
  BY LeaveHistoryType, LeaveHistoryKept, Zenon DEF Views
<1> HIDE DEF t
<1>3. SameLogs(t, u) /\ GoesOn(t, u)
  BY <1>2 DEF MeterState, SameLogs, SameRun, GoesOn
<1> QED
  BY <1>1, <1>2, <1>3, SameLogsKeeps, Zenon DEF GoesOn, SameRun, SameLogs

LEMMA SuspendKept ==
  ASSUME NEW s, Views(s), Filing(s)
  PROVE  Filing(Suspend(s)) /\ GoesOn(s, Suspend(s))
<1> DEFINE t == LeaveHistory(s)
           timer == IF t.timer = "run" THEN "suspend" ELSE t.timer
           u == [t EXCEPT !.timer = timer, !.plotEnd = TRUE]
<1>1. Suspend(s) = u
  BY Zenon DEF Suspend
<1>2. t \in MeterState /\ Filing(t) /\ GoesOn(s, t) /\ ~t.historyMode
  BY LeaveHistoryType, LeaveHistoryKept, Zenon DEF Views
<1> HIDE DEF t, timer
<1>3. SameLogs(t, u) /\ GoesOn(t, u)
  BY <1>2 DEF MeterState, SameLogs, SameRun, GoesOn
<1> QED
  BY <1>1, <1>2, <1>3, SameLogsKeeps, Zenon DEF GoesOn, SameRun, SameLogs

LEMMA SetMazeStateKept ==
  ASSUME NEW s \in MeterState, Filing(s), NEW end
  PROVE  Filing(SetMazeState(s, end)) /\ GoesOn(s, SetMazeState(s, end))
<1> DEFINE plotEnd == end \/ s.plotEnd
           u == [s EXCEPT !.mazeEnd = end, !.plotEnd = plotEnd]
<1>1. SetMazeState(s, end) = u
  BY Zenon DEF SetMazeState
<1> HIDE DEF plotEnd
<1>2. SameLogs(s, u) /\ GoesOn(s, u)
  BY DEF MeterState, SameLogs, SameRun, GoesOn
<1> QED
  BY <1>1, <1>2, SameLogsKeeps, Zenon

\* What leaves the history is one session, with its log.
LEMMA ClearHistoryKept ==
  ASSUME NEW s \in MeterState, Kept(s), NEW h \in ToSet(s.history)
  PROVE  LET t == ClearHistory(s, h)
         IN /\ Kept(t)
            /\ Len(s.history) = Len(t.history) + 1
            /\ t.curIndex = s.curIndex /\ t.worldID = s.worldID
            /\ \A i \in DOMAIN t.history : \E j \in DOMAIN s.history :
                 t.history[i] = s.history[j]
<1> DEFINE itr == CHOOSE i \in DOMAIN s.history : s.history[i] = h
           q == RemoveAt(s.history, itr)
           heap == s.heap \ {h.combat}
           u == [s EXCEPT !.history = q]
           t == [u EXCEPT !.heap = heap]
<1>1. s.history \in Seq(Session) /\ s.curIndex \in Nat
  BY DEF MeterState
<1>2. itr \in 1..Len(s.history) /\ s.history[itr] = h
  BY <1>1 DEF ToSet
<1>3. ClearHistory(s, h) = t
  <2>1. s.history # <<>>
    BY <1>1, <1>2
  <2>2. ClearHistory(s, h) = FreeSession(u, h)
    BY <2>1, Zenon DEF ClearHistory
  <2>3. u.heap = s.heap
    BY DEF MeterState
  <2> QED
    BY <2>2, <2>3, Zenon DEF FreeSession
<1>4. Owns(q, heap, Live(s))
  BY <1>1, <1>2, OwnsWithout, NilNotLive, Zenon DEF Kept
<1>5. q \in Seq(Session) /\ Len(q) = Len(s.history) - 1
  BY <1>1, <1>2, RemoveAtIs, Zenon
<1>6. \A i \in DOMAIN q : \E j \in DOMAIN s.history : q[i] = s.history[j]
  <2> SUFFICES ASSUME NEW i \in DOMAIN q
               PROVE  \E j \in DOMAIN s.history : q[i] = s.history[j]
    OBVIOUS
  <2>1. i \in 1..(Len(s.history) - 1)
    BY <1>5
  <2>2. q[i] = s.history[IF i < itr THEN i ELSE i + 1]
    BY <1>1, <1>2, <2>1, RemoveAtIs, Zenon
  <2> HIDE DEF q, itr
  <2>3. (IF i < itr THEN i ELSE i + 1) \in DOMAIN s.history
    BY <1>1, <1>2, <2>1
  <2> QED
    BY <2>2, <2>3, Zenon
<1> HIDE DEF heap, q
<1>7. /\ t.history = q /\ t.heap = heap /\ t.curIndex = s.curIndex
      /\ t.worldID = s.worldID /\ t.ci = s.ci /\ t.ciHistory = s.ciHistory
  BY DEF MeterState
<1> HIDE DEF t
<1>8. Live(t) = Live(s)
  BY <1>7, Zenon DEF Live
<1>9. Len(s.history) = Len(q) + 1 /\ Len(q) <= s.curIndex
  <2>1. Len(q) \in Nat /\ Len(s.history) \in Nat
    BY <1>1, <1>5
  <2> QED
    BY <1>1, <1>5, <2>1 DEF Kept
<1> QED
  BY <1>3, <1>4, <1>6, <1>7, <1>8, <1>9, Zenon DEF Kept

\* The run that ends hands its log to the session it becomes.
LEMMA EndRunKept ==
  ASSUME NEW s \in MeterState, Kept(s), ~s.ciHistory,
         NEW n \in SessionId, n \notin {h.id : h \in ToSet(s.history)},
         NEW o \in Settings
  PROVE  LET t == EndRun(s, n, o)
             run == [id |-> n, world |-> s.worldID, combat |-> s.ci]
         IN /\ Kept(t)
            /\ s.testMode => t.history = s.history
            /\ ~s.testMode => \E q \in Seq(Session) : t.history = Append(q, run)
<1> DEFINE run == [id |-> n, world |-> s.worldID, combat |-> s.ci]
           keepDB == o.teamTALF # 0 /\ s.worldID = LunarFall
           late == s.curIndex >= HistorySize /\ s.history # <<>>
           r == IF late THEN ClearHistory(s, Head(s.history)) ELSE s
           curIndex == IF r.curIndex < HistorySize THEN r.curIndex + 1 ELSE r.curIndex
           p == [r EXCEPT !.history = Append(r.history, run), !.curIndex = curIndex]
           t == ClearInfo(p, ~keepDB)
<1>1. CASE s.testMode
  <2> DEFINE u == ClearInfo(s, FALSE)
             heap == u.heap \ {s.ci}
             v == [u EXCEPT !.heap = heap]
  <2>1. /\ u \in MeterState /\ u.ci = Nil /\ ~u.ciHistory
        /\ u.history = s.history /\ u.curIndex = s.curIndex /\ u.heap = s.heap
    BY ClearInfoType, ClearInfoView, ClearInfoIs, Zenon DEF SameRun
  <2>2. EndRun(s, n, o) = v
    <3>1. [NoSession EXCEPT !.combat = s.ci].combat = s.ci
      BY DEF NoSession
    <3> QED
      BY <1>1, <3>1, Zenon DEF EndRun, FreeSession
  <2>3. Owns(s.history, s.heap \ {s.ci}, {})
    BY OwnsNoMore, Zenon DEF Kept, Live
  <2> HIDE DEF u
  <2>4. /\ v.ci = Nil /\ ~v.ciHistory /\ v.heap = s.heap \ {s.ci}
        /\ v.history = s.history /\ v.curIndex = s.curIndex
    BY <2>1 DEF MeterState
  <2> HIDE DEF v
  <2>5. Live(v) = {}
    BY <2>4 DEF Live
  <2> QED
    BY <1>1, <2>2, <2>3, <2>4, <2>5, Zenon DEF Kept
<1>2. CASE ~s.testMode
  <2>1. EndRun(s, n, o) = t
    BY <1>2, Zenon DEF EndRun, PushBack
  <2>2. s.history \in Seq(Session) /\ s.curIndex \in 0..HistorySize
    BY Zenon DEF MeterState
  <2>3. run \in Session /\ run.combat = s.ci /\ run.id = n
    BY DEF Session, MeterState
  <2>4. \A i \in DOMAIN s.history : s.history[i].id # n
    BY Zenon DEF ToSet
  <2>5. /\ r \in MeterState /\ Kept(r) /\ r.ci = s.ci /\ r.ciHistory = s.ciHistory
        /\ r.curIndex = s.curIndex
        /\ \A i \in DOMAIN r.history : r.history[i].id # n
    <3>1. CASE late
      <4> DEFINE h == Head(s.history)
      <4>1. h \in ToSet(s.history)
        BY <2>2, <3>1 DEF ToSet
      <4>2. r = ClearHistory(s, h)
        BY <3>1, Zenon
      <4> HIDE DEF h, r
      <4>3. SameView(s, r) /\ r \in MeterState
        BY <4>2, ClearHistoryView, ClearHistoryType, Zenon
      <4>4. /\ Kept(r) /\ r.curIndex = s.curIndex
            /\ \A i \in DOMAIN r.history : \E j \in DOMAIN s.history :
                 r.history[i] = s.history[j]
        BY <4>1, <4>2, ClearHistoryKept, Zenon
      <4> QED
        BY <2>4, <4>3, <4>4, Zenon DEF SameView
    <3>2. CASE ~late
      BY <2>4, <3>2, Zenon
    <3> QED
      BY <3>1, <3>2, Zenon
  <2>6. Len(r.history) + 1 <= curIndex
    <3>1. CASE late
      <4>1. Head(s.history) \in ToSet(s.history)
        BY <2>2, <3>1 DEF ToSet
      <4>2. r = ClearHistory(s, Head(s.history))
        BY <3>1, Zenon
      <4>3. Len(s.history) = Len(r.history) + 1 /\ r.curIndex = s.curIndex
        BY <4>1, <4>2, ClearHistoryKept, Zenon
      <4>4. ~(r.curIndex < HistorySize)
        BY <2>2, <3>1, <4>3, SizeAssumption
      <4> QED
        BY <4>3, <4>4, Zenon DEF Kept
    <3>2. CASE ~late
      <4>1. r = s /\ Len(s.history) <= s.curIndex
        BY <3>2, Zenon DEF Kept
      <4>2. CASE s.curIndex < HistorySize
        BY <2>2, <4>1, <4>2
      <4>3. CASE ~(s.curIndex < HistorySize)
        <5>1. s.history = <<>> /\ s.curIndex = HistorySize
          BY <2>2, <3>2, <4>3, SizeAssumption
        <5> QED
          BY <4>1, <5>1, SizeAssumption
      <4> QED
        BY <4>2, <4>3, Zenon
    <3> QED
      BY <3>1, <3>2, Zenon
  <2>7. curIndex \in 0..HistorySize /\ r.history \in Seq(Session)
    <3>1. r.curIndex \in 0..HistorySize /\ r.history \in Seq(Session)
      BY <2>5, Zenon DEF MeterState
    <3> HIDE DEF r
    <3> QED
      BY <3>1, SizeAssumption
  <2> HIDE DEF r, run, curIndex, keepDB
  <2>8. Owns(Append(r.history, run), r.heap, {})
    <3>1. Live(r) = {run.combat} \ {Nil}
      BY <2>3, <2>5, Zenon DEF Live
    <3>2. Owns(r.history, r.heap, {run.combat} \ {Nil})
      BY <2>5, <3>1, Zenon DEF Kept
    <3>3. \A i \in DOMAIN r.history : r.history[i].id # run.id
      BY <2>3, <2>5, Zenon
    <3> QED
      BY <2>3, <2>7, <3>2, <3>3, OwnsWith, Zenon
  <2>9. /\ p \in MeterState
        /\ p.history = Append(r.history, run) /\ p.curIndex = curIndex /\ p.heap = r.heap
    <3> DEFINE q == Append(r.history, run)
    <3>1. q \in Seq(Session)
      BY <2>3, <2>7
    <3> HIDE DEF q
    <3>2. p \in MeterState
      BY <2>5, <2>7, <3>1, ZenonT(60) DEF MeterState, q
    <3>3. p.history = q /\ p.curIndex = curIndex /\ p.heap = r.heap
      BY <2>5 DEF MeterState, q
    <3> QED
      BY <3>2, <3>3, Zenon DEF q
  <2> HIDE DEF p
  <2>10. /\ t.ci = Nil /\ ~t.ciHistory
         /\ t.history = p.history /\ t.curIndex = p.curIndex /\ t.heap = p.heap
    BY <2>9, ClearInfoView, ClearInfoIs, Zenon DEF SameRun
  <2> HIDE DEF t
  <2>11. Live(t) = {}
    BY <2>10 DEF Live
  <2>12. Len(Append(r.history, run)) <= curIndex
    BY <2>3, <2>6, <2>7
  <2>13. Kept(t) /\ t.history = Append(r.history, run)
    BY <2>8, <2>9, <2>10, <2>11, <2>12, Zenon DEF Kept
  <2> QED
    BY <1>2, <2>1, <2>7, <2>13, Zenon DEF run
<1> QED
  BY <1>1, <1>2, Zenon

\* A reset files the run that has rows, outside test mode, as the newest session.
LEMMA ClearKept ==
  ASSUME NEW s, Coherent(s), Filing(s),
         NEW n, NewFor(s, n), NEW o \in Settings
  PROVE  LET t == Clear(s, n, o)
         IN Filing(t) /\ EndsRun(s, n, t)
<1> DEFINE e == EndRun(s, n, o)
           c == CombatClear(s, TRUE)
           r == IF s.players # {} THEN e ELSE c
           t == IF s.historyMode THEN LeaveHistory(s) ELSE [r EXCEPT !.mazeEnd = FALSE]
           u == [t EXCEPT !.testMode = FALSE, !.timer = "end"]
<1>1. Clear(s, n, o) = u
  BY Zenon DEF Clear
<1>2. /\ s \in MeterState /\ Views(s) /\ Kept(s) /\ n \in SessionId
      /\ s.players # {} => n \notin {h.id : h \in ToSet(s.history)}
  BY Zenon DEF Coherent, Views, Filing, NewFor
<1>3. t \in MeterState /\ Filing(t) /\ EndsRun(s, n, t)
  <2>1. CASE s.historyMode
    <3>1. s.players = {}
      BY <2>1, Zenon DEF Coherent, Views, ModeAgrees
    <3>2. Filing(LeaveHistory(s)) /\ LeaveHistory(s).history = s.history
      BY <1>2, LeaveHistoryKept, Zenon DEF SameRun, GoesOn
    <3> QED
      BY <1>2, <2>1, <3>1, <3>2, LeaveHistoryType, Zenon DEF EndsRun
  <2>2. CASE ~s.historyMode
    <3>1. ~s.ciHistory
      BY <1>2, <2>2, Zenon DEF Views, ModeAgrees
    <3>2. r \in MeterState /\ ~r.historyMode
      <4>1. e \in MeterState /\ e.historyMode = s.historyMode
        BY <1>2, <2>2, EndRunType, EndRunView, Zenon
      <4>2. c \in MeterState /\ c.historyMode = s.historyMode
        BY <1>2, CombatClearType, CombatClearView, Zenon
      <4> QED
        BY <2>2, <4>1, <4>2, Zenon
    <3>3. Kept(r) /\ EndsRun(s, n, r)
      <4>1. CASE s.players # {}
        <5>1. Kept(e) /\ EndsRun(s, n, e)
          BY <1>2, <3>1, <4>1, EndRunKept, Zenon DEF EndsRun
        <5> HIDE DEF e
        <5> QED
          BY <4>1, <5>1, Zenon
      <4>2. CASE s.players = {}
        <5>1. /\ c.history = s.history /\ c.curIndex = s.curIndex
              /\ c.heap = s.heap \ {s.ci} /\ c.ci = Nil /\ ~c.ciHistory
          BY <1>2, <3>1, CombatClearIs, CombatClearView, Zenon DEF SameRun
        <5>2. Live(s) = {s.ci} \ {Nil} /\ Live(c) = {}
          BY <3>1, <5>1 DEF Live
        <5>3. Owns(s.history, s.heap \ {s.ci}, {})
          BY <1>2, <5>2, OwnsNoMore, Zenon DEF Kept
        <5>4. Kept(c)
          BY <1>2, <5>1, <5>2, <5>3, Zenon DEF Kept
        <5> QED
          BY <4>2, <5>1, <5>4, Zenon DEF EndsRun
      <4> QED
        BY <4>1, <4>2, Zenon
    <3>4. t = [r EXCEPT !.mazeEnd = FALSE]
      BY <2>2, Zenon
    <3> HIDE DEF r, t
    <3>5. t \in MeterState
      BY <3>2, <3>4, Zenon DEF MeterState
    <3>6. SameLogs(r, t)
      BY <3>2, <3>4 DEF MeterState, SameLogs
    <3>7. Filing(r)
      BY <3>2, <3>3, Zenon DEF Filing, Shown
    <3> QED
      BY <3>3, <3>5, <3>6, <3>7, SameLogsKeeps, Zenon DEF SameLogs, EndsRun
  <2> QED
    BY <2>1, <2>2, Zenon
<1> HIDE DEF t
<1>4. SameLogs(t, u)
  BY <1>3 DEF MeterState, SameLogs
<1>5. Filing(u) /\ EndsRun(s, n, u)
  BY <1>3, <1>4, SameLogsKeeps, Zenon DEF SameLogs, EndsRun
<1> QED
  BY <1>1, <1>5, Zenon

\* A session is shown while it is filed, and its log stays its own.
LEMMA SetHistoryKept ==
  ASSUME NEW s, Coherent(s), Filing(s), NEW h \in Session,
         NEW n, NewFor(s, n), NEW o \in Settings
  PROVE  LET t == SetHistory(s, h, n, o)
         IN Filing(t) /\ EndsRun(s, n, t)
<1> DEFINE r == Clear(s, n, o)
           t == IF s.historyMode THEN s ELSE r
           heap == IF t.ciHistory THEN t.heap ELSE t.heap \ {t.ci}
           u == [t EXCEPT !.heap = heap, !.ci = h.combat, !.ciHistory = TRUE]
           v == [u EXCEPT !.buff = h.id, !.plot = h.id, !.plotEnd = TRUE,
                          !.hi = h, !.historyMode = TRUE]
<1>1. SetHistory(s, h, n, o) = IF h \notin ToSet(t.history) THEN t ELSE v
  BY Zenon DEF SetHistory, CombatSet
<1>2. t \in MeterState /\ Filing(t) /\ EndsRun(s, n, t)
  <2>1. s \in MeterState /\ (s.historyMode => s.players = {})
    BY Zenon DEF Coherent, Views, ModeAgrees
  <2>2. r \in MeterState /\ Filing(r) /\ EndsRun(s, n, r)
    BY <2>1, ClearType, ClearKept, Zenon DEF NewFor
  <2> HIDE DEF r
  <2> QED
    BY <2>1, <2>2, Zenon DEF EndsRun
<1> HIDE DEF t
<1>3. CASE h \notin ToSet(t.history)
  BY <1>1, <1>2, <1>3, Zenon
<1>4. CASE h \in ToSet(t.history)
  <2>1. Owns(t.history, heap, {})
    <3>1. CASE t.ciHistory
      BY <1>2, <3>1, Zenon DEF Filing, Kept, Live
    <3>2. CASE ~t.ciHistory
      BY <1>2, <3>2, OwnsNoMore, Zenon DEF Filing, Kept, Live
    <3> QED
      BY <3>1, <3>2, Zenon
  <2> HIDE DEF heap
  <2>2. /\ v.history = t.history /\ v.curIndex = t.curIndex /\ v.heap = heap
        /\ v.ciHistory /\ v.hi = h
    BY <1>2 DEF MeterState
  <2> HIDE DEF u, v
  <2>3. Filing(v)
    BY <1>2, <1>4, <2>1, <2>2, Zenon DEF Filing, Kept, Shown, Live
  <2> QED
    BY <1>1, <1>2, <1>4, <2>2, <2>3, Zenon DEF EndsRun
<1> QED
  BY <1>3, <1>4, Zenon

LEMMA ClearVectorKept ==
  ASSUME NEW s \in MeterState, Kept(s), ~s.historyMode
  PROVE  Filing(ClearVector(s)) /\ ClearVector(s).history = <<>>
<1> DEFINE heap == s.heap \ {h.combat : h \in ToSet(s.history)}
           t == [s EXCEPT !.heap = heap, !.history = <<>>, !.curIndex = 0]
<1>1. ClearVector(s) = t
  BY Zenon DEF ClearVector
<1>2. heap = Live(s)
  <2>1. {h.combat : h \in ToSet(s.history)} \ {Nil} = FiledLogs(s.history)
    BY DEF FiledLogs, ToSet
  <2>2. Nil \notin s.heap
    BY PoolAssumption DEF MeterState
  <2> QED
    BY <2>1, <2>2 DEF Kept, Owns
<1> HIDE DEF heap
<1>3. /\ t.history = <<>> /\ t.curIndex = 0 /\ t.heap = heap
      /\ t.ci = s.ci /\ t.ciHistory = s.ciHistory /\ t.historyMode = s.historyMode
  BY DEF MeterState
<1> HIDE DEF t
<1>4. Live(t) = Live(s)
  BY <1>3, Zenon DEF Live
<1>5. Owns(<<>>, Live(s), Live(s))
  BY DEF Owns, FiledLogs
<1>6. Len(<<>>) <= 0
  OBVIOUS
<1> QED
  BY <1>1, <1>2, <1>3, <1>4, <1>5, <1>6, Zenon DEF Filing, Kept, Shown

LEMMA InsertPlayerInfoKept ==
  ASSUME NEW s \in MeterState, Filing(s), NEW p, NEW m
  PROVE  LET t == InsertPlayerInfo(s, p, m)
         IN Filing(t) /\ GoesOn(s, t)
<1> DEFINE w == GetWorldID(s)
           counts == m \in s.db /\ (w \in DOMAIN StrictList => m \in StrictList[w])
           players == s.players \cup {p}
           damage == IF counts THEN s.damage \cup {<<p, m>>} ELSE s.damage
           t == [s EXCEPT !.players = players, !.damage = damage]
<1>1. InsertPlayerInfo(s, p, m) = t
  BY Zenon DEF InsertPlayerInfo
<1>2. players # {}
  OBVIOUS
<1> HIDE DEF players, damage
<1>3. SameLogs(s, t) /\ GoesOn(s, t)
  BY <1>2 DEF MeterState, SameLogs, SameRun, GoesOn
<1> QED
  BY <1>1, <1>3, SameLogsKeeps, Zenon

LEMMA AddDamageKept ==
  ASSUME NEW s, Coherent(s), Filing(s), NEW p \in Player, NEW m \in Monster,
         NEW hurts \in BOOLEAN, NEW c \in CombatId, c \notin s.heap
  PROVE  LET t == AddDamage(s, p, m, hurts, c)
         IN Filing(t) /\ GoesOn(s, t)
<1> DEFINE t == IF hurts THEN CombatInsert(s, c) ELSE s
           u == Start(t)
           v == InsertPlayerInfo(u, p, m)
<1>1. Coherent(t) /\ Filing(t) /\ GoesOn(s, t)
  <2>1. s \in MeterState /\ Kept(s) /\ Shown(s)
    BY Zenon DEF Coherent, Views, Filing
  <2>2. GoesOn(s, s)
    BY Zenon DEF GoesOn, SameRun
  <2>3. /\ Kept(CombatInsert(s, c)) /\ SameRun(s, CombatInsert(s, c))
        /\ CombatInsert(s, c).historyMode = s.historyMode
        /\ CombatInsert(s, c).hi = s.hi
        /\ CombatInsert(s, c).players = s.players
        /\ s.ci # Nil => CombatInsert(s, c).ci = s.ci
    BY <2>1, CombatInsertKept, Zenon
  <2>4. Filing(CombatInsert(s, c)) /\ GoesOn(s, CombatInsert(s, c))
    BY <2>1, <2>3, Zenon DEF Filing, Shown, GoesOn, SameRun
  <2> QED
    BY <2>2, <2>4, CombatInsertView, Zenon
<1> HIDE DEF t
<1>2. u \in MeterState /\ Filing(u) /\ GoesOn(t, u)
  BY <1>1, StartKept, StartType, Zenon DEF Coherent, Views
<1> HIDE DEF u
<1>3. Filing(v) /\ GoesOn(u, v)
  BY <1>2, InsertPlayerInfoKept, Zenon
<1> HIDE DEF v
<1>4. GoesOn(s, v)
  BY <1>1, <1>2, <1>3, Zenon DEF GoesOn, SameRun
<1>5. Filing(Suspend(s)) /\ GoesOn(s, Suspend(s))
  BY SuspendKept, Zenon DEF Coherent
<1>6. GoesOn(s, s)
  BY Zenon DEF GoesOn, SameRun
<1>7. AddDamage(s, p, m, hurts, c) \in {s, Suspend(s), v}
  BY Zenon DEF AddDamage, t, u, v
<1> QED
  BY <1>3, <1>4, <1>5, <1>6, <1>7, Zenon

\* A kill either leaves the run going or files it.
LEMMA KilledKept ==
  ASSUME NEW s, Coherent(s), Filing(s), NEW m \in Monster,
         NEW n, NewFor(s, n), NEW o \in Settings
  PROVE  LET t == Killed(s, m, n, o)
         IN Filing(t) /\ (GoesOn(s, t) \/ EndsRun(s, n, t))
<1> DEFINE isEndId == m \in EndIds \cup RaidBosses
           r == Clear(s, n, o)
           t == IF /\ o.teamTALF # 0 /\ GetWorldID(s) = LunarFall /\ m \in LunarBosses
                   /\ o.teamTALF = 2 => m = Queen
                THEN SetMazeState(r, isEndId) ELSE s
           u == SetMazeState(t, TRUE)
<1>1. isEndId \in BOOLEAN
  OBVIOUS
<1>2. Killed(s, m, n, o) \in {t, Suspend(t), Suspend(u)}
  BY Zenon DEF Killed
<1>3. Coherent(r) /\ r \in MeterState /\ ~isRun(r) /\ Filing(r) /\ EndsRun(s, n, r)
  <2>1. Coherent(r) /\ r.timer = "end" /\ Filing(r) /\ EndsRun(s, n, r)
    BY ClearView, ClearKept, Zenon DEF NewFor
  <2> HIDE DEF r
  <2> QED
    BY <2>1 DEF isRun, Coherent, Views
<1> HIDE DEF isEndId, r
<1>4. Coherent(t) /\ Filing(t) /\ (GoesOn(s, t) \/ EndsRun(s, n, t))
  <2>1. /\ Coherent(SetMazeState(r, isEndId)) /\ Filing(SetMazeState(r, isEndId))
        /\ GoesOn(r, SetMazeState(r, isEndId))
    BY <1>1, <1>3, SetMazeStateView, SetMazeStateKept, Zenon
  <2>2. EndsRun(s, n, SetMazeState(r, isEndId))
    BY <1>3, <2>1, Zenon DEF EndsRun, GoesOn, SameRun
  <2>3. GoesOn(s, s)
    BY Zenon DEF GoesOn, SameRun
  <2> QED
    BY <2>1, <2>2, <2>3, Zenon
<1> HIDE DEF t
<1>5. Views(u) /\ Filing(u) /\ GoesOn(t, u)
  BY <1>4, SetMazeStateView, SetMazeStateKept, Zenon DEF Coherent, Views
<1>6. Filing(Suspend(t)) /\ GoesOn(t, Suspend(t))
  BY <1>4, SuspendKept, Zenon DEF Coherent
<1> HIDE DEF u
<1>7. Filing(Suspend(u)) /\ GoesOn(u, Suspend(u))
  BY <1>5, SuspendKept, Zenon
<1>8. GoesOn(t, Suspend(u))
  BY <1>5, <1>7, Zenon DEF GoesOn, SameRun
<1>9. ASSUME NEW v, GoesOn(t, v)
      PROVE  GoesOn(s, v) \/ EndsRun(s, n, v)
  BY <1>4, <1>9, Zenon DEF GoesOn, SameRun, EndsRun
<1> QED
  BY <1>2, <1>4, <1>6, <1>7, <1>8, <1>9, Zenon

\* What RunsAreKept says of a step from s to t
KeepsRun(s, t) ==
  s.players # {} /\ t.players = {} /\ t.history # <<>>
  => IF s.testMode
     THEN t.history = s.history
     ELSE LET run == Last(t.history)
          IN run.id \notin {h.id : h \in ToSet(s.history)}
             /\ run.world = s.worldID /\ s.ci \in {run.combat, Nil}

LEMMA GoesOnKeeps ==
  ASSUME NEW s, NEW t, GoesOn(s, t)
  PROVE  KeepsRun(s, t)
BY Zenon DEF GoesOn, KeepsRun

\* A run that goes on from s to u and ends there
LEMMA EndsRunKeeps ==
  ASSUME NEW s, NEW u, NEW t, NEW n, GoesOn(s, u), NewFor(u, n), EndsRun(u, n, t)
  PROVE  KeepsRun(s, t)
<1> SUFFICES ASSUME s.players # {}
             PROVE  KeepsRun(s, t)
  BY Zenon DEF KeepsRun
<1> DEFINE run == [id |-> n, world |-> u.worldID, combat |-> u.ci]
<1>1. /\ u.players # {} /\ (s.ci # Nil => u.ci = s.ci) /\ u.history = s.history
      /\ u.worldID = s.worldID /\ u.testMode = s.testMode
  BY Zenon DEF GoesOn, SameRun
<1>2. CASE s.testMode
  BY <1>1, <1>2, Zenon DEF KeepsRun, EndsRun
<1>3. CASE ~s.testMode
  <2>1. PICK q \in Seq(Session) : t.history = Append(q, run)
    BY <1>1, <1>3, Zenon DEF EndsRun
  <2>2. run.id = n /\ run.world = u.worldID /\ run.combat = u.ci
    OBVIOUS
  <2> HIDE DEF run
  <2>3. Last(t.history) = run
    BY <2>1 DEF Last
  <2>4. n \notin {h.id : h \in ToSet(s.history)}
    BY <1>1, Zenon DEF NewFor
  <2>5. s.ci \in {run.combat, Nil}
    BY <1>1, <2>2, Zenon
  <2> QED
    BY <1>1, <1>3, <2>2, <2>3, <2>4, <2>5, Zenon DEF KeepsRun
<1> QED
  BY <1>2, <1>3, Zenon

LEMMA FreshIsNew ==
  /\ \A c \in FreshCombat : c \in CombatId /\ c \notin meter.heap
  /\ \A n \in FreshSession :
       n \in SessionId /\ n \notin {h.id : h \in ToSet(meter.history)} /\ NewFor(meter, n)
BY Zenon DEF FreshSession, FreshCombat, Fresh, NewFor

LEMMA PacketKept ==
  Coherent(meter) /\ Filing(meter) /\ Packet
  => Filing(meter') /\ KeepsRun(meter, meter')
<1> SUFFICES ASSUME Coherent(meter), Filing(meter), Packet
             PROVE  Filing(meter') /\ KeepsRun(meter, meter')
  OBVIOUS
<1>0. meter \in MeterState /\ Views(meter) /\ Kept(meter) /\ Shown(meter)
  BY Zenon DEF Coherent, Views, Filing
<1>1. ASSUME NEW t, Filing(t), GoesOn(meter, t), meter' = t
      PROVE  Filing(meter') /\ KeepsRun(meter, meter')
  BY <1>1, GoesOnKeeps, Zenon
<1>2. ASSUME NEW c \in FreshCombat
      PROVE  LET t == CombatInsert(meter, c)
             IN /\ t \in MeterState /\ Coherent(t) /\ Filing(t) /\ GoesOn(meter, t)
                /\ t.players = meter.players
  <2> DEFINE t == CombatInsert(meter, c)
  <2>1. c \in CombatId /\ c \notin meter.heap
    BY FreshIsNew, Zenon
  <2>2. t \in MeterState /\ Coherent(t)
    BY <1>0, <2>1, CombatInsertType, CombatInsertView, Zenon
  <2>3. /\ Kept(t) /\ SameRun(meter, t)
        /\ t.historyMode = meter.historyMode /\ t.hi = meter.hi
        /\ t.players = meter.players
        /\ meter.ci # Nil => t.ci = meter.ci
    BY <1>0, <2>1, CombatInsertKept, Zenon
  <2> HIDE DEF t
  <2>4. Filing(t) /\ GoesOn(meter, t)
    BY <1>0, <2>3, Zenon DEF Filing, Shown, GoesOn, SameRun
  <2> QED
    BY <2>2, <2>3, <2>4, Zenon DEF t
<1>3. GoesOn(meter, meter)
  BY Zenon DEF GoesOn, SameRun
<1>4. CASE DamagePacket
  <2>1. PICK p \in Player, m \in meter.db, hurts \in BOOLEAN, dead \in BOOLEAN,
             o \in Settings, n \in FreshSession, c \in FreshCombat :
               LET s == AddDamage(meter, p, m, hurts, c)
                   rankMode == o.soloRank /\ GetWorldID(s) \in RankWorlds
               IN meter' = IF dead /\ ~rankMode THEN Killed(s, m, n, o) ELSE s
    BY <1>4, Zenon DEF DamagePacket
  <2> DEFINE s == AddDamage(meter, p, m, hurts, c)
             t == Killed(s, m, n, o)
  <2>2. m \in Monster
    BY <1>0, Zenon DEF MeterState
  <2>3. Coherent(s) /\ Filing(s) /\ GoesOn(meter, s)
    BY <2>2, AddDamageView, AddDamageKept, FreshIsNew, Zenon
  <2>4. meter' \in {s, t}
    BY <2>1, Zenon
  <2> HIDE DEF s
  <2>5. NewFor(s, n)
    BY <2>3, FreshIsNew, Zenon DEF NewFor, GoesOn, SameRun
  <2>6. Filing(t) /\ (GoesOn(s, t) \/ EndsRun(s, n, t))
    BY <2>2, <2>3, <2>5, KilledKept, Zenon
  <2> HIDE DEF t
  <2>7. KeepsRun(meter, t)
    <3>1. CASE GoesOn(s, t)
      <4>1. GoesOn(meter, t)
        BY <2>3, <3>1, Zenon DEF GoesOn, SameRun
      <4> QED
        BY <4>1, GoesOnKeeps, Zenon
    <3>2. CASE EndsRun(s, n, t)
      BY <2>3, <2>5, <3>2, EndsRunKeeps, Zenon
    <3> QED
      BY <2>6, <3>1, <3>2, Zenon
  <2> QED
    BY <1>1, <2>3, <2>4, <2>6, <2>7, Zenon
<1>5. CASE TakeDamagePacket
  <2>1. PICK p \in Player, c \in FreshCombat :
               meter' = [CombatInsert(meter, c) EXCEPT !.players = @ \cup {p}]
    BY <1>5, Zenon DEF TakeDamagePacket
  <2> DEFINE t == CombatInsert(meter, c)
  <2>2. t \in MeterState /\ Filing(t) /\ GoesOn(meter, t) /\ t.players = meter.players
    BY <1>2, Zenon
  <2>3. meter' = [t EXCEPT !.players = @ \cup {p}]
    BY <2>1, Zenon
  <2> HIDE DEF t
  <2>4. SameLogs(t, meter') /\ GoesOn(t, meter')
    BY <2>2, <2>3 DEF SameLogs, MeterState, GoesOn, SameRun
  <2>5. GoesOn(meter, meter')
    BY <2>2, <2>4, Zenon DEF GoesOn, SameRun
  <2> QED
    BY <2>2, <2>4, <2>5, SameLogsKeeps, GoesOnKeeps, Zenon
<1>6. CASE PlayerEventPacket
  <2>1. PICK p \in Player : meter' = [meter EXCEPT !.players = @ \cup {p}]
    BY <1>6, Zenon DEF PlayerEventPacket
  <2>2. SameLogs(meter, meter') /\ GoesOn(meter, meter')
    BY <1>0, <2>1 DEF SameLogs, MeterState, GoesOn, SameRun
  <2> QED
    BY <2>2, SameLogsKeeps, GoesOnKeeps, Zenon
<1>7. CASE CombatLogPacket
  BY <1>1, <1>2, <1>7, Zenon DEF CombatLogPacket
<1>8. CASE InInfoMonsterPacket
  <2>1. PICK m \in Monster, c \in FreshCombat, stats \in BOOLEAN :
          meter' = [(IF stats THEN CombatInsert(meter, c) ELSE meter)
                    EXCEPT !.db = @ \cup {m}]
    BY <1>8, Zenon DEF InInfoMonsterPacket
  <2> DEFINE t == IF stats THEN CombatInsert(meter, c) ELSE meter
             db == t.db \cup {m}
  <2>2. t \in MeterState /\ Filing(t) /\ GoesOn(meter, t)
    BY <1>0, <1>2, <1>3, Zenon
  <2>3. meter' = [t EXCEPT !.db = db]
    BY <2>1, Zenon
  <2> HIDE DEF t, db
  <2>4. SameLogs(t, meter') /\ GoesOn(t, meter')
    BY <2>2, <2>3 DEF SameLogs, MeterState, GoesOn, SameRun
  <2>5. GoesOn(meter, meter')
    BY <2>2, <2>4, Zenon DEF GoesOn, SameRun
  <2> QED
    BY <2>2, <2>4, <2>5, SameLogsKeeps, GoesOnKeeps, Zenon
<1>9. CASE MazeStartPacket
  BY <1>0, <1>1, <1>9, SetMazeStateKept, Zenon DEF MazeStartPacket
<1>10. CASE MazeEndPacket
  <2> DEFINE t == SetMazeState(meter, TRUE)
  <2>1. Views(t) /\ Filing(t) /\ GoesOn(meter, t)
    BY <1>0, SetMazeStateView, SetMazeStateKept, Zenon
  <2>2. meter' = Suspend(t)
    BY <1>10, Zenon DEF MazeEndPacket
  <2> HIDE DEF t
  <2>3. Filing(meter') /\ GoesOn(t, meter')
    BY <2>1, <2>2, SuspendKept, Zenon
  <2>4. GoesOn(meter, meter')
    BY <2>1, <2>3, Zenon DEF GoesOn, SameRun
  <2> QED
    BY <2>3, <2>4, GoesOnKeeps, Zenon
<1>11. ASSUME NEW start \in BOOLEAN, MazeUpdateState(start)
       PROVE  Filing(meter') /\ KeepsRun(meter, meter')
  <2>1. PICK o \in Settings :
          meter' =
            IF start
            THEN Start(SetMazeState([meter EXCEPT !.testMode = o.dontSave \/ @], FALSE))
            ELSE Suspend(SetMazeState([meter EXCEPT !.testMode = FALSE], TRUE))
    BY <1>11, Zenon DEF MazeUpdateState
  <2> DEFINE testMode == IF start THEN o.dontSave \/ meter.testMode ELSE FALSE
             t == [meter EXCEPT !.testMode = testMode]
             u == SetMazeState(t, ~start)
  <2>2. testMode \in BOOLEAN
    OBVIOUS
  <2>3. meter' = IF start THEN Start(u) ELSE Suspend(u)
    BY <2>1, Zenon
  <2> HIDE DEF testMode
  <2>4. t \in MeterState
    BY <1>0, <2>2, ZenonT(60) DEF MeterState
  <2>5. SameView(meter, t) /\ SameLogs(meter, t) /\ t.players = meter.players
    BY <1>0 DEF SameView, SameLogs, MeterState
  <2> HIDE DEF t
  <2>6. Coherent(t) /\ Filing(t)
    BY <2>4, <2>5, SameViewKeeps, SameLogsKeeps, Zenon
  <2>7. Views(u) /\ Filing(u) /\ GoesOn(t, u)
    BY <2>4, <2>6, SetMazeStateView, SetMazeStateKept, Zenon
  <2> HIDE DEF u
  <2>8. Filing(meter') /\ GoesOn(u, meter')
    BY <2>3, <2>7, StartKept, SuspendKept, Zenon
  <2>9. meter.players # {} => meter'.players # {}
    BY <2>5, <2>7, <2>8, Zenon DEF GoesOn
  <2> QED
    BY <2>8, <2>9, Zenon DEF KeepsRun
<1>12. CASE WorldChangePacket
  <2>1. PICK w \in World \ {NoWorld}, n \in FreshSession, o \in Settings :
          meter' = SetMazeState([Clear(meter, n, o) EXCEPT !.worldID = w], FALSE)
    BY <1>12, Zenon DEF WorldChangePacket
  <2> DEFINE t == Clear(meter, n, o)
             u == [t EXCEPT !.worldID = w]
  <2>2. t \in MeterState /\ Filing(t) /\ EndsRun(meter, n, t) /\ NewFor(meter, n)
    BY <1>0, ClearType, ClearKept, FreshIsNew, Zenon DEF NewFor
  <2>3. meter' = SetMazeState(u, FALSE)
    BY <2>1, Zenon
  <2> HIDE DEF t
  <2>4. u \in MeterState
    BY <2>2, Zenon DEF MeterState
  <2>5. SameLogs(t, u)
    BY <2>2 DEF SameLogs, MeterState
  <2> HIDE DEF u
  <2>6. Filing(meter') /\ GoesOn(u, meter')
    BY <2>2, <2>3, <2>4, <2>5, SameLogsKeeps, SetMazeStateKept, Zenon
  <2>7. EndsRun(meter, n, meter')
    BY <2>2, <2>5, <2>6, Zenon DEF EndsRun, SameLogs, GoesOn, SameRun
  <2> QED
    BY <1>3, <2>2, <2>6, <2>7, EndsRunKeeps, Zenon
<1>13. CASE PresencePacket
  <2>1. SameLogs(meter, meter') /\ meter'.players = meter.players
    BY <1>0, <1>13 DEF PresencePacket, SameLogs, MeterState
  <2> QED
    BY <2>1, SameLogsKeeps, Zenon DEF KeepsRun
<1>14. CASE MonsterKilledPacket
  <2>1. PICK c \in FreshCombat :
          meter' \in {CombatInsert(meter, c), Suspend(CombatInsert(meter, c))}
    BY <1>14, Zenon DEF MonsterKilledPacket
  <2> DEFINE t == CombatInsert(meter, c)
  <2>2. Views(t) /\ Filing(t) /\ GoesOn(meter, t)
    BY <1>2, Zenon DEF Coherent
  <2>3. meter' \in {t, Suspend(t)}
    BY <2>1, Zenon
  <2> HIDE DEF t
  <2>4. Filing(Suspend(t)) /\ GoesOn(t, Suspend(t))
    BY <2>2, SuspendKept, Zenon
  <2>5. Filing(meter') /\ GoesOn(meter, meter')
    BY <2>2, <2>3, <2>4, Zenon DEF GoesOn, SameRun
  <2> QED
    BY <2>5, GoesOnKeeps, Zenon
<1> QED
  BY <1>4, <1>5, <1>6, <1>7, <1>8, <1>9, <1>10, <1>11, <1>12, <1>13, <1>14, Zenon
  DEF Packet

LEMMA CommandKept ==
  Coherent(meter) /\ Filing(meter) /\ Command
  => Filing(meter') /\ KeepsRun(meter, meter')
<1> SUFFICES ASSUME Coherent(meter), Filing(meter), Command
             PROVE  Filing(meter') /\ KeepsRun(meter, meter')
  OBVIOUS
<1>0. meter \in MeterState /\ Views(meter) /\ Kept(meter) /\ Shown(meter)
  BY Zenon DEF Coherent, Views, Filing
<1>1. ToSet(meter.history) \subseteq Session
  <2>1. meter.history \in Seq(Session)
    BY <1>0, Zenon DEF MeterState
  <2> QED
    BY <2>1 DEF ToSet
<1>2. GoesOn(meter, meter)
  BY Zenon DEF GoesOn, SameRun
<1>3. ASSUME NEW n \in FreshSession, NEW o \in Settings
      PROVE  LET t == Clear(meter, n, o)
             IN /\ t \in MeterState /\ Coherent(t) /\ Filing(t) /\ ~t.historyMode
                /\ t.players = {} /\ EndsRun(meter, n, t) /\ NewFor(meter, n)
  <2>1. NewFor(meter, n) /\ n \in SessionId
    BY FreshIsNew, Zenon
  <2> QED
    BY <1>0, <2>1, ClearType, ClearView, ClearKept, Zenon
<1>4. ASSUME NEW n, NEW t, NewFor(meter, n), EndsRun(meter, n, t)
      PROVE  KeepsRun(meter, t)
  BY <1>2, <1>4, EndsRunKeeps, Zenon
<1>5. CASE Reset
  BY <1>3, <1>4, <1>5, Zenon DEF Reset
<1>6. CASE Toggle
  BY <1>0, <1>6, StartKept, SuspendKept, GoesOnKeeps, Zenon DEF Toggle
<1>7. ASSUME NEW t, Coherent(t), Filing(t)
      PROVE  LET u == [t EXCEPT !.selected = TRUE]
             IN /\ Coherent(u) /\ Filing(u) /\ SameRun(t, u)
                /\ u.players = t.players /\ u.ci = t.ci
  <2> DEFINE u == [t EXCEPT !.selected = TRUE]
  <2>1. t \in MeterState
    BY <1>7, Zenon DEF Coherent, Views
  <2>2. u \in MeterState
    BY <2>1, Zenon DEF MeterState
  <2>3. SameView(t, u) /\ SameLogs(t, u) /\ SameRun(t, u)
    BY <2>1 DEF SameView, SameLogs, SameRun, MeterState
  <2> HIDE DEF u
  <2>4. Coherent(u) /\ Filing(u)
    BY <1>7, <2>2, <2>3, SameViewKeeps, SameLogsKeeps, Zenon
  <2> QED
    BY <2>3, <2>4, Zenon DEF SameView, u
<1>8. CASE SelectInMenu
  <2>1. PICK h \in ToSet(meter.history), n \in FreshSession, o \in Settings :
          meter' = SetHistory([meter EXCEPT !.selected = TRUE], h, n, o)
    BY <1>8, Zenon DEF SelectInMenu
  <2> DEFINE u == [meter EXCEPT !.selected = TRUE]
  <2>2. /\ Coherent(u) /\ Filing(u) /\ SameRun(meter, u)
        /\ u.players = meter.players /\ u.ci = meter.ci
    BY <1>7, Zenon
  <2>3. meter' = SetHistory(u, h, n, o)
    BY <2>1, Zenon
  <2> HIDE DEF u
  <2>4. NewFor(u, n) /\ NewFor(meter, n)
    BY <2>2, FreshIsNew, Zenon DEF NewFor, SameRun
  <2>5. Filing(meter') /\ EndsRun(u, n, meter')
    BY <1>1, <2>2, <2>3, <2>4, SetHistoryKept, Zenon
  <2>6. EndsRun(meter, n, meter')
    BY <2>2, <2>5, Zenon DEF EndsRun, SameRun
  <2> QED
    BY <1>4, <2>4, <2>5, <2>6, Zenon
<1>9. CASE SelectInUtility
  <2>1. PICK h \in ToSet(meter.history), n \in FreshSession, o \in Settings :
          meter' = SetHistory([Clear(meter, n, o) EXCEPT !.selected = TRUE], h, n, o)
    BY <1>9, Zenon DEF SelectInUtility
  <2> DEFINE t == Clear(meter, n, o)
             u == [t EXCEPT !.selected = TRUE]
  <2>2. /\ Coherent(t) /\ Filing(t) /\ t.players = {}
        /\ EndsRun(meter, n, t) /\ NewFor(meter, n) /\ n \in SessionId
    BY <1>3, Zenon DEF NewFor
  <2>3. meter' = SetHistory(u, h, n, o)
    BY <2>1, Zenon
  <2> HIDE DEF t
  <2>4. Coherent(u) /\ Filing(u) /\ SameRun(t, u) /\ u.players = {}
    BY <1>7, <2>2, Zenon
  <2> HIDE DEF u
  <2>5. Filing(meter') /\ EndsRun(u, n, meter')
    BY <1>1, <2>2, <2>3, <2>4, SetHistoryKept, Zenon DEF NewFor
  <2>6. EndsRun(meter, n, meter')
    BY <2>2, <2>4, <2>5, Zenon DEF EndsRun, SameRun
  <2> QED
    BY <1>4, <2>2, <2>5, <2>6, Zenon
<1>10. CASE RefreshHistoryList
  <2>1. SameLogs(meter, meter') /\ meter'.players = meter.players
    BY <1>0, <1>10 DEF RefreshHistoryList, SameLogs, MeterState
  <2> QED
    BY <2>1, SameLogsKeeps, Zenon DEF KeepsRun
<1>11. CASE DeleteSelected
  <2>1. PICK n \in FreshSession, o \in Settings :
          meter.historyMode /\ meter' = ClearHistory(Clear(meter, n, o), meter.hi)
    BY <1>11, Zenon DEF DeleteSelected
  <2> DEFINE t == Clear(meter, n, o)
  <2>2. t \in MeterState /\ Filing(t) /\ ~t.historyMode /\ EndsRun(meter, n, t)
    BY <1>3, Zenon
  <2>3. meter' = ClearHistory(t, meter.hi)
    BY <2>1, Zenon
  <2> HIDE DEF t
  <2>4. meter.players = {}
    BY <1>0, <2>1, Zenon DEF Views, ModeAgrees
  <2>5. meter.hi \in ToSet(t.history)
    BY <1>0, <2>1, <2>2, <2>4, Zenon DEF Shown, EndsRun
  <2>6. Kept(meter') /\ SameView(t, meter')
    BY <2>2, <2>3, <2>5, ClearHistoryKept, ClearHistoryView, Zenon DEF Filing
  <2> QED
    BY <2>2, <2>4, <2>6, Zenon DEF Filing, Shown, SameView, KeepsRun
<1>12. CASE ClearAll
  <2>1. PICK n \in FreshSession, o \in Settings : meter' = ClearVector(Clear(meter, n, o))
    BY <1>12, Zenon DEF ClearAll
  <2>2. LET t == Clear(meter, n, o) IN t \in MeterState /\ Kept(t) /\ ~t.historyMode
    BY <1>3, Zenon DEF Filing
  <2>3. Filing(meter') /\ meter'.history = <<>>
    BY <2>1, <2>2, ClearVectorKept, Zenon
  <2> QED
    BY <2>3, Zenon DEF KeepsRun
<1>13. CASE Helper
  <2>1. PICK p \in Player, c \in FreshCombat :
          LET s == [meter EXCEPT !.worldID = IF GetWorldID(meter) = NoWorld
                                             THEN MyRoom ELSE @,
                                 !.db = @ \cup {TestMonster}]
          IN meter' = [AddDamage(s, p, TestMonster, TRUE, c) EXCEPT !.testMode = TRUE]
    BY <1>13, Zenon DEF Helper
  <2> DEFINE worldID == IF GetWorldID(meter) = NoWorld THEN MyRoom ELSE meter.worldID
             db == meter.db \cup {TestMonster}
             s == [meter EXCEPT !.worldID = worldID, !.db = db]
             t == AddDamage(s, p, TestMonster, TRUE, c)
  <2>2. worldID \in World
    BY <1>0, WorldAssumption, Zenon DEF MeterState
  <2>3. db \in SUBSET Monster
    BY <1>0, MonsterAssumption DEF MeterState
  <2>4. meter' = [t EXCEPT !.testMode = TRUE]
    BY <2>1, Zenon
  <2> HIDE DEF worldID, db
  <2>5. s \in MeterState
    BY <1>0, <2>2, <2>3, Zenon DEF MeterState
  <2>6. SameView(meter, s) /\ SameLogs(meter, s)
    BY <1>0, <2>5 DEF SameView, SameLogs, MeterState
  <2> HIDE DEF s
  <2>7. Coherent(s) /\ Filing(s) /\ s.players = meter.players /\ s.heap = meter.heap
    BY <2>5, <2>6, SameViewKeeps, SameLogsKeeps, Zenon DEF SameView, SameLogs
  <2>8. t \in MeterState /\ Filing(t) /\ GoesOn(s, t)
    <3>1. c \in CombatId /\ c \notin s.heap
      BY <2>7, FreshIsNew, Zenon
    <3> QED
      BY <2>5, <2>7, <3>1, AddDamageType, AddDamageKept, MonsterAssumption, Zenon
  <2> HIDE DEF t
  <2>9. SameLogs(t, meter') /\ meter'.players = t.players
    BY <2>4, <2>8 DEF SameLogs, MeterState
  <2>10. meter.players # {} => meter'.players # {}
    BY <2>7, <2>8, <2>9, Zenon DEF GoesOn
  <2> QED
    BY <2>8, <2>9, <2>10, SameLogsKeeps, Zenon DEF KeepsRun
<1>14. CASE SaveAndExit
  <2>1. SameLogs(meter, meter') /\ meter'.players = meter.players
    BY <1>0, <1>14 DEF SaveAndExit, SameLogs, MeterState
  <2> QED
    BY <2>1, SameLogsKeeps, Zenon DEF KeepsRun
<1> QED
  BY <1>5, <1>6, <1>8, <1>9, <1>10, <1>11, <1>12, <1>13, <1>14, Zenon DEF Command

\* Filing is inductive, given that the views agree.
THEOREM FilingAlways == Spec => []Filing(meter)
<1>1. Init => Filing(meter)
  <2> SUFFICES ASSUME Init
               PROVE  Filing(meter)
    OBVIOUS
  <2>1. /\ meter.history = <<>> /\ meter.heap = {} /\ meter.ci = Nil
        /\ ~meter.historyMode /\ meter.curIndex = 0 /\ ~meter.ciHistory
    BY DEF Init
  <2>2. Live(meter) = {} /\ FiledLogs(<<>>) = {} /\ Len(<<>>) <= 0
    BY <2>1 DEF Live, FiledLogs
  <2>3. Owns(<<>>, {}, {})
    BY <2>2 DEF Owns
  <2> QED
    BY <2>1, <2>2, <2>3, Zenon DEF Filing, Kept, Shown
<1>2. Coherent(meter) /\ Filing(meter) /\ [Next]_meter => Filing(meter)'
  BY PacketKept, CommandKept, Zenon DEF Next
<1> QED
  BY <1>1, <1>2, CoherentAlways, PTL DEF Spec

\* The session on screen is one of the history, so what the views point at is
\* not deleted under them.
THEOREM ShownCorrect == Spec => []ShownIsFiled
<1>1. Filing(meter) => ShownIsFiled
  BY Zenon DEF Filing, Shown, ShownIsFiled
<1> QED
  BY <1>1, FilingAlways, PTL

\* Every combat log has one owner, the live run or one session: none is deleted
\* twice, used after its deletion or leaked.
THEOREM LogsCorrect == Spec => []CombatOwned
<1>1. TypeOK /\ Filing(meter) => CombatOwned
  <2> SUFFICES ASSUME meter \in MeterState, Kept(meter)
               PROVE  CombatOwned
    BY Zenon DEF TypeOK, Filing
  <2> DEFINE q == meter.history
             filed == {h.combat : h \in ToSet(q)} \ {Nil}
  <2>1. q \in Seq(Session) /\ ToSet(q) = {q[i] : i \in DOMAIN q}
    BY DEF MeterState, ToSet
  <2>2. filed = FiledLogs(q)
    BY <2>1, Zenon DEF FiledLogs
  <2>3. ASSUME NEW g \in ToSet(q), NEW h \in ToSet(q), g.combat = h.combat, g # h
        PROVE  g.combat = Nil
    <3>1. PICK i \in DOMAIN q, j \in DOMAIN q : g = q[i] /\ h = q[j]
      BY <2>1, Zenon
    <3> QED
      BY <2>3, <3>1, Zenon DEF Kept, Owns
  <2> QED
    BY <2>2, <2>3, Zenon DEF CombatOwned, Kept, Owns, Live
<1> QED
  BY <1>1, TypeCorrect, FilingAlways, PTL

\* The history holds at most HISTORY_SIZE sessions, none of them twice.
THEOREM HistoryCorrect == Spec => []HistoryBounded
<1>1. Filing(meter) => HistoryBounded
  BY Zenon DEF Filing, Kept, Owns, HistoryBounded
<1> QED
  BY <1>1, FilingAlways, PTL

\* A run that has rows leaves the meter as the newest session, under its own
\* world and with its own log, unless the meter is in test mode.
THEOREM RunsCorrect == Spec => RunsAreKept
<1>1. Coherent(meter) /\ Filing(meter) /\ [Next]_meter => [KeepsRun(meter, meter')]_meter
  BY PacketKept, CommandKept, Zenon DEF Next
<1>2. Spec => [][KeepsRun(meter, meter')]_meter
  BY <1>1, CoherentAlways, FilingAlways, PTL DEF Spec
<1> QED
  BY <1>2, PTL DEF RunsAreKept, KeepsRun
====
