SPECIFICATION Spec
CONSTANTS
  Player = {p1}
  Monster = {"queen", "guard"}
  World = {"none", "room", "maze"}
  NoWorld = "none"
  MyRoom = "room"
  TownWorlds = {"none", "room"}
  RankWorlds = {}
  LunarFall = "maze"
  StrictList <- MCStrictList
  LunarBosses = {"queen", "guard"}
  Queen = "queen"
  ResumeIgnore = {}
  GodMode = {}
  RaidBosses = {"queen"}
  EndIds = {}
  PauseIds = {"guard"}
  KillPause <- MCKillPause
  TestMonster = "guard"
  HistorySize = 2
  SessionId = {1, 2, 3}
  CombatId = {1, 2, 3, 4}
  Settings <- MCPlainSettings
PROPERTIES OnlyListBossStarts
