SPECIFICATION USpec
CONSTANTS
  Player = {p1}
  Monster = {"queen", "guard"}
  World = {"none", "room", "rank"}
  NoWorld = "none"
  MyRoom = "room"
  TownWorlds = {"none", "room"}
  RankWorlds = {"rank"}
  LunarFall = "room"
  StrictList <- MCNoStrictList
  LunarBosses = {"queen", "guard"}
  Queen = "queen"
  ResumeIgnore = {"guard"}
  GodMode = {"guard"}
  RaidBosses = {"queen"}
  EndIds = {}
  PauseIds = {"guard"}
  KillPause <- MCKillPause
  TestMonster = "queen"
  HistorySize = 2
  SessionId = {1, 2, 3}
  CombatId = {1, 2, 3, 4}
  Settings <- MCStrictRankSettings
PROPERTIES UnfinishedNotSaved
