-------------------------- MODULE MCUnfinishedMaze --------------------------
(***************************************************************************)
(* The meter with solo rank mode and "Don't save unfinished maze" both on, *)
(* next to the rank maze as the game knows it: begun by state 1, finished  *)
(* by state 4, abandoned by a change of world.                             *)
(***************************************************************************)
EXTENDS MCDamageMeter

VARIABLE unfinished  \* a rank maze was begun and is neither finished nor left

MCNoStrictList == [w \in {} |-> {}]
MCStrictRankSettings == [soloRank : {TRUE}, dontSave : {TRUE}, teamTALF : {0}]

UInit == Init /\ unfinished = FALSE

UNext ==
  \/ /\ meter.worldID \in RankWorlds /\ ~unfinished
     /\ MazeUpdateState(TRUE) /\ unfinished' = TRUE
  \/ unfinished /\ MazeUpdateState(FALSE) /\ unfinished' = FALSE
  \/ WorldChangePacket /\ unfinished' = FALSE
  \/ (InInfoMonsterPacket \/ DamagePacket \/ Reset \/ Toggle) /\ UNCHANGED unfinished

USpec == UInit /\ [][UNext]_<<meter, unfinished>>

\* Lang/en.json:131, "Don't save unfinished maze": with the option on, no run is
\* filed while the maze it was recorded in is unfinished.
UnfinishedNotSaved ==
  [][ unfinished /\ meter.players # {} => Len(meter'.history) <= Len(meter.history)
    ]_<<meter, unfinished>>
====
