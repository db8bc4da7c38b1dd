--------------------------- MODULE MCDamageMeter ---------------------------
(***************************************************************************)
(* The meter on a small game: no world, My Room (a town), a strict maze    *)
(* that is also Lunar Fall and a rank maze; a raid boss on the strict      *)
(* list, a boss whose death pauses, and ordinary monsters.                 *)
(***************************************************************************)
EXTENDS DamageMeter

MCStrictList == [w \in {"maze"} |-> {"queen"}]
MCKillPause == {<<"maze", "guard">>}

\* Options as the user may switch them between any two steps
MCSettings ==
  {[soloRank |-> FALSE, dontSave |-> FALSE, teamTALF |-> 2],
   [soloRank |-> TRUE, dontSave |-> TRUE, teamTALF |-> 0]}
MCPlainSettings == [soloRank : {FALSE}, dontSave : {FALSE}, teamTALF : {0}]
====
