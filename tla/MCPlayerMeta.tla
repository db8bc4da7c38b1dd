---------------------------- MODULE MCPlayerMeta ----------------------------
(* The cap is 2: armor break none, below it and above it. *)
EXTENDS PlayerMeta

\* What later steps and the properties can tell apart: not the stamps of a timer that is
\* off, nor sums that are not the run's, which stay so until they are reset.
Telling ==
  <<now, rows, historyMode, ran, kept,
    CASE timer.status = "end" -> <<>>
      [] timer.status = "run" -> <<timer.start, timer.suspended>>
      [] timer.status = "suspend" -> <<timer>>,
    IF kept THEN meta.ab ELSE meta>>
=============================================================================
