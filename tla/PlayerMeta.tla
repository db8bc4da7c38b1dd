----------------------------- MODULE PlayerMeta -----------------------------
(***************************************************************************)
(* The times of a run: the timer, and what the metadata of a player adds   *)
(* up over it, an average weighted by time (armor break; boss damage and   *)
(* attack speed are the same code) and the time a condition holds (full    *)
(* armor break, aggro).  Sums and last times are all measured on the       *)
(* timer, and every difference of two times is unsigned.                   *)
(*                                                                         *)
(* Which packet or command calls a member when is in DamageMeter; here     *)
(* they come in any order, and the table of the UI may be drawn, which     *)
(* writes the two times too, between any two of them.  One player has      *)
(* metadata, the one that plays.                                           *)
(***************************************************************************)
EXTENDS Integers

CONSTANTS
  Value,   \* values of the armor break
  Cap,     \* 100, above which the average does not count it
  Shown,   \* the time of the session that can be shown
  Word,    \* 2^64
  MaxNow   \* bound on the clock

ASSUME MetaAssumption ==
  /\ Value \subseteq Nat /\ Cap \in Nat \ {0} /\ Shown \in Nat \ {0} /\ MaxNow \in Nat
  /\ Word \in Nat /\ Word > 2 * Cap * (MaxNow + Shown)

VARIABLES
  now,          \* GetCurrentTimeStamp, a clock that does not go back
  timer,        \* _timer
  rows,         \* _playerInfo is not empty, and has the player
  historyMode,
  meta,         \* the player's SW_PLAYER_METADATA
  ran,          \* time the run was running for
  kept          \* sums of an earlier run, or taken on the time of a session, are in use

vars == <<now, timer, rows, historyMode, meta, ran, kept>>

NewSpan == [on |-> FALSE, start |-> 0, end |-> 0, prev |-> 0, time |-> 0]
NewMeta == [ab |-> 0, sum |-> 0, previous |-> 0, full |-> NewSpan, aggro |-> NewSpan]

Init ==
  /\ now = 0 /\ ran = 0
  /\ timer = [status |-> "end", start |-> 0, suspend |-> 0, suspended |-> 0]
  /\ rows = FALSE /\ historyMode = FALSE
  /\ meta = NewMeta
  /\ kept = FALSE

-----------------------------------------------------------------------------
(* Unsigned arithmetic *)

Minus(a, b) == IF a >= b THEN a - b ELSE Word + a - b

\* A product too large for 64 bits is undefined; the build makes it 2^63.
Weighted(dt, v) == IF dt * v < Word THEN dt * v ELSE Word \div 2
Plus(a, b) == (a + b) % Word

(* Timer *)

isRun == timer.status = "run"

TimerTime(t) ==
  CASE t.status = "run" -> Minus(Minus(now, t.start), t.suspended)
    [] t.status = "suspend" -> Minus(Minus(t.suspend, t.start), t.suspended)
    [] t.status = "end" -> 0

\* Slip: the time of the suspension is not added up.
RunOver(t) ==
  CASE t.status = "end" -> [t EXCEPT !.status = "run", !.start = now, !.suspended = 0]
    [] t.status = "suspend" -> [t EXCEPT !.status = "run", !.suspended = Minus(now, t.suspend)]
    [] OTHER -> t

\* Slip: a running timer is taken for a suspended one.
RunAgain(t) ==
  IF t.status = "end" THEN [t EXCEPT !.status = "run", !.start = now, !.suspended = 0]
  ELSE [t EXCEPT !.status = "run", !.suspended = Plus(@, Minus(now, t.suspend))]

Run(t) ==
  CASE t.status = "end" -> [t EXCEPT !.status = "run", !.start = now, !.suspended = 0]
    [] t.status = "suspend" ->
         [t EXCEPT !.status = "run", !.suspended = Plus(@, Minus(now, t.suspend))]
    [] OTHER -> t

TimerSuspend(t) ==
  IF t.status = "run" THEN [t EXCEPT !.status = "suspend", !.suspend = now] ELSE t

Stop(t) == [t EXCEPT !.status = "end"]

GetTime(mode, t) == IF mode THEN Shown ELSE TimerTime(t)

-----------------------------------------------------------------------------
(* SW_PLAYER_METADATA *)

\* CalcFullABTime, CalcAggroTime, without an end of their own
Calc(sp) == [sp EXCEPT !.time = sp.prev + Minus(sp.end, sp.start)]

\* With one, which the table gives: a condition that is met holds up to it, started or not.
CalcUpTo(sp, t, met) ==
  IF t # 0 /\ met THEN [sp EXCEPT !.time = sp.prev + Minus(t, sp.start)] ELSE Calc(sp)

\* The condition holds, or not, at the time t.
Holds(sp, t) ==
  IF sp.on THEN [sp EXCEPT !.end = t]
  ELSE [sp EXCEPT !.on = TRUE, !.start = t, !.prev = sp.time, !.end = t]
Ends(sp, t) == IF sp.on THEN [sp EXCEPT !.on = FALSE, !.end = t] ELSE sp

Capped(v) == IF v > Cap THEN Cap ELSE v

\* The time since the last change counts with the value the stat has now.
Weigh(m, t) ==
  [m EXCEPT !.sum = Plus(@, Weighted(Minus(t, m.previous), Capped(m.ab))), !.previous = t]

\* UpdateStat, the armor break: without a running timer only the value.
UpdateStat(m, v, t) ==
  LET new == [m EXCEPT !.ab = v]
  IN IF ~isRun THEN new
     ELSE [Weigh(new, t) EXCEPT !.full = Calc(IF v >= Cap THEN Holds(@, t) ELSE Ends(@, t))]

UpdateAggroTime(m, isSet, t) ==
  [m EXCEPT !.aggro = Calc(IF isSet THEN Holds(@, t) ELSE Ends(@, t))]

MeterSuspended(m, t) ==
  [Weigh(m, t) EXCEPT !.full = Calc(Ends(@, t)), !.aggro = Calc(Ends(@, t))]

\* Slip: the time of the last change is not reset.
ResetOver(m) == [NewMeta EXCEPT !.ab = m.ab, !.previous = m.previous]

\* MeterReseted, what is left after it
MeterReseted(m) == [NewMeta EXCEPT !.ab = m.ab]

\* What it files of the player: the average as its dividend, and the two times
AvgAB(m, t) == Plus(m.sum, Weighted(Minus(t, m.previous), Capped(m.ab)))
AggroTime(m, t) == IF m.aggro.on THEN Calc(Ends(m.aggro, t)).time ELSE m.aggro.time
FullABTime(m, t) == IF m.full.on THEN Calc(Ends(m.full, t)).time ELSE m.full.time

-----------------------------------------------------------------------------
(* The meter *)

Tick ==
  /\ now < MaxNow /\ now' = now + 1
  /\ ran' = IF isRun THEN ran + 1 ELSE ran
  /\ UNCHANGED <<timer, rows, historyMode, meta, kept>>

\* Start, by the toggle, a rank maze or a hit, which adds a row
Start(hit) ==
  /\ historyMode' = FALSE
  /\ timer' = Run(timer)
  /\ rows' = (rows \/ hit)
  /\ ran' = IF timer.status = "end" THEN 0 ELSE ran
  /\ UNCHANGED <<now, meta, kept>>

Suspend ==
  /\ historyMode' = FALSE
  /\ timer' = TimerSuspend(timer)
  /\ meta' = MeterSuspended(meta, TimerTime(TimerSuspend(timer)))
  /\ UNCHANGED <<now, rows, ran, kept>>

\* Clear of a live run: only a run with rows is filed, and only that resets the metadata.
EndRun ==
  /\ timer' = Stop(timer) /\ ran' = 0 /\ rows' = FALSE
  /\ meta' = IF rows THEN MeterReseted(meta) ELSE meta
  /\ kept' = (~rows /\ (kept \/ meta # MeterReseted(meta)))
  /\ UNCHANGED now

\* Clear, which only leaves a session that is shown
Clear ==
  /\ historyMode' = FALSE
  /\ IF historyMode THEN timer' = Stop(timer) /\ ran' = 0 /\ UNCHANGED <<now, rows, meta, kept>>
     ELSE EndRun

\* SetHistory, which clears a live run first
SetHistory ==
  /\ ~isRun /\ ~historyMode
  /\ historyMode' = TRUE
  /\ EndRun

StatPacket(v) ==
  /\ meta' = UpdateStat(meta, v, GetTime(historyMode, timer))
  /\ UNCHANGED <<now, timer, rows, historyMode, ran, kept>>

AggroPacket(isSet) ==
  /\ meta' = UpdateAggroTime(meta, isSet, GetTime(historyMode, timer))
  /\ kept' = (kept \/ (historyMode /\ meta'.aggro # meta.aggro))
  /\ UNCHANGED <<now, timer, rows, historyMode, ran>>

\* The row of the player in the table, drawn under the lock the packets take
Draw ==
  /\ rows /\ ~historyMode
  /\ meta' = [meta EXCEPT !.full = CalcUpTo(@, TimerTime(timer), meta.ab >= Cap),
                          !.aggro = CalcUpTo(@, TimerTime(timer), @.on)]
  /\ UNCHANGED <<now, timer, rows, historyMode, ran, kept>>

Next ==
  \/ Tick
  \/ \E hit \in BOOLEAN : Start(hit)
  \/ Suspend
  \/ Clear
  \/ SetHistory
  \/ \E v \in Value : StatPacket(v)
  \/ \E isSet \in BOOLEAN : AggroPacket(isSet)
  \/ Draw

Spec == Init /\ [][Next]_vars

-----------------------------------------------------------------------------
Word64 == 0..Word - 1
Span == [on : BOOLEAN, start : Word64, end : Word64, prev : Nat, time : Nat]

\* Every variable keeps its type; the times of the timer are never in the future.
TypeOK ==
  /\ now \in 0..MaxNow /\ ran \in 0..now
  /\ timer \in [status : {"end", "run", "suspend"}, start : 0..now, suspend : 0..now,
                suspended : 0..now]
  /\ rows \in BOOLEAN /\ historyMode \in BOOLEAN /\ kept \in BOOLEAN
  /\ meta \in [ab : Value \cup {0}, sum : Word64, previous : Word64, full : Span, aggro : Span]

\* The elapsed time is the time the run was running for, however often it was suspended and
\* resumed: the differences of unsigned stamps in Timer.cpp never wrap.
ElapsedIsRunning == timer.status # "end" => TimerTime(timer) = ran

\* What a run would file of a player is possible for its time, however often the table wrote
\* the times in between: an average that is not above the cap of its values, no condition
\* that held for longer than the run.  This fails only where the sums are not the run's own:
\* they outlived a run without rows, or aggro changed while a session was shown.
Possible(t) ==
  /\ AvgAB(meta, t) <= Cap * t
  /\ FullABTime(meta, t) <= t
  /\ AggroTime(meta, t) <= t
SumsOfRun == kept \/ Possible(TimerTime(timer))
=============================================================================
