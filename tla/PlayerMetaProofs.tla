-------------------------- MODULE PlayerMetaProofs --------------------------
(***************************************************************************)
(* The elapsed time of PlayerMeta for a clock of any length: none of the   *)
(* unsigned differences of the timer wraps, whatever the order of calls.   *)
(* And the sums of a player: unless they are not the run's own, none of    *)
(* their differences and products wraps, and what is filed is possible.    *)
(***************************************************************************)
EXTENDS PlayerMeta, TLAPS

\* A word holds every time there is.
LEMMA WordIsLarge ==
  MaxNow \in Nat /\ Shown \in Nat /\ Word \in Nat /\ MaxNow < Word /\ Shown < Word
<1>1. ASSUME NEW a \in Nat, NEW b \in Nat, a > 0 PROVE b <= 2 * (a * b)
  <2>1. b <= a * b
    BY <1>1
  <2> QED
    BY <2>1
<1>2. /\ Cap \in Nat /\ Cap > 0 /\ MaxNow \in Nat /\ Shown \in Nat /\ Shown > 0
      /\ Word \in Nat /\ Word > 2 * Cap * (MaxNow + Shown)
  BY MetaAssumption
<1>3. 2 * Cap * (MaxNow + Shown) = 2 * (Cap * (MaxNow + Shown))
  BY <1>2
<1>4. MaxNow + Shown <= 2 * (Cap * (MaxNow + Shown))
  BY <1>1, <1>2
<1> QED
  BY <1>2, <1>3, <1>4

\* No wrap, where the true result is a time
LEMMA PlusIsSum ==
  ASSUME NEW a \in Nat, NEW b \in Nat, a + b < Word
  PROVE  Plus(a, b) = a + b
<1>1. Word \in Nat
  BY MetaAssumption
<1> QED
  BY <1>1 DEF Plus

LEMMA MinusIsDifference ==
  ASSUME NEW a \in Nat, NEW b \in 0..a
  PROVE  Minus(a, b) = a - b
BY DEF Minus

-----------------------------------------------------------------------------
(* The part of the type that the timer is about, and what its stamps add up  *)
(* to: start, suspensions and running time make up the time it stands at.    *)

TimerType == [status : {"end", "run", "suspend"}, start : 0..now, suspend : 0..now,
              suspended : 0..now]

AddsUp ==
  /\ timer.status = "run" => timer.start + timer.suspended + ran = now
  /\ timer.status = "suspend" => timer.start + timer.suspended + ran = timer.suspend

IInv == now \in 0..MaxNow /\ ran \in 0..now /\ timer \in TimerType /\ AddsUp

LEMMA InitInv == Init => IInv
<1> SUFFICES ASSUME Init PROVE IInv
  OBVIOUS
<1>1. now = 0 /\ ran = 0 /\ MaxNow \in Nat
  BY WordIsLarge DEF Init
<1>2. timer = [status |-> "end", start |-> 0, suspend |-> 0, suspended |-> 0]
  BY Zenon DEF Init
<1> QED
  BY <1>1, <1>2 DEF IInv, TimerType, AddsUp

\* Run: a suspension is over, and counts as suspended.
LEMMA RunInv ==
  ASSUME IInv, timer' = Run(timer), now' = now,
         ran' = IF timer.status = "end" THEN 0 ELSE ran
  PROVE  IInv'
<1>1. CASE timer.status = "end"
  <2>1. timer' = [timer EXCEPT !.status = "run", !.start = now, !.suspended = 0]
    BY <1>1 DEF Run
  <2>2. now \in 0..now /\ 0 \in 0..now /\ ran' = 0
    BY <1>1 DEF IInv
  <2>3. timer' \in TimerType
    BY <2>1, <2>2, Zenon DEF IInv, TimerType
  <2>4. timer'.status = "run" /\ timer'.start = now /\ timer'.suspended = 0
    BY <2>1 DEF IInv, TimerType
  <2> QED
    BY <2>2, <2>3, <2>4 DEF IInv, TimerType, AddsUp
<1>2. CASE timer.status = "suspend"
  <2> DEFINE suspended == Plus(timer.suspended, Minus(now, timer.suspend))
  <2>1. timer' = [timer EXCEPT !.status = "run", !.suspended = suspended]
    BY <1>2 DEF Run
  <2>2. /\ timer.start \in Nat /\ timer.suspend \in 0..now /\ timer.suspended \in Nat
        /\ now \in Nat /\ ran \in Nat /\ now < Word
        /\ timer.start + timer.suspended + ran = timer.suspend
    BY <1>2, WordIsLarge DEF IInv, TimerType, AddsUp
  <2>3. Minus(now, timer.suspend) = now - timer.suspend
    BY <2>2, MinusIsDifference
  <2>4. suspended = timer.suspended + (now - timer.suspend)
    BY <2>2, <2>3, PlusIsSum, WordIsLarge
  <2> HIDE DEF suspended
  <2>5. suspended \in 0..now
    BY <2>2, <2>4
  <2>6. timer' \in TimerType
    BY <2>1, <2>5, Zenon DEF IInv, TimerType
  <2>7. timer'.status = "run" /\ timer'.start = timer.start /\ timer'.suspended = suspended
    BY <2>1 DEF IInv, TimerType
  <2> QED
    BY <1>2, <2>2, <2>4, <2>6, <2>7 DEF IInv, TimerType, AddsUp
<1>3. CASE timer.status = "run"
  <2>1. timer' = timer /\ ran' = ran
    BY <1>3 DEF Run
  <2> QED
    BY <2>1 DEF IInv, TimerType, AddsUp
<1> QED
  BY <1>1, <1>2, <1>3 DEF IInv, TimerType

LEMMA SuspendInv ==
  ASSUME IInv, timer' = TimerSuspend(timer), now' = now, ran' = ran
  PROVE  IInv'
<1>1. CASE timer.status = "run"
  <2>1. timer' = [timer EXCEPT !.status = "suspend", !.suspend = now]
    BY <1>1 DEF TimerSuspend
  <2>2. now \in 0..now
    BY DEF IInv
  <2>3. timer' \in TimerType
    BY <2>1, <2>2, Zenon DEF IInv, TimerType
  <2>4. /\ timer'.status = "suspend" /\ timer'.suspend = now
        /\ timer'.start = timer.start /\ timer'.suspended = timer.suspended
    BY <2>1 DEF IInv, TimerType
  <2> QED
    BY <1>1, <2>3, <2>4 DEF IInv, TimerType, AddsUp
<1>2. CASE timer.status # "run"
  <2>1. timer' = timer
    BY <1>2 DEF TimerSuspend
  <2> QED
    BY <2>1 DEF IInv, TimerType, AddsUp
<1> QED
  BY <1>1, <1>2

LEMMA StopInv ==
  ASSUME IInv, timer' = Stop(timer), now' = now, ran' = 0
  PROVE  IInv'
<1>1. timer' \in TimerType
  BY Zenon DEF Stop, IInv, TimerType
<1>2. timer'.status = "end"
  BY DEF Stop, IInv, TimerType
<1> QED
  BY <1>1, <1>2 DEF IInv, TimerType, AddsUp

LEMMA TickInv ==
  ASSUME IInv, Tick
  PROVE  IInv'
<1>1. now' = now + 1 /\ now' \in 0..MaxNow /\ timer' = timer
  BY WordIsLarge DEF Tick, IInv
<1>2. ran' = IF timer.status = "run" THEN ran + 1 ELSE ran
  BY DEF Tick, isRun
<1>3. timer' \in TimerType'
  <2>1. now \in Nat
    BY DEF IInv
  <2> QED
    BY <1>1, <2>1 DEF IInv, TimerType
<1> QED
  BY <1>1, <1>2, <1>3 DEF IInv, TimerType, AddsUp

LEMMA InvStep ==
  ASSUME IInv, [Next]_vars
  PROVE  IInv'
<1>1. CASE Tick
  BY <1>1, TickInv
<1>2. ASSUME NEW hit \in BOOLEAN, Start(hit)
      PROVE  IInv'
  BY <1>2, RunInv, Zenon DEF Start
<1>3. CASE Suspend
  BY <1>3, SuspendInv, Zenon DEF Suspend
<1>4. CASE Clear \/ SetHistory
  <2>1. timer' = Stop(timer) /\ now' = now /\ ran' = 0
    BY <1>4 DEF Clear, SetHistory, EndRun
  <2> QED
    BY <2>1, StopInv, Zenon
<1>5. CASE UNCHANGED <<now, timer, ran>>
  BY <1>5 DEF IInv, TimerType, AddsUp
<1>6. (\E v \in Value : StatPacket(v)) \/ (\E isSet \in BOOLEAN : AggroPacket(isSet))
        \/ Draw \/ UNCHANGED vars => UNCHANGED <<now, timer, ran>>
  BY DEF StatPacket, AggroPacket, Draw, vars
<1> QED
  BY <1>1, <1>2, <1>3, <1>4, <1>5, <1>6, Zenon DEF Next

LEMMA Elapsed == IInv => ElapsedIsRunning
<1> SUFFICES ASSUME IInv PROVE ElapsedIsRunning
  OBVIOUS
<1>1. CASE timer.status = "run"
  <2>1. /\ now \in Nat /\ timer.start \in 0..now /\ ran \in Nat
        /\ timer.suspended \in 0..(now - timer.start)
        /\ ran = (now - timer.start) - timer.suspended
    BY <1>1 DEF IInv, TimerType, AddsUp
  <2>2. Minus(now, timer.start) = now - timer.start
    BY <2>1, MinusIsDifference, Zenon
  <2>3. now - timer.start \in Nat
    BY <2>1
  <2>4. TimerTime(timer) = Minus(Minus(now, timer.start), timer.suspended)
    BY <1>1 DEF TimerTime
  <2> QED
    BY <2>1, <2>2, <2>3, <2>4, MinusIsDifference DEF ElapsedIsRunning
<1>2. CASE timer.status = "suspend"
  <2>1. /\ timer.suspend \in Nat /\ timer.start \in 0..timer.suspend /\ ran \in Nat
        /\ timer.suspended \in 0..(timer.suspend - timer.start)
        /\ ran = (timer.suspend - timer.start) - timer.suspended
    BY <1>2 DEF IInv, TimerType, AddsUp
  <2>2. Minus(timer.suspend, timer.start) = timer.suspend - timer.start
    BY <2>1, MinusIsDifference, Zenon
  <2>3. timer.suspend - timer.start \in Nat
    BY <2>1
  <2>4. TimerTime(timer) = Minus(Minus(timer.suspend, timer.start), timer.suspended)
    BY <1>2 DEF TimerTime
  <2> QED
    BY <2>1, <2>2, <2>3, <2>4, MinusIsDifference DEF ElapsedIsRunning
<1> QED
  BY <1>1, <1>2 DEF IInv, TimerType, ElapsedIsRunning

\* The elapsed time is the time the run was running for, however often it was suspended and
\* resumed and however long the clock runs: the unsigned differences of Timer.cpp:54-69
\* do not wrap.
THEOREM ElapsedCorrect == Spec => []ElapsedIsRunning
<1>1. Init => IInv
  BY InitInv
<1>2. IInv /\ [Next]_vars => IInv'
  BY InvStep
<1> QED
  BY <1>1, <1>2, Elapsed, PTL DEF Spec

-----------------------------------------------------------------------------
(* The metadata *)

Meta == [ab : Value \cup {0}, sum : Word64, previous : Word64, full : Span, aggro : Span]

LEMMA MinusType ==
  ASSUME NEW a \in Word64, NEW b \in Word64
  PROVE  Minus(a, b) \in Nat
BY WordIsLarge DEF Minus, Word64

LEMMA PlusType ==
  ASSUME NEW a \in Nat, NEW b \in Nat
  PROVE  Plus(a, b) \in Word64
<1>1. Word \in Nat /\ Word > 0
  BY WordIsLarge
<1> QED
  BY <1>1 DEF Plus, Word64

LEMMA WeightedType ==
  ASSUME NEW dt \in Nat, NEW v \in Nat
  PROVE  Weighted(dt, v) \in Nat
<1>1. dt * v \in Nat
  OBVIOUS
<1>2. Word \div 2 \in Nat
  BY WordIsLarge
<1> QED
  BY <1>1, <1>2 DEF Weighted

LEMMA NewMetaType ==
  ASSUME NEW v \in Value \cup {0}
  PROVE  [NewMeta EXCEPT !.ab = v] \in Meta
<1>1. 0 \in Word64 /\ 0 \in Nat
  BY WordIsLarge DEF Word64
<1>2. NewSpan \in Span
  BY <1>1, Zenon DEF NewSpan, Span
<1>3. NewMeta \in Meta
  BY <1>1, <1>2, Zenon DEF NewMeta, Meta
<1> QED
  BY <1>3, Zenon DEF Meta

LEMMA CalcType ==
  ASSUME NEW sp \in Span
  PROVE  Calc(sp) \in Span
<1> DEFINE time == sp.prev + Minus(sp.end, sp.start)
<1>1. time \in Nat
  BY MinusType DEF Span
<1>2. Calc(sp) = [sp EXCEPT !.time = time]
  BY Zenon DEF Calc
<1> HIDE DEF time
<1> QED
  BY <1>1, <1>2, Zenon DEF Span

\* A condition holds or ends, as the members that update it call CalcFullABTime after it.
LEMMA SpanType ==
  ASSUME NEW sp \in Span, NEW t \in Word64
  PROVE  Calc(Holds(sp, t)) \in Span /\ Calc(Ends(sp, t)) \in Span
<1>1. [sp EXCEPT !.end = t] \in Span /\ [sp EXCEPT !.on = FALSE, !.end = t] \in Span
  BY Zenon DEF Span
<1>2. [sp EXCEPT !.on = TRUE, !.start = t, !.prev = sp.time, !.end = t] \in Span
  <2>1. sp.time \in Nat
    BY DEF Span
  <2> QED
    BY <2>1, Zenon DEF Span
<1>3. Holds(sp, t) \in Span
  BY <1>1, <1>2, Zenon DEF Holds
<1>4. Ends(sp, t) \in Span
  BY <1>1, Zenon DEF Ends
<1> QED
  BY <1>3, <1>4, CalcType, Zenon

\* The two times as the table writes them
LEMMA CalcUpToType ==
  ASSUME NEW sp \in Span, NEW t \in Word64, NEW met
  PROVE  CalcUpTo(sp, t, met) \in Span
<1> DEFINE time == sp.prev + Minus(t, sp.start)
<1>1. time \in Nat
  <2>1. sp.start \in Word64 /\ sp.prev \in Nat
    BY DEF Span
  <2>2. Minus(t, sp.start) \in Nat
    BY <2>1, MinusType
  <2> QED
    BY <2>1, <2>2
<1>2. CalcUpTo(sp, t, met) = IF t # 0 /\ met THEN [sp EXCEPT !.time = time] ELSE Calc(sp)
  BY Zenon DEF CalcUpTo
<1> HIDE DEF time
<1>3. [sp EXCEPT !.time = time] \in Span
  BY <1>1, Zenon DEF Span
<1> QED
  BY <1>2, <1>3, CalcType, Zenon

\* Draw, as a function of the metadata
Drawn(m, t) ==
  [m EXCEPT !.full = CalcUpTo(@, t, m.ab >= Cap), !.aggro = CalcUpTo(@, t, @.on)]

\* What it leaves alone, and what it writes
LEMMA DrawnIs ==
  ASSUME NEW m \in Meta, NEW t
  PROVE  LET x == Drawn(m, t)
         IN  /\ x.full = CalcUpTo(m.full, t, m.ab >= Cap)
             /\ x.aggro = CalcUpTo(m.aggro, t, m.aggro.on)
             /\ x.previous = m.previous /\ x.sum = m.sum
<1> DEFINE full == CalcUpTo(m.full, t, m.ab >= Cap)
           aggro == CalcUpTo(m.aggro, t, m.aggro.on)
           x == [m EXCEPT !.full = full, !.aggro = aggro]
<1>1. Drawn(m, t) = x
  BY Zenon DEF Drawn
<1> HIDE DEF full, aggro
<1>2. /\ x.full = full /\ x.aggro = aggro
      /\ x.previous = m.previous /\ x.sum = m.sum
  BY DEF Meta
<1> HIDE DEF x
<1> QED
  BY <1>1, <1>2, Zenon DEF full, aggro

LEMMA DrawnType ==
  ASSUME NEW m \in Meta, NEW t \in Word64
  PROVE  Drawn(m, t) \in Meta
<1> DEFINE full == CalcUpTo(m.full, t, m.ab >= Cap)
           aggro == CalcUpTo(m.aggro, t, m.aggro.on)
<1>1. Drawn(m, t) = [m EXCEPT !.full = full, !.aggro = aggro]
  BY Zenon DEF Drawn
<1>2. m.full \in Span /\ m.aggro \in Span
  BY DEF Meta
<1>3. full \in Span /\ aggro \in Span
  BY <1>2, CalcUpToType, Zenon
<1> HIDE DEF full, aggro
<1> QED
  BY <1>1, <1>3, Zenon DEF Meta

LEMMA WeighType ==
  ASSUME NEW m \in Meta, NEW t \in Word64
  PROVE  Weigh(m, t) \in Meta
<1> DEFINE dt == Minus(t, m.previous)
           v == Capped(m.ab)
           sum == Plus(m.sum, Weighted(dt, v))
<1>1. m.previous \in Word64 /\ m.sum \in Nat /\ m.ab \in Nat
  <2>1. Value \subseteq Nat
    BY MetaAssumption, Zenon
  <2>2. m.sum \in Word64 /\ m.previous \in Word64 /\ m.ab \in Value \cup {0}
    BY DEF Meta
  <2>3. Word64 \subseteq Nat /\ 0 \in Nat
    BY DEF Word64
  <2> QED
    BY <2>1, <2>2, <2>3, Zenon
<1>2. dt \in Nat
  BY <1>1, MinusType
<1>3. v \in Nat
  BY <1>1, MetaAssumption DEF Capped
<1> HIDE DEF dt, v
<1>4. sum \in Word64
  BY <1>1, <1>2, <1>3, WeightedType, PlusType
<1> USE DEF dt, v
<1>5. Weigh(m, t) = [m EXCEPT !.sum = sum, !.previous = t]
  BY Zenon DEF Weigh
<1> HIDE DEF sum
<1> QED
  BY <1>4, <1>5, Zenon DEF Meta

LEMMA UpdateStatType ==
  ASSUME NEW m \in Meta, NEW v \in Value, NEW t \in Word64
  PROVE  UpdateStat(m, v, t) \in Meta
<1> DEFINE new == [m EXCEPT !.ab = v]
           w == Weigh(new, t)
           full == Calc(IF v >= Cap THEN Holds(w.full, t) ELSE Ends(w.full, t))
<1>1. new \in Meta
  BY Zenon DEF Meta
<1>2. UpdateStat(m, v, t) = IF isRun THEN [w EXCEPT !.full = full] ELSE new
  BY Zenon DEF UpdateStat
<1> HIDE DEF new
<1>3. w \in Meta
  BY <1>1, WeighType
<1> HIDE DEF w
<1>4. w.full \in Span
  BY <1>3 DEF Meta
<1>5. full \in Span
  BY <1>4, SpanType, Zenon
<1> HIDE DEF full
<1>6. [w EXCEPT !.full = full] \in Meta
  BY <1>3, <1>5, Zenon DEF Meta
<1> QED
  BY <1>1, <1>2, <1>6, Zenon

LEMMA UpdateAggroTimeType ==
  ASSUME NEW m \in Meta, NEW isSet \in BOOLEAN, NEW t \in Word64
  PROVE  UpdateAggroTime(m, isSet, t) \in Meta
<1> DEFINE aggro == Calc(IF isSet THEN Holds(m.aggro, t) ELSE Ends(m.aggro, t))
<1>1. m.aggro \in Span
  BY DEF Meta
<1>2. aggro \in Span
  BY <1>1, SpanType, Zenon
<1>3. UpdateAggroTime(m, isSet, t) = [m EXCEPT !.aggro = aggro]
  BY Zenon DEF UpdateAggroTime
<1> HIDE DEF aggro
<1> QED
  BY <1>2, <1>3, Zenon DEF Meta

LEMMA MeterSuspendedType ==
  ASSUME NEW m \in Meta, NEW t \in Word64
  PROVE  MeterSuspended(m, t) \in Meta
<1> DEFINE w == Weigh(m, t)
           full == Calc(Ends(w.full, t))
           aggro == Calc(Ends(w.aggro, t))
<1>1. MeterSuspended(m, t) = [w EXCEPT !.full = full, !.aggro = aggro]
  BY Zenon DEF MeterSuspended
<1>2. w \in Meta
  BY WeighType
<1> HIDE DEF w
<1>3. w.full \in Span /\ w.aggro \in Span
  BY <1>2 DEF Meta
<1>4. full \in Span /\ aggro \in Span
  BY <1>3, SpanType, Zenon
<1> HIDE DEF full, aggro
<1> QED
  BY <1>1, <1>2, <1>4, Zenon DEF Meta

\* The time a packet or command takes: that of the run, or the session's
Time == IF timer.status = "end" THEN 0 ELSE ran

LEMMA TimeIs ==
  ASSUME IInv
  PROVE  /\ Time \in 0..MaxNow
         /\ TimerTime(timer) = Time /\ TimerTime(TimerSuspend(timer)) = Time
<1>1. Time \in 0..MaxNow
  BY WordIsLarge DEF IInv, Time
<1>2. TimerTime(timer) = Time
  <2>1. CASE timer.status = "end"
    BY <2>1 DEF TimerTime, Time
  <2> QED
    BY <2>1, Elapsed DEF ElapsedIsRunning, Time
<1>3. TimerTime(TimerSuspend(timer)) = TimerTime(timer)
  <2>1. CASE timer.status = "run"
    <3> DEFINE t == [timer EXCEPT !.status = "suspend", !.suspend = now]
    <3>1. TimerSuspend(timer) = t
      BY <2>1 DEF TimerSuspend
    <3>2. /\ t.status = "suspend" /\ t.suspend = now
          /\ t.start = timer.start /\ t.suspended = timer.suspended
      BY DEF IInv, TimerType
    <3> HIDE DEF t
    <3> QED
      BY <2>1, <3>1, <3>2 DEF TimerTime
  <2>2. CASE timer.status # "run"
    BY <2>2 DEF TimerSuspend
  <2> QED
    BY <2>1, <2>2
<1> QED
  BY <1>1, <1>2, <1>3

\* It fits a word.
LEMMA TimeType ==
  ASSUME IInv
  PROVE  /\ TimerTime(timer) \in Word64
         /\ TimerTime(TimerSuspend(timer)) \in Word64
         /\ GetTime(historyMode, timer) \in Word64
<1>1. Time \in Word64 /\ Shown \in Word64
  BY TimeIs, WordIsLarge DEF Word64
<1> QED
  BY <1>1, TimeIs DEF GetTime

\* What is needed besides the timer
Typed == rows \in BOOLEAN /\ historyMode \in BOOLEAN /\ kept \in BOOLEAN /\ meta \in Meta

LEMMA TypedStep ==
  ASSUME IInv, Typed, [Next]_vars
  PROVE  Typed'
<1>1. CASE Tick
  BY <1>1 DEF Tick, Typed
<1>2. CASE \E hit \in BOOLEAN : Start(hit)
  BY <1>2 DEF Start, Typed
<1>3. CASE Suspend
  BY <1>3, TimeType, MeterSuspendedType DEF Suspend, Typed
<1>4. CASE Clear \/ SetHistory
  <2>1. MeterReseted(meta) \in Meta
    <3>1. meta.ab \in Value \cup {0}
      BY DEF Typed, Meta
    <3> QED
      BY <3>1, NewMetaType, Zenon DEF MeterReseted
  <2> QED
    BY <1>4, <2>1 DEF Clear, SetHistory, EndRun, Typed
<1>5. CASE \E v \in Value : StatPacket(v)
  BY <1>5, TimeType, UpdateStatType, Zenon DEF StatPacket, Typed
<1>6. CASE \E isSet \in BOOLEAN : AggroPacket(isSet)
  <2>1. PICK isSet \in BOOLEAN : AggroPacket(isSet)
    BY <1>6
  <2>2. meta' \in Meta
    BY <2>1, TimeType, UpdateAggroTimeType DEF AggroPacket, Typed
  <2>3. kept' \in BOOLEAN /\ UNCHANGED <<rows, historyMode>>
    BY <2>1, Zenon DEF AggroPacket, Typed
  <2> QED
    BY <2>2, <2>3 DEF Typed
<1>7. CASE Draw
  <2>1. meta' = Drawn(meta, TimerTime(timer))
    BY <1>7, Zenon DEF Draw, Drawn
  <2>2. meta' \in Meta
    BY <2>1, TimeType, DrawnType, Zenon DEF Typed
  <2> QED
    BY <1>7, <2>2 DEF Draw, Typed
<1>8. CASE UNCHANGED vars
  BY <1>8 DEF vars, Typed
<1> QED
  BY <1>1, <1>2, <1>3, <1>4, <1>5, <1>6, <1>7, <1>8 DEF Next

LEMMA InitTyped == Init => Typed
<1> SUFFICES ASSUME Init PROVE Typed
  OBVIOUS
<1>1. 0 \in Word64 /\ 0 \in Nat
  BY WordIsLarge DEF Word64
<1>2. NewSpan \in Span
  BY <1>1, Zenon DEF NewSpan, Span
<1>3. meta \in Meta
  BY <1>1, <1>2, Zenon DEF Init, NewMeta, Meta
<1> QED
  BY <1>3 DEF Init, Typed

\* Every sum and time stays what a 64-bit member can hold, and no stamp of the timer is
\* ahead of the clock (Timer.h:9-16, SW_PLAYER_METADATA in Damage Meter.h).
THEOREM TypeCorrect == Spec => []TypeOK
<1>1. Init => IInv /\ Typed
  BY InitInv, InitTyped
<1>2. IInv /\ Typed /\ [Next]_vars => (IInv /\ Typed)'
  BY InvStep, TypedStep
<1>3. IInv /\ Typed => TypeOK
  BY DEF IInv, TimerType, Typed, Meta, TypeOK
<1> QED
  BY <1>1, <1>2, <1>3, PTL DEF Spec

-----------------------------------------------------------------------------
(* The sums: measured on the time of the run, they stay within it.           *)

\* What holds of a condition at the time t: the time before it was last met is not more
\* than the stamp it was met at.  How long it holds for is up to its end, or up to the time
\* the table was drawn at.
FitsSpan(sp, t) ==
  /\ sp.prev <= sp.start /\ sp.start <= sp.end /\ sp.end <= t
  /\ sp.time <= t

FitsRun(m, t) ==
  /\ m.previous <= t /\ m.sum <= Cap * m.previous
  /\ FitsSpan(m.full, t) /\ FitsSpan(m.aggro, t)

Sums ==
  /\ historyMode => timer.status = "end"
  /\ kept \/ FitsRun(meta, Time)

LEMMA CapTimes ==
  ASSUME NEW a \in 0..MaxNow + Shown, NEW c \in 0..Cap
  PROVE  /\ Cap \in Nat /\ a * c \in Nat /\ Cap * a \in Nat
         /\ a * c <= Cap * a /\ Cap * a < Word
<1>1. /\ Cap \in Nat /\ MaxNow \in Nat /\ Shown \in Nat /\ Word \in Nat
      /\ Word > 2 * Cap * (MaxNow + Shown)
  BY MetaAssumption
<1>2. ASSUME NEW x \in Nat, NEW y \in Nat, NEW z \in Nat, x <= y
      PROVE  z * x <= z * y /\ x * z <= y * z /\ x * z = z * x /\ z * x \in Nat
  BY <1>2
<1>3. a \in Nat /\ c \in Nat /\ c <= Cap /\ MaxNow + Shown \in Nat /\ a <= MaxNow + Shown
  BY <1>1
<1>4. a * c <= a * Cap /\ a * c \in Nat /\ a * Cap = Cap * a /\ Cap * a \in Nat
  BY <1>1, <1>2, <1>3
<1>5. Cap * a <= Cap * (MaxNow + Shown) /\ Cap * (MaxNow + Shown) \in Nat
  BY <1>1, <1>2, <1>3
<1>6. 2 * Cap * (MaxNow + Shown) = 2 * (Cap * (MaxNow + Shown))
  BY <1>1
<1> QED
  BY <1>1, <1>4, <1>5, <1>6

\* The time since the last change adds at most the cap for each unit, without a wrap.
LEMMA WeighFits ==
  ASSUME NEW m \in Meta, NEW t \in 0..MaxNow, m.previous <= t, m.sum <= Cap * m.previous
  PROVE  Plus(m.sum, Weighted(Minus(t, m.previous), Capped(m.ab))) <= Cap * t
<1> DEFINE dt == t - m.previous
           c == Capped(m.ab)
<1>1. m.previous \in Nat /\ m.sum \in Nat /\ m.ab \in Nat /\ t \in Nat
  <2>1. Value \subseteq Nat /\ Word64 \subseteq Nat /\ 0 \in Nat
    BY MetaAssumption DEF Word64
  <2>2. m.previous \in Word64 /\ m.sum \in Word64 /\ m.ab \in Value \cup {0}
    BY DEF Meta
  <2>3. t \in Nat
    OBVIOUS
  <2> QED
    BY <2>1, <2>2, <2>3, Zenon
<1>2. c \in 0..Cap
  BY <1>1, MetaAssumption DEF Capped
<1>3. Minus(t, m.previous) = dt /\ dt \in Nat
  BY <1>1, MinusIsDifference
<1> HIDE DEF c
<1>4. MaxNow \in Nat /\ Shown \in Nat /\ Word \in Nat
  BY MetaAssumption
<1>5. dt \in 0..MaxNow + Shown /\ t \in 0..MaxNow + Shown
  BY <1>1, <1>3, <1>4
<1>6. /\ dt * c \in Nat /\ dt * c <= Cap * dt /\ Cap * dt < Word /\ Cap * dt \in Nat
      /\ Cap * t < Word /\ Cap \in Nat
  BY <1>2, <1>5, CapTimes
<1>7. Weighted(dt, c) = dt * c
  BY <1>4, <1>6 DEF Weighted
<1>8. Cap * t = Cap * m.previous + Cap * dt
  BY <1>1, <1>3, <1>6
<1>9. m.sum + dt * c <= Cap * t
  <2>1. Cap * m.previous \in Nat /\ Cap * t \in Nat
    BY <1>1, <1>6
  <2> HIDE DEF dt
  <2> QED
    BY <1>1, <1>6, <1>8, <2>1
<1>10. Plus(m.sum, dt * c) = m.sum + dt * c
  <2>1. m.sum + dt * c < Word
    BY <1>1, <1>4, <1>6, <1>9
  <2> QED
    BY <1>1, <1>6, <2>1, PlusIsSum
<1> QED
  BY <1>3, <1>7, <1>9, <1>10 DEF c

LEMMA SpanFits ==
  ASSUME NEW sp \in Span, NEW t \in 0..MaxNow, FitsSpan(sp, t)
  PROVE  /\ FitsSpan(Calc(Holds(sp, t)), t) /\ FitsSpan(Calc(Ends(sp, t)), t)
         /\ FitsSpan(Calc(sp), t) /\ sp.time <= t
<1>1. /\ sp.start \in Nat /\ sp.end \in Nat /\ sp.prev \in Nat /\ sp.time \in Nat
      /\ t \in Nat
  BY DEF Span, Word64
<1>2. /\ sp.prev <= sp.start /\ sp.start <= sp.end /\ sp.end <= t
      /\ sp.time <= t
  BY DEF FitsSpan
<1>3. ASSUME NEW x \in Span, x.start \in Nat, x.end \in Nat, x.prev \in Nat,
             x.prev <= x.start, x.start <= x.end, x.end <= t
      PROVE  FitsSpan(Calc(x), t)
  <2>1. Minus(x.end, x.start) = x.end - x.start
    BY <1>3, MinusIsDifference
  <2> DEFINE time == x.prev + Minus(x.end, x.start)
             y == [x EXCEPT !.time = time]
  <2>2. Calc(x) = y
    BY Zenon DEF Calc
  <2>3. time = x.prev + (x.end - x.start)
    BY <2>1
  <2> HIDE DEF time
  <2>4. y.start = x.start /\ y.end = x.end /\ y.prev = x.prev /\ y.time = time
    BY DEF Span
  <2> HIDE DEF y
  <2>5. time <= t
    BY <1>1, <1>3, <2>3
  <2> QED
    BY <1>3, <2>2, <2>4, <2>5 DEF FitsSpan
<1>4. t \in Word64 /\ sp.time \in Nat
  BY <1>1, WordIsLarge DEF Word64
<1>5. sp.time <= t
  BY <1>1, <1>2
<1>6. FitsSpan(Calc([sp EXCEPT !.on = FALSE, !.end = t]), t)
  <2> DEFINE x == [sp EXCEPT !.on = FALSE, !.end = t]
  <2>1. x \in Span
    BY <1>4, Zenon DEF Span
  <2>2. x.start = sp.start /\ x.end = t /\ x.prev = sp.prev
    BY DEF Span
  <2> HIDE DEF x
  <2>3. /\ x.start \in Nat /\ x.end \in Nat /\ x.prev \in Nat
        /\ x.prev <= x.start /\ x.start <= x.end /\ x.end <= t
    BY <1>1, <1>2, <2>2
  <2> QED
    BY <1>3, <2>1, <2>3, Zenon DEF x
<1>7. FitsSpan(Calc([sp EXCEPT !.end = t]), t)
  <2> DEFINE x == [sp EXCEPT !.end = t]
  <2>1. x \in Span
    BY <1>4, Zenon DEF Span
  <2>2. x.start = sp.start /\ x.end = t /\ x.prev = sp.prev
    BY DEF Span
  <2> HIDE DEF x
  <2>3. /\ x.start \in Nat /\ x.end \in Nat /\ x.prev \in Nat
        /\ x.prev <= x.start /\ x.start <= x.end /\ x.end <= t
    BY <1>1, <1>2, <2>2
  <2> QED
    BY <1>3, <2>1, <2>3, Zenon DEF x
<1>8. FitsSpan(Calc([sp EXCEPT !.on = TRUE, !.start = t, !.prev = sp.time, !.end = t]), t)
  <2> DEFINE x == [sp EXCEPT !.on = TRUE, !.start = t, !.prev = sp.time, !.end = t]
  <2>1. x \in Span
    BY <1>4, Zenon DEF Span
  <2>2. x.start = t /\ x.end = t /\ x.prev = sp.time
    BY DEF Span
  <2> HIDE DEF x
  <2>3. /\ x.start \in Nat /\ x.end \in Nat /\ x.prev \in Nat
        /\ x.prev <= x.start /\ x.start <= x.end /\ x.end <= t
    BY <1>1, <1>5, <2>2
  <2> QED
    BY <1>3, <2>1, <2>3, Zenon DEF x
<1>9. FitsSpan(Calc(sp), t)
  BY <1>1, <1>2, <1>3
<1> QED
  BY <1>5, <1>6, <1>7, <1>8, <1>9, Zenon DEF Holds, Ends

\* The table writes no more than the time it is drawn at.
LEMMA CalcUpToFits ==
  ASSUME NEW sp \in Span, NEW t \in 0..MaxNow, NEW met, FitsSpan(sp, t)
  PROVE  FitsSpan(CalcUpTo(sp, t, met), t)
<1> DEFINE time == sp.prev + Minus(t, sp.start)
           x == [sp EXCEPT !.time = time]
<1>1. CalcUpTo(sp, t, met) = IF t # 0 /\ met THEN x ELSE Calc(sp)
  BY Zenon DEF CalcUpTo
<1>2. /\ sp.start \in Nat /\ sp.end \in Nat /\ sp.prev \in Nat /\ t \in Nat
      /\ sp.prev <= sp.start /\ sp.start <= sp.end /\ sp.end <= t
  BY DEF Span, Word64, FitsSpan
<1>3. Minus(t, sp.start) = t - sp.start
  BY <1>2, MinusIsDifference
<1>4. time <= t
  BY <1>2, <1>3
<1> HIDE DEF time
<1>5. x.start = sp.start /\ x.end = sp.end /\ x.prev = sp.prev /\ x.time = time
  BY DEF Span
<1> HIDE DEF x
<1>6. FitsSpan(x, t)
  BY <1>2, <1>4, <1>5 DEF FitsSpan
<1> QED
  BY <1>1, <1>6, SpanFits, Zenon

\* What fits a time fits every later one, and a reset fits any.
LEMMA FitsLater ==
  ASSUME NEW m \in Meta, NEW s \in Nat, NEW t \in Nat, s <= t, FitsRun(m, s)
  PROVE  FitsRun(m, t)
<1>1. m.full \in Span /\ m.aggro \in Span /\ m.previous \in Nat
  BY DEF Meta, Word64
<1>2. ASSUME NEW sp \in Span, FitsSpan(sp, s)
      PROVE  FitsSpan(sp, t)
  BY <1>2 DEF FitsSpan, Span, Word64
<1>3. m.previous <= t
  BY <1>1 DEF FitsRun
<1> QED
  BY <1>1, <1>2, <1>3, Zenon DEF FitsRun

LEMMA NewFits ==
  ASSUME NEW v
  PROVE  FitsRun([NewMeta EXCEPT !.ab = v], 0)
<1>1. Cap * 0 = 0
  BY MetaAssumption
<1>2. FitsSpan(NewSpan, 0)
  BY DEF FitsSpan, NewSpan
<1> DEFINE m == [NewMeta EXCEPT !.ab = v]
<1>3. m.previous = 0 /\ m.sum = 0 /\ m.full = NewSpan /\ m.aggro = NewSpan
  BY DEF NewMeta
<1> HIDE DEF m
<1>4. m.previous <= 0 /\ m.sum <= Cap * m.previous
  BY <1>1, <1>3
<1> QED
  BY <1>2, <1>3, <1>4, Zenon DEF FitsRun, m

LEMMA WeighKeeps ==
  ASSUME NEW m \in Meta, NEW t \in 0..MaxNow, FitsRun(m, t)
  PROVE  /\ FitsRun(Weigh(m, t), t) /\ Weigh(m, t) \in Meta
         /\ Weigh(m, t).full = m.full /\ Weigh(m, t).aggro = m.aggro
<1> DEFINE sum == Plus(m.sum, Weighted(Minus(t, m.previous), Capped(m.ab)))
           w == [m EXCEPT !.sum = sum, !.previous = t]
<1>1. t \in Word64 /\ t \in Nat
  BY WordIsLarge DEF Word64
<1>2. Weigh(m, t) = w /\ Weigh(m, t) \in Meta
  BY <1>1, WeighType, Zenon DEF Weigh
<1>3. sum <= Cap * t
  BY WeighFits DEF FitsRun
<1> HIDE DEF sum
<1>4. w.sum = sum /\ w.previous = t /\ w.full = m.full /\ w.aggro = m.aggro
  BY DEF Meta
<1> HIDE DEF w
<1>5. FitsRun(w, t)
  BY <1>1, <1>3, <1>4 DEF FitsRun
<1> QED
  BY <1>2, <1>4, <1>5, Zenon

LEMMA UpdateStatKeeps ==
  ASSUME NEW m \in Meta, NEW v \in Value, NEW t \in 0..MaxNow, FitsRun(m, t)
  PROVE  FitsRun(UpdateStat(m, v, t), t)
<1> DEFINE new == [m EXCEPT !.ab = v]
           w == Weigh(new, t)
           full == Calc(IF v >= Cap THEN Holds(w.full, t) ELSE Ends(w.full, t))
<1>1. new \in Meta
  BY Zenon DEF Meta
<1>2. UpdateStat(m, v, t) = IF isRun THEN [w EXCEPT !.full = full] ELSE new
  BY Zenon DEF UpdateStat
<1>3. /\ new.previous = m.previous /\ new.sum = m.sum
      /\ new.full = m.full /\ new.aggro = m.aggro
  BY DEF Meta
<1> HIDE DEF new
<1>4. FitsRun(new, t)
  BY <1>3, Zenon DEF FitsRun
<1>5. w \in Meta /\ FitsRun(w, t)
  BY <1>1, <1>4, WeighKeeps, Zenon
<1> HIDE DEF w
<1>6. w.full \in Span /\ FitsSpan(w.full, t)
  BY <1>5 DEF Meta, FitsRun
<1>7. FitsSpan(full, t)
  BY <1>6, SpanFits, Zenon
<1> HIDE DEF full
<1> DEFINE x == [w EXCEPT !.full = full]
<1>8. /\ x.previous = w.previous /\ x.sum = w.sum
      /\ x.full = full /\ x.aggro = w.aggro
  BY <1>5 DEF Meta
<1>9. UpdateStat(m, v, t) = IF isRun THEN x ELSE new
  BY <1>2, Zenon
<1> HIDE DEF x
<1>10. FitsRun(x, t)
  BY <1>5, <1>7, <1>8, Zenon DEF FitsRun
<1> QED
  BY <1>4, <1>9, <1>10, Zenon

LEMMA UpdateAggroTimeKeeps ==
  ASSUME NEW m \in Meta, NEW isSet \in BOOLEAN, NEW t \in 0..MaxNow, FitsRun(m, t)
  PROVE  FitsRun(UpdateAggroTime(m, isSet, t), t)
<1> DEFINE aggro == Calc(IF isSet THEN Holds(m.aggro, t) ELSE Ends(m.aggro, t))
           x == [m EXCEPT !.aggro = aggro]
<1>1. UpdateAggroTime(m, isSet, t) = x
  BY Zenon DEF UpdateAggroTime
<1>2. m.aggro \in Span /\ FitsSpan(m.aggro, t)
  BY DEF Meta, FitsRun
<1>3. FitsSpan(aggro, t)
  BY <1>2, SpanFits, Zenon
<1> HIDE DEF aggro
<1>4. /\ x.previous = m.previous /\ x.sum = m.sum
      /\ x.full = m.full /\ x.aggro = aggro
  BY DEF Meta
<1> HIDE DEF x
<1> QED
  BY <1>1, <1>3, <1>4, Zenon DEF FitsRun

LEMMA MeterSuspendedKeeps ==
  ASSUME NEW m \in Meta, NEW t \in 0..MaxNow, FitsRun(m, t)
  PROVE  FitsRun(MeterSuspended(m, t), t)
<1> DEFINE w == Weigh(m, t)
           full == Calc(Ends(w.full, t))
           aggro == Calc(Ends(w.aggro, t))
           x == [w EXCEPT !.full = full, !.aggro = aggro]
<1>1. MeterSuspended(m, t) = x
  BY Zenon DEF MeterSuspended
<1>2. w \in Meta /\ FitsRun(w, t)
  BY WeighKeeps, Zenon
<1> HIDE DEF w
<1>3. w.full \in Span /\ FitsSpan(w.full, t) /\ w.aggro \in Span /\ FitsSpan(w.aggro, t)
  BY <1>2 DEF Meta, FitsRun
<1>4. FitsSpan(full, t) /\ FitsSpan(aggro, t)
  BY <1>3, SpanFits, Zenon
<1> HIDE DEF full, aggro
<1>5. /\ x.previous = w.previous /\ x.sum = w.sum
      /\ x.full = full /\ x.aggro = aggro
  BY <1>2 DEF Meta
<1> HIDE DEF x
<1> QED
  BY <1>1, <1>2, <1>4, <1>5, Zenon DEF FitsRun

LEMMA DrawnKeeps ==
  ASSUME NEW m \in Meta, NEW t \in 0..MaxNow, FitsRun(m, t)
  PROVE  FitsRun(Drawn(m, t), t)
<1> DEFINE x == Drawn(m, t)
<1>1. /\ x.full = CalcUpTo(m.full, t, m.ab >= Cap)
      /\ x.aggro = CalcUpTo(m.aggro, t, m.aggro.on)
      /\ x.previous = m.previous /\ x.sum = m.sum
  BY DrawnIs
<1>2. m.full \in Span /\ FitsSpan(m.full, t) /\ m.aggro \in Span /\ FitsSpan(m.aggro, t)
  BY DEF Meta, FitsRun
<1> HIDE DEF x
<1>3. FitsSpan(x.full, t) /\ FitsSpan(x.aggro, t)
  BY <1>1, <1>2, CalcUpToFits, Zenon
<1> QED
  BY <1>1, <1>3, Zenon DEF FitsRun, x

\* While a session is shown the timer is off: whatever shows one ends the run first.
LEMMA SumsStep ==
  ASSUME IInv, Typed, Sums, [Next]_vars
  PROVE  Sums'
<1>1. Time \in 0..MaxNow /\ meta \in Meta /\ Time \in Nat /\ MaxNow \in Nat
  BY TimeIs, WordIsLarge DEF Typed
<1>2. historyMode => timer.status = "end"
  BY DEF Sums
<1>3. ASSUME ~kept PROVE FitsRun(meta, Time)
  BY <1>3 DEF Sums
<1>4. CASE Tick
  <2>1. timer' = timer /\ UNCHANGED <<historyMode, meta, kept>>
    BY <1>4 DEF Tick
  <2>2. ran' \in Nat /\ ran <= ran' /\ ran \in Nat
    BY <1>4 DEF Tick, IInv
  <2>3. Time' \in Nat /\ Time <= Time'
    BY <1>1, <2>1, <2>2 DEF Time
  <2>4. ASSUME ~kept PROVE FitsRun(meta, Time')
    BY <1>1, <1>3, <2>3, <2>4, FitsLater
  <2> QED
    BY <1>2, <2>1, <2>4, Zenon DEF Sums
<1>5. ASSUME NEW hit \in BOOLEAN, Start(hit)
      PROVE  Sums'
  <2>1. ~historyMode' /\ UNCHANGED <<meta, kept>>
    BY <1>5 DEF Start
  <2>2. Time' = Time
    <3>1. CASE timer.status = "end"
      <4>1. ran' = 0
        BY <1>5, <3>1 DEF Start
      <4> QED
        BY <3>1, <4>1 DEF Time
    <3>2. CASE timer.status # "end"
      <4>1. ran' = ran /\ timer' = Run(timer)
        BY <1>5, <3>2 DEF Start
      <4>2. timer'.status # "end"
        <5>1. CASE timer.status = "suspend"
          <6> DEFINE suspended == Plus(timer.suspended, Minus(now, timer.suspend))
          <6>1. timer' = [timer EXCEPT !.status = "run", !.suspended = suspended]
            BY <4>1, <5>1 DEF Run
          <6> HIDE DEF suspended
          <6> QED
            BY <6>1 DEF IInv, TimerType
        <5>2. CASE timer.status = "run"
          BY <4>1, <5>2 DEF Run
        <5> QED
          BY <3>2, <5>1, <5>2 DEF IInv, TimerType
      <4> QED
        BY <3>2, <4>1, <4>2 DEF Time
    <3> QED
      BY <3>1, <3>2
  <2> QED
    BY <1>3, <2>1, <2>2, Zenon DEF Sums
<1>6. CASE Suspend
  <2>1. /\ ~historyMode' /\ UNCHANGED <<kept, ran>> /\ timer' = TimerSuspend(timer)
        /\ meta' = MeterSuspended(meta, Time)
    BY <1>6, TimeIs DEF Suspend
  <2>2. Time' = Time
    <3>1. timer'.status = "end" <=> timer.status = "end"
      BY <2>1 DEF TimerSuspend, IInv, TimerType
    <3> QED
      BY <2>1, <3>1 DEF Time
  <2>3. ASSUME ~kept PROVE FitsRun(meta', Time)
    BY <1>1, <1>3, <2>1, <2>3, MeterSuspendedKeeps, Zenon
  <2> QED
    BY <2>1, <2>2, <2>3, Zenon DEF Sums
<1>7. CASE Clear \/ SetHistory
  <2>1. timer' = Stop(timer) /\ ran' = 0
    BY <1>7 DEF Clear, SetHistory, EndRun
  <2>2. timer'.status = "end" /\ Time' = 0
    <3>1. timer'.status = "end"
      BY <2>1 DEF Stop, IInv, TimerType
    <3> QED
      BY <3>1 DEF Time
  <2>3. ASSUME EndRun, ~kept' PROVE FitsRun(meta', 0)
    <3>1. meta' = MeterReseted(meta)
      BY <2>3 DEF EndRun
    <3> QED
      BY <3>1, NewFits, Zenon DEF MeterReseted
  <2>4. CASE historyMode /\ Clear
    <3>1. UNCHANGED <<meta, kept>>
      BY <2>4 DEF Clear
    <3>2. Time = 0
      BY <1>2, <2>4 DEF Time
    <3> QED
      BY <1>3, <2>2, <3>1, <3>2, Zenon DEF Sums
  <2>5. CASE ~(historyMode /\ Clear)
    <3>1. EndRun
      BY <1>7, <2>5 DEF Clear, SetHistory
    <3> QED
      BY <2>2, <2>3, <3>1, Zenon DEF Sums
  <2> QED
    BY <2>4, <2>5
<1>8. ASSUME NEW v \in Value, StatPacket(v)
      PROVE  Sums'
  <2>1. /\ UNCHANGED <<timer, ran, historyMode, kept>>
        /\ meta' = UpdateStat(meta, v, GetTime(historyMode, timer))
    BY <1>8 DEF StatPacket
  <2>2. Time' = Time
    BY <2>1 DEF Time
  <2>3. ASSUME ~kept PROVE FitsRun(meta', Time)
    <3>1. CASE isRun
      <4>1. GetTime(historyMode, timer) = Time
        BY <1>2, <3>1, TimeIs DEF isRun, GetTime
      <4> QED
        BY <1>1, <1>3, <2>1, <2>3, <4>1, UpdateStatKeeps, Zenon
    <3>2. CASE ~isRun
      <4>1. meta' = UpdateStat(meta, v, Time)
        BY <2>1, <3>2, Zenon DEF UpdateStat
      <4> QED
        BY <1>1, <1>3, <2>3, <4>1, UpdateStatKeeps, Zenon
    <3> QED
      BY <3>1, <3>2
  <2> QED
    BY <1>2, <2>1, <2>2, <2>3, Zenon DEF Sums
<1>9. ASSUME NEW isSet \in BOOLEAN, AggroPacket(isSet)
      PROVE  Sums'
  <2> DEFINE t == GetTime(historyMode, timer)
  <2>1. /\ UNCHANGED <<timer, ran, historyMode>>
        /\ meta' = UpdateAggroTime(meta, isSet, t)
        /\ kept' = (kept \/ (historyMode /\ meta'.aggro # meta.aggro))
    BY <1>9, Zenon DEF AggroPacket
  <2>2. Time' = Time
    BY <2>1 DEF Time
  <2>3. ASSUME ~kept' PROVE FitsRun(meta', Time)
    <3>1. FitsRun(meta, Time)
      BY <1>3, <2>1, <2>3, Zenon
    <3>2. CASE historyMode
      <4>1. meta'.aggro = meta.aggro
        BY <2>1, <2>3, <3>2, Zenon
      <4> DEFINE aggro == Calc(IF isSet THEN Holds(meta.aggro, t) ELSE Ends(meta.aggro, t))
      <4>2. meta' = [meta EXCEPT !.aggro = aggro]
        BY <2>1, Zenon DEF UpdateAggroTime
      <4> HIDE DEF aggro
      <4>3. /\ meta'.full = meta.full /\ meta'.previous = meta.previous
            /\ meta'.sum = meta.sum
        BY <1>1, <4>2 DEF Meta
      <4> QED
        BY <3>1, <4>1, <4>3, Zenon DEF FitsRun
    <3>3. CASE ~historyMode
      <4>1. t = Time
        BY <3>3, TimeIs DEF GetTime
      <4> HIDE DEF t
      <4> QED
        BY <1>1, <2>1, <3>1, <4>1, UpdateAggroTimeKeeps, Zenon
    <3> QED
      BY <3>2, <3>3
  <2> QED
    BY <1>2, <2>1, <2>2, <2>3, Zenon DEF Sums
<1>10. CASE Draw
  <2>1. UNCHANGED <<timer, ran, historyMode, kept>> /\ meta' = Drawn(meta, Time)
    BY <1>10, TimeIs DEF Draw, Drawn
  <2>2. Time' = Time
    BY <2>1 DEF Time
  <2>3. ASSUME ~kept PROVE FitsRun(meta', Time)
    BY <1>1, <1>3, <2>1, <2>3, DrawnKeeps, Zenon
  <2> QED
    BY <1>2, <2>1, <2>2, <2>3, Zenon DEF Sums
<1>11. CASE UNCHANGED vars
  BY <1>11 DEF vars, Sums, Time
<1> QED
  BY <1>4, <1>5, <1>6, <1>7, <1>8, <1>9, <1>10, <1>11, Zenon DEF Next

\* What is filed at the time t fits it: the time up to t is added the same way.
LEMMA Filed ==
  ASSUME IInv, Typed, FitsRun(meta, Time)
  PROVE  Possible(Time)
<1>1. Time \in 0..MaxNow /\ meta \in Meta
  BY TimeIs DEF Typed
<1>2. /\ meta.previous <= Time /\ meta.sum <= Cap * meta.previous
      /\ FitsSpan(meta.full, Time) /\ FitsSpan(meta.aggro, Time)
  BY Zenon DEF FitsRun
<1>3. AvgAB(meta, Time) <= Cap * Time
  BY <1>1, <1>2, WeighFits, Zenon DEF AvgAB
<1>4. ASSUME NEW sp \in Span, FitsSpan(sp, Time)
      PROVE  sp.time <= Time /\ Calc(Ends(sp, Time)).time <= Time
  <2> DEFINE x == Calc(Ends(sp, Time))
  <2>1. sp.time <= Time /\ FitsSpan(x, Time)
    BY <1>1, <1>4, SpanFits, Zenon
  <2>2. x \in Span
    <3>1. Time \in Word64
      BY <1>1, WordIsLarge DEF Word64
    <3> QED
      BY <3>1, SpanType, Zenon
  <2> HIDE DEF x
  <2>3. x.time <= Time
    BY <1>1, <2>1, <2>2, SpanFits, Zenon
  <2> QED
    BY <2>1, <2>3 DEF x
<1>5. meta.full \in Span /\ meta.aggro \in Span
  BY <1>1 DEF Meta
<1> QED
  BY <1>2, <1>3, <1>4, <1>5, Zenon DEF Possible, FullABTime, AggroTime

\* What a run files of a player is possible for its time, unless the sums are not its own
\* (SW_PLAYER_METADATA in Damage Meter.h): an average not above the cap, no condition held
\* for longer than the run, whenever the table writes the times (PlayerTable.cpp:1692).
\* No product and no sum of it wraps.
THEOREM SumsCorrect == Spec => []SumsOfRun
<1>1. Init => IInv /\ Typed /\ Sums
  <2> SUFFICES ASSUME Init PROVE Sums
    BY InitInv, InitTyped
  <2>1. Time = 0 /\ ~historyMode
    BY DEF Init, Time
  <2>2. meta = [NewMeta EXCEPT !.ab = 0]
    BY DEF Init, NewMeta
  <2> QED
    BY <2>1, <2>2, NewFits, Zenon DEF Sums
<1>2. IInv /\ Typed /\ Sums /\ [Next]_vars => (IInv /\ Typed /\ Sums)'
  BY InvStep, TypedStep, SumsStep
<1>3. IInv /\ Typed /\ Sums => SumsOfRun
  BY TimeIs, Filed, Zenon DEF Sums, SumsOfRun
<1> QED
  BY <1>1, <1>2, <1>3, PTL DEF Spec
=============================================================================
