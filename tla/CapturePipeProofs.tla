------------------------- MODULE CapturePipeProofs -------------------------
(***************************************************************************)
(* What arrives at the meter, for any number of frames and faults and any  *)
(* sizes of queue, batch and pipe: whole frames, in order, each once.      *)
(***************************************************************************)
EXTENDS CapturePipe, TLAPS, WellFoundedInduction

\* A frame is taken to be before another if both are the game's; pings are not
\* told apart, and not handed on.
Before(f, g) == f = Ping \/ g = Ping \/ f[1] < g[1]
Ahead(F, G) == \A f \in F, g \in G : Before(f, g)
Ascending(q) == \A i, j \in DOMAIN q : i < j => Before(q[i], q[j])

\* What TypeOK says of the connection
Linked ==
  /\ connected = (reader \in {"length", "body"})
  /\ (link = "none") = (reader = "create")
  /\ (link = "opened") = (handle = "live")

\* Where the threads stand
Places ==
  /\ writer # "write" => off = 0
  /\ writer = "loop" => batch = <<>>
  /\ handle = "none" => writer = "loop"
  /\ link \in {"none", "listen"} => pipe = <<>> /\ reader # "body"
  /\ reader = "body" => length \in Half /\ length.part = "length"
  /\ reader # "body" => length = Garbage

\* The halves between WriteAll and HandleMessage: every body has its own length
\* before it, the reader takes the one for what it is, and the writer goes on where
\* they end.
BodyOf(h) == [h EXCEPT !.part = "body"]

Alternate ==
  \A i \in 1..(Len(pipe) - 1) :
    IF pipe[i].part = "length" THEN pipe[i + 1] = BodyOf(pipe[i])
                               ELSE pipe[i + 1].part = "length"

Due ==
  pipe # <<>> => IF reader = "body" THEN pipe[1] = BodyOf(length)
                                    ELSE pipe[1].part = "length"

LastHalf == IF pipe # <<>> THEN pipe[Len(pipe)] ELSE length
OwesBody == IF pipe # <<>> THEN LastHalf.part = "length" ELSE reader = "body"

Abreast ==
  handle = "live" =>
    IF OwesBody THEN /\ off % 2 = 1 /\ off < 2 * Len(batch)
                     /\ LastHalf.frame = batch[off \div 2 + 1]
                ELSE off % 2 = 0

InStep == Alternate /\ Due /\ Abreast

\* The frames on their way are in the order they were pushed in, from those of
\* HandleMessage to those of the queue, and no newer than the last one sent.
RestOf(b, o) == {b[k] : k \in {k \in DOMAIN b : o <= 2 * (k - 1)}}
Unwritten == RestOf(batch, off)
InPipe == {pipe[i].frame : i \in DOMAIN pipe} \cup
          {length.frame : r \in {reader} \cap {"body"}}

PipeOrder ==
  \A i, j \in DOMAIN pipe :
    i < j /\ pipe[i].part = "body" => Before(pipe[i].frame, pipe[j].frame)

Chain(H, P, U, Q) ==
  /\ Ahead(H, P) /\ Ahead(H, U) /\ Ahead(H, Q)
  /\ Ahead(P, U) /\ Ahead(P, Q) /\ Ahead(U, Q)

Order ==
  /\ Ascending(queue) /\ Ascending(batch) /\ Ascending(handled) /\ PipeOrder
  /\ Chain(Range(handled), InPipe, Unwritten, Range(queue))
  /\ \A f \in Range(queue) \cup Unwritten \cup InPipe \cup Range(handled) : f[1] <= sent

Whole == Range(handled) \subseteq Frame \ {Ping}

IInv == TypeOK /\ Places /\ InStep /\ Whole /\ Order

-----------------------------------------------------------------------------
(* Types and places *)

LEMMA FrameType ==
  /\ Frame \subseteq Seq(Nat) /\ Ping \in Frame /\ Garbage \notin Frame
  /\ Seq(Frame) \subseteq Seq(Seq(Nat))
  /\ \A f \in Frame : Len(f) = 1 /\ f[1] \in 0..MaxSent
  /\ \A n \in 0..MaxSent : <<n>> \in Frame
<1>1. MaxSent \in Nat
  BY BoundsAssumption
<1>2. ASSUME NEW f \in Frame
      PROVE  f \in Seq(Nat) /\ Len(f) = 1 /\ f[1] \in 0..MaxSent /\ f # Garbage
  <2>1. PICK n \in 0..MaxSent : f = <<n>>
    BY Zenon DEF Frame
  <2> QED
    BY <2>1 DEF Garbage
<1>3. Ping \in Frame
  <2>1. 0 \in 0..MaxSent
    BY <1>1
  <2> QED
    BY <2>1, Zenon DEF Ping, Frame
<1>4. Seq(Frame) \subseteq Seq(Seq(Nat))
  BY <1>2
<1> QED
  BY <1>2, <1>3, <1>4, Zenon DEF Frame

\* Induction, as far as it does without a predicate for a parameter
LEMMA LeastOf ==
  ASSUME NEW T, T \subseteq Nat, T # {}
  PROVE  \E x \in T : \A y \in T : x <= y
<1>1. PICK x \in T : \A y \in T : ~ (<<y, x>> \in OpToRel(<, Nat))
  BY NatLessThanWellFounded, WFMin, Zenon
<1>2. \A y \in T : ~(y < x)
  <2> SUFFICES ASSUME NEW y \in T, y < x
               PROVE  FALSE
    OBVIOUS
  <2>1. <<y, x>> \in Nat \X Nat /\ <<y, x>>[1] = y /\ <<y, x>>[2] = x
    OBVIOUS
  <2>2. <<y, x>> \in OpToRel(<, Nat)
    BY <2>1, Zenon DEF OpToRel
  <2> QED
    BY <1>1, <2>2, Zenon
<1> QED
  BY <1>2

\* A frame of one byte takes five, and so do all of them: the recursion of Cost has
\* one solution.
LEMMA CostIs ==
  ASSUME NEW q \in Seq(Frame)
  PROVE  Cost(q) = 5 * Len(q)
<1> DEFINE N == Len(q)
           R(f) == [n \in 0..N |-> IF n = 0 THEN 0 ELSE f[n - 1] + Len(q[n]) + 4]
           g == [n \in 0..N |-> 5 * n]
           c == CHOOSE f : f = R(f)
<1>1. N \in Nat /\ \A n \in 1..N : q[n] \in Frame
  OBVIOUS
<1>2. \A n \in 1..N : Len(q[n]) = 1
  BY <1>1, FrameType, Zenon
<1>3. g = R(g)
  <2>1. ASSUME NEW n \in 0..N
        PROVE  g[n] = R(g)[n]
    <3>1. CASE n = 0
      BY <3>1
    <3>2. CASE n # 0
      <4>1. n \in 1..N /\ n - 1 \in 0..N /\ n \in Int
        BY <1>1, <3>2
      <4>2. Len(q[n]) = 1
        BY <1>2, <4>1, Zenon
      <4>3. g[n] = 5 * n /\ g[n - 1] = 5 * (n - 1)
        BY <4>1, Zenon
      <4>4. R(g)[n] = g[n - 1] + Len(q[n]) + 4
        BY <3>2, Zenon
      <4> HIDE DEF g, R
      <4> QED
        BY <4>1, <4>2, <4>3, <4>4
    <3> QED
      BY <3>1, <3>2
  <2> HIDE DEF N
  <2> QED
    BY <2>1
<1>4. Cost(q) = c[N]
  BY Zenon DEF Cost
<1> HIDE DEF R, g, N
<1>5. c = R(c)
  BY <1>3, Zenon
<1> HIDE DEF c
<1>6. \A n \in 0..N : c[n] = IF n = 0 THEN 0 ELSE c[n - 1] + Len(q[n]) + 4
  BY <1>5, Zenon DEF R
<1> DEFINE B == {n \in 0..N : c[n] # 5 * n}
<1>7. B = {}
  <2> SUFFICES ASSUME B # {}
               PROVE  FALSE
    OBVIOUS
  <2>1. B \subseteq Nat
    BY <1>1
  <2> HIDE DEF B
  <2>2. PICK n \in B : \A m \in B : n <= m
    BY <2>1, LeastOf, Zenon
  <2>3. n \in 0..N /\ c[n] # 5 * n
    BY Zenon DEF B
  <2>4. n # 0
    BY <1>6, <2>3
  <2>5. n \in 1..N /\ n - 1 \in 0..N /\ ~(n <= n - 1)
    BY <1>1, <2>3, <2>4
  <2>6. n - 1 \notin B
    BY <2>2, <2>5, Zenon
  <2>7. c[n - 1] = 5 * (n - 1)
    BY <2>5, <2>6, Zenon DEF B
  <2>8. c[n] = c[n - 1] + Len(q[n]) + 4
    BY <1>6, <2>3, <2>4, Zenon
  <2>9. Len(q[n]) = 1
    BY <1>2, <2>5, Zenon
  <2> QED
    BY <2>3, <2>5, <2>7, <2>8, <2>9
<1>8. N \in 0..N
  BY <1>1
<1>9. c[N] = 5 * N
  BY <1>7, <1>8, Zenon
<1> QED
  BY <1>4, <1>9, Zenon DEF N

LEMMA CostType ==
  ASSUME NEW q \in Seq(Frame)
  PROVE  Cost(q) \in Nat
<1>1. Len(q) \in Nat
  OBVIOUS
<1>2. Cost(q) = 5 * Len(q)
  BY CostIs, Zenon
<1> QED
  BY <1>1, <1>2

LEMMA CostEmpty == Cost(<<>>) = 0
<1>1. <<>> \in Seq(Frame) /\ Len(<<>>) = 0
  OBVIOUS
<1>2. Cost(<<>>) = 5 * Len(<<>>)
  BY <1>1, CostIs, Zenon
<1> QED
  BY <1>1, <1>2

LEMMA CostAppend ==
  ASSUME NEW q \in Seq(Frame), NEW f \in Frame
  PROVE  Cost(Append(q, f)) = Cost(q) + Len(f) + 4
<1>1. Append(q, f) \in Seq(Frame) /\ Len(Append(q, f)) = Len(q) + 1 /\ Len(q) \in Nat
  OBVIOUS
<1>2. Cost(q) = 5 * Len(q) /\ Cost(Append(q, f)) = 5 * Len(Append(q, f)) /\ Len(f) = 1
  BY <1>1, CostIs, FrameType, Zenon
<1> QED
  BY <1>1, <1>2

LEMMA CostTail ==
  ASSUME NEW q \in Seq(Frame), q # <<>>
  PROVE  Cost(q) = Len(Head(q)) + 4 + Cost(Tail(q))
<1>1. /\ Tail(q) \in Seq(Frame) /\ Len(Tail(q)) = Len(q) - 1 /\ Len(q) \in Nat \ {0}
      /\ Head(q) \in Frame
  OBVIOUS
<1>2. /\ Cost(q) = 5 * Len(q) /\ Cost(Tail(q)) = 5 * Len(Tail(q))
      /\ Len(Head(q)) = 1
  BY <1>1, CostIs, FrameType, Zenon
<1> DEFINE a == Cost(q)
           b == Cost(Tail(q))
           m == Len(q)
           t == Len(Tail(q))
           h == Len(Head(q))
<1>3. a = 5 * m /\ b = 5 * t /\ h = 1 /\ t = m - 1 /\ m \in Int
  BY <1>1, <1>2
<1> HIDE DEF a, b, m, t, h
<1>4. a = h + 4 + b
  BY <1>3
<1> QED
  BY <1>4, Zenon DEF a, b, h

\* The queue of the pipe is the queue of FrameFifo.
LEMMA QueueSteps ==
  /\ \A f : Fifo!Push(f) <=> /\ Cost(queue) + Len(f) + 4 <= QueueCap - 1
                             /\ queue' = Append(queue, f)
                             /\ UNCHANGED <<dropped, popped>>
  /\ \A f : Fifo!Drop(f) => queue' = queue
  /\ \A room : Fifo!Pop(room) <=>
       /\ IF queue # <<>> /\ Len(Head(queue)) + 4 <= room
          THEN popped' = Head(queue) /\ queue' = Tail(queue)
          ELSE popped' = <<>> /\ queue' = queue
       /\ UNCHANGED dropped
<1>1. \A q : Fifo!Cost(q) = Cost(q)
  BY Zenon DEF Fifo!Cost, Cost
<1> QED
  BY <1>1, Zenon DEF Fifo!Push, Fifo!Drop, Fifo!Pop, Fifo!HasRoom

LEMMA InitType == Init => TypeOK /\ Places
<1> SUFFICES ASSUME Init
             PROVE  TypeOK /\ Places
  OBVIOUS
<1>1. <<>> \in Seq(Frame) /\ <<>> \in Seq(Half) /\ <<>> \in Seq(Frame \cup {Garbage})
  OBVIOUS
<1>2. Cost(<<>>) < QueueCap /\ Cost(<<>>) <= BatchCap
  BY CostEmpty, BoundsAssumption
<1>3. /\ 0 \in 0..MaxSent /\ 0 \in 0..MaxFaults /\ Len(<<>>) <= PipeCap
      /\ 0 \in 0..(2 * Len(<<>>))
  BY BoundsAssumption
<1>4. Linked
  <2>1. connected = FALSE /\ reader = "create" /\ link = "none" /\ handle = "none"
    BY Zenon DEF Init
  <2>2. (reader \in {"length", "body"}) = FALSE
    BY <2>1
  <2>3. (link = "none") = (reader = "create") /\ (link = "opened") = (handle = "live")
    BY <2>1
  <2> QED
    BY <2>1, <2>2, <2>3, Zenon DEF Linked
<1> QED
  BY <1>1, <1>2, <1>3, <1>4, Zenon DEF Init, TypeOK, Places, Linked

\* What a frame pushed or dropped does to the queue
LEMMA PushType ==
  ASSUME TypeOK, NEW f \in Frame, Fifo!Push(f) \/ Fifo!Drop(f)
  PROVE  queue' \in Seq(Frame) /\ Cost(queue') < QueueCap
<1>1. queue \in Seq(Frame) /\ Cost(queue) < QueueCap
  BY Zenon DEF TypeOK
<1>2. CASE Fifo!Drop(f)
  BY <1>1, <1>2, QueueSteps, Zenon
<1>3. CASE Fifo!Push(f)
  <2>1. queue' = Append(queue, f) /\ Cost(queue) + Len(f) + 4 <= QueueCap - 1
    BY <1>3, QueueSteps, Zenon
  <2>2. Cost(Append(queue, f)) = Cost(queue) + Len(f) + 4
    BY <1>1, FrameType, CostAppend, Zenon
  <2>3. Cost(queue) \in Nat /\ Len(f) \in Nat /\ QueueCap \in Nat
    <3>1. Cost(queue) \in Nat /\ Len(f) = 1
      BY <1>1, FrameType, CostType, Zenon
    <3> QED
      BY <3>1, BoundsAssumption
  <2> QED
    BY <1>1, <2>1, <2>2, <2>3
<1> QED
  BY <1>2, <1>3

LEMMA SendType ==
  ASSUME TypeOK, Places, Send
  PROVE  TypeOK' /\ Places'
<1>1. sent + 1 \in 0..MaxSent /\ sent' = sent + 1
  BY BoundsAssumption DEF TypeOK, Send
<1>2. queue' \in Seq(Frame) /\ Cost(queue') < QueueCap
  BY <1>1, PushType, FrameType, Zenon DEF Send
<1> QED
  BY <1>1, <1>2, Zenon DEF Send, TypeOK, Places, meter

LEMMA StartBatchType ==
  ASSUME TypeOK, Places, PushPing \/ SkipPing
  PROVE  TypeOK' /\ Places'
<1>1. queue' \in Seq(Frame) /\ Cost(queue') < QueueCap
  BY PushType, FrameType, Zenon DEF PushPing, SkipPing, TypeOK
<1>2. Cost(<<>>) <= BatchCap
  BY CostEmpty, BoundsAssumption
<1>3. <<>> \in Seq(Frame) /\ 0 \in 0..(2 * Len(<<>>))
  OBVIOUS
<1> QED
  BY <1>1, <1>2, <1>3, Zenon DEF PushPing, SkipPing, StartBatch, TypeOK, Places, meter

\* Filling the batch takes the oldest frame, if a longest record still fits, or ends.
LEMMA FillIs ==
  ASSUME TypeOK, Fill
  PROVE  \/ /\ queue # <<>> /\ Cost(batch) + Len(Head(queue)) + 4 <= BatchCap
            /\ queue' = Tail(queue) /\ batch' = Append(batch, Head(queue)) /\ writer' = writer
         \/ /\ queue' = queue /\ batch' = batch
            /\ writer' = IF batch = <<>> THEN "loop" ELSE "write"
<1> DEFINE room == BatchCap - Cost(batch)
<1>1. queue \in Seq(Frame) /\ batch \in Seq(Frame)
  BY Zenon DEF TypeOK
<1>2. Cost(batch) \in Nat /\ BatchCap \in Nat
  BY <1>1, FrameType, CostType, BoundsAssumption
<1>3. CASE room >= MaxRecord
  <2>1. Fifo!Pop(room)
    BY <1>3, Zenon DEF Fill
  <2>2. CASE queue # <<>> /\ Len(Head(queue)) + 4 <= room
    <3>1. popped' = Head(queue) /\ queue' = Tail(queue)
      BY <2>1, <2>2, QueueSteps, Zenon
    <3>2. Head(queue) \in Frame
      BY <1>1, <2>2
    <3>3. popped' # <<>>
      BY <3>1, <3>2, FrameType, Zenon DEF Garbage
    <3>4. Cost(batch) + Len(Head(queue)) + 4 <= BatchCap
      BY <1>2, <2>2, <3>2, FrameType
    <3> QED
      BY <1>3, <2>2, <3>1, <3>3, <3>4, Zenon DEF Fill
  <2>3. CASE ~(queue # <<>> /\ Len(Head(queue)) + 4 <= room)
    <3>1. popped' = <<>> /\ queue' = queue
      BY <2>1, <2>3, QueueSteps, Zenon
    <3> QED
      BY <3>1, Zenon DEF Fill
  <2> QED
    BY <2>2, <2>3, Zenon
<1>4. CASE ~(room >= MaxRecord)
  BY <1>4, Zenon DEF Fill
<1> QED
  BY <1>3, <1>4, Zenon

LEMMA FillType ==
  ASSUME TypeOK, Places, Fill
  PROVE  TypeOK' /\ Places'
<1>0. /\ queue \in Seq(Frame) /\ batch \in Seq(Frame)
      /\ Cost(queue) < QueueCap /\ Cost(batch) <= BatchCap /\ off = 0
  BY Zenon DEF TypeOK, Places, Fill
<1>1. queue' \in Seq(Frame) /\ Cost(queue') < QueueCap
  <2>1. CASE queue' = queue
    BY <1>0, <2>1, Zenon
  <2>2. CASE queue # <<>> /\ queue' = Tail(queue)
    <3>1. Cost(queue) = Len(Head(queue)) + 4 + Cost(Tail(queue))
      BY <1>0, <2>2, CostTail, FrameType, Zenon
    <3>2. Tail(queue) \in Seq(Frame) /\ Head(queue) \in Frame
      BY <1>0, <2>2
    <3>3. Cost(Tail(queue)) \in Nat /\ Len(Head(queue)) = 1
      BY <3>2, CostType, FrameType, Zenon
    <3>4. QueueCap \in Nat
      BY BoundsAssumption
    <3> QED
      BY <1>0, <2>2, <3>1, <3>2, <3>3, <3>4
  <2> QED
    BY <2>1, <2>2, FillIs, Zenon
<1>2. batch' \in Seq(Frame) /\ Cost(batch') <= BatchCap
  <2>1. CASE batch' = batch
    BY <1>0, <2>1, Zenon
  <2>2. CASE /\ queue # <<>> /\ Cost(batch) + Len(Head(queue)) + 4 <= BatchCap
             /\ batch' = Append(batch, Head(queue))
    <3>1. Head(queue) \in Frame
      BY <1>0, <2>2
    <3>2. Cost(Append(batch, Head(queue))) = Cost(batch) + Len(Head(queue)) + 4
      BY <1>0, <3>1, CostAppend, FrameType, Zenon
    <3>3. Append(batch, Head(queue)) \in Seq(Frame)
      BY <1>0, <3>1
    <3> QED
      BY <2>2, <3>2, <3>3, Zenon
  <2> QED
    BY <2>1, <2>2, FillIs, Zenon
<1>3. off' = 0 /\ 0 \in 0..(2 * Len(batch'))
  BY <1>0, <1>2 DEF Fill
<1>4. writer' \in {"loop", "fill", "write"} /\ (writer' = "loop" => batch' = <<>>)
  <2>1. writer = "fill"
    BY Zenon DEF Fill
  <2> QED
    BY <2>1, FillIs
<1>5. /\ UNCHANGED <<sent, handle, pipe, link, faults>>
      /\ UNCHANGED <<reader, length, connected, handled>> /\ writer = "fill"
  BY Zenon DEF Fill, meter
<1>6. handle # "none"
  BY <1>5 DEF Places
<1> QED
  BY <1>1, <1>2, <1>3, <1>4, <1>5, <1>6, Zenon DEF TypeOK, Places

LEMMA WriteType ==
  ASSUME TypeOK, Places, ConnectPipe \/ WriteHalf \/ WriteDone \/ WriteFails
  PROVE  TypeOK' /\ Places'
<1>0. CASE ConnectPipe
  BY <1>0 DEF ConnectPipe, TypeOK, Places, meter
<1>1. Cost(<<>>) <= BatchCap /\ <<>> \in Seq(Frame) /\ 0 \in 0..(2 * Len(<<>>))
  BY CostEmpty, BoundsAssumption
<1>2. CASE WriteHalf
  <2> DEFINE h == [frame |-> batch[off \div 2 + 1],
                   part |-> IF off % 2 = 0 THEN "length" ELSE "body"]
  <2>1. batch \in Seq(Frame) /\ off \in 0..(2 * Len(batch)) /\ off < 2 * Len(batch)
    BY <1>2, Zenon DEF TypeOK, WriteHalf
  <2>2. off \div 2 + 1 \in 1..Len(batch)
    BY <2>1
  <2>3. h \in Half
    BY <2>1, <2>2 DEF Half
  <2>4. pipe' = Append(pipe, h) /\ pipe \in Seq(Half) /\ Len(pipe) < PipeCap
    BY <1>2, Zenon DEF WriteHalf, TypeOK
  <2> HIDE DEF h
  <2>5. pipe' \in Seq(Half) /\ Len(pipe') <= PipeCap
    BY <2>3, <2>4, BoundsAssumption
  <2>6. off + 1 \in 0..(2 * Len(batch))
    BY <2>1
  <2>7. link # "none" /\ link # "listen"
    BY <1>2 DEF WriteHalf, TypeOK
  <2> QED
    BY <1>2, <2>5, <2>6, <2>7, Zenon DEF WriteHalf, TypeOK, Places, meter
<1>3. CASE WriteDone
  BY <1>1, <1>3 DEF WriteDone, TypeOK, Places, meter
<1>4. CASE WriteFails
  BY <1>1, <1>4 DEF WriteFails, TypeOK, Places, meter
<1> QED
  BY <1>0, <1>2, <1>3, <1>4

\* What the pipe holds after a half is taken, or all is lost
LEMMA PipeRest ==
  ASSUME TypeOK, pipe # <<>>
  PROVE  /\ Head(pipe) \in Half /\ Tail(pipe) \in Seq(Half)
         /\ Len(Tail(pipe)) <= PipeCap
<1>1. pipe \in Seq(Half) /\ Len(pipe) <= PipeCap
  BY Zenon DEF TypeOK
<1>2. PipeCap \in Nat
  BY BoundsAssumption
<1> QED
  BY <1>1, <1>2

LEMMA CloseType ==
  ASSUME TypeOK, Places, CloseInstance, faults' \in 0..MaxFaults
  PROVE  TypeOK' /\ Places'
<1>1. <<>> \in Seq(Half) /\ Len(<<>>) <= PipeCap
  BY BoundsAssumption
<1>2. handle' \in {"none", "dead"} /\ (handle' = "none" => writer = "loop")
  BY Zenon DEF CloseInstance, TypeOK, Places
<1>3. Linked'
  <2>1. connected' = FALSE /\ reader' = "create" /\ link' = "none" /\ handle' # "live"
    BY <1>2, Zenon DEF CloseInstance
  <2>2. (reader' \in {"length", "body"}) = FALSE
    BY <2>1
  <2>3. (link' = "none") = (reader' = "create") /\ (link' = "opened") = (handle' = "live")
    BY <2>1
  <2> QED
    BY <2>1, <2>2, <2>3, Zenon DEF Linked
<1> QED
  BY <1>1, <1>2, <1>3, Zenon DEF CloseInstance, TypeOK, Places, Linked

\* The next half that is read is the one due.
LEMMA DueHalf ==
  ASSUME TypeOK, InStep, pipe # <<>>
  PROVE  IF reader = "body" THEN Head(pipe) = BodyOf(length) ELSE Head(pipe).part = "length"
<1>1. pipe[1] = Head(pipe)
  OBVIOUS
<1> QED
  BY <1>1, Zenon DEF InStep, Due

LEMMA ReaderType ==
  ASSUME TypeOK, Places, InStep, Reader
  PROVE  TypeOK' /\ Places'
<1>1. CASE CreateInstance
  <2>1. pipe = <<>>
    BY <1>1, Zenon DEF CreateInstance, TypeOK, Places
  <2>2. handle # "live"
    BY <1>1, Zenon DEF CreateInstance, TypeOK
  <2>3. Linked'
    BY <1>1, <2>2 DEF CreateInstance, TypeOK, Linked, game
  <2> QED
    BY <1>1, <2>1, <2>2, <2>3, Zenon DEF CreateInstance, TypeOK, Places, Linked, game
<1>2. CASE Accept
  <2>1. length = Garbage
    BY <1>2, Zenon DEF Accept, TypeOK, Places
  <2>2. Linked'
    BY <1>2 DEF Accept, TypeOK, Linked, game
  <2> QED
    BY <1>2, <2>1, <2>2, Zenon DEF Accept, TypeOK, Places, Linked, game
<1>3. CASE AcceptFails \/ ReadFails
  BY <1>3, CloseType, Zenon DEF AcceptFails, ReadFails, TypeOK
<1>4. CASE ReadLength
  <2>1. /\ Head(pipe) \in Half /\ Head(pipe).part = "length"
        /\ Tail(pipe) \in Seq(Half) /\ Len(Tail(pipe)) <= PipeCap
    BY <1>4, PipeRest, DueHalf, Zenon DEF ReadLength
  <2>2. Linked'
    BY <1>4 DEF ReadLength, TypeOK, Linked, game
  <2>3. link \notin {"none", "listen"}
    BY <1>4, Zenon DEF ReadLength, Places
  <2> QED
    BY <1>4, <2>1, <2>2, <2>3, Zenon DEF ReadLength, TypeOK, Places, Linked, game
<1>5. CASE ReadBody
  <2>1. Tail(pipe) \in Seq(Half) /\ Len(Tail(pipe)) <= PipeCap /\ Head(pipe) \in Half
    BY <1>5, PipeRest, Zenon DEF ReadBody
  <2>2. Linked'
    BY <1>5 DEF ReadBody, TypeOK, Linked, game
  <2>3. link \notin {"none", "listen"}
    BY <1>5, Zenon DEF ReadBody, Places
  <2>4. handled' \in Seq(Frame \cup {Garbage})
    <3>1. handled \in Seq(Frame \cup {Garbage}) /\ Head(pipe).frame \in Frame
      BY <2>1, Zenon DEF TypeOK, Half
    <3>2. /\ Append(handled, Head(pipe).frame) \in Seq(Frame \cup {Garbage})
          /\ Append(handled, Garbage) \in Seq(Frame \cup {Garbage})
      BY <3>1
    <3> QED
      BY <1>5, <3>1, <3>2, Zenon DEF ReadBody
  <2> QED
    BY <1>5, <2>1, <2>2, <2>3, <2>4, Zenon DEF ReadBody, TypeOK, Places, Linked, game
<1> QED
  BY <1>1, <1>2, <1>3, <1>4, <1>5, Zenon DEF Reader

LEMMA StopType ==
  ASSUME TypeOK, Places, GameStops \/ GameStarts \/ MeterStops \/ MeterStarts
  PROVE  TypeOK' /\ Places'
<1>1. CASE GameStops
  <2>1. faults' \in 0..MaxFaults
    <3>1. faults \in 0..MaxFaults /\ faults < MaxFaults /\ faults' = faults + 1
      BY <1>1, Zenon DEF GameStops, TypeOK
    <3> QED
      BY <3>1, BoundsAssumption
  <2>2. <<>> \in Seq(Frame) /\ 0 \in 0..(2 * Len(<<>>))
    OBVIOUS
  <2>3. Cost(<<>>) < QueueCap /\ Cost(<<>>) <= BatchCap
    BY CostEmpty, BoundsAssumption
  <2>4. Linked'
    BY <1>1 DEF GameStops, TypeOK, Linked, meter
  <2>5. link' \in {"none", "listen", "opened", "closed"}
    BY <1>1, Zenon DEF GameStops, TypeOK
  <2>6. link' \in {"none", "listen"} => link \in {"none", "listen"}
    BY <1>1, Zenon DEF GameStops
  <2> QED
    BY <1>1, <2>1, <2>2, <2>3, <2>4, <2>5, <2>6, Zenon
       DEF GameStops, TypeOK, Places, Linked, meter
<1>2. CASE MeterStops
  <2>1. faults' \in 0..MaxFaults
    <3>1. faults \in 0..MaxFaults /\ faults < MaxFaults /\ faults' = faults + 1
      BY <1>2, Zenon DEF MeterStops, TypeOK
    <3> QED
      BY <3>1, BoundsAssumption
  <2> QED
    BY <1>2, <2>1, CloseType, Zenon DEF MeterStops
<1>3. CASE GameStarts \/ MeterStarts
  BY <1>3, Zenon DEF GameStarts, MeterStarts, TypeOK, Places, game, meter
<1> QED
  BY <1>1, <1>2, <1>3, Zenon

LEMMA TypeStep ==
  ASSUME TypeOK, Places, InStep, [Next]_vars
  PROVE  TypeOK' /\ Places'
<1>1. CASE UNCHANGED vars
  BY <1>1, Zenon DEF vars, game, meter, TypeOK, Places
<1> QED
  BY <1>1, SendType, StartBatchType, FillType, WriteType, ReaderType, StopType, Zenon
     DEF Next, Writer

-----------------------------------------------------------------------------
(* The halves in step *)

LEMMA HalfIs ==
  ASSUME NEW h \in Half
  PROVE  /\ h.frame \in Frame /\ h.part \in {"length", "body"}
         /\ BodyOf(h) \in Half /\ BodyOf(h).part = "body" /\ BodyOf(h).frame = h.frame
         /\ BodyOf(h) = [frame |-> h.frame, part |-> "body"]
BY DEF Half, BodyOf

LEMMA InitInStep == Init => InStep
<1> SUFFICES ASSUME Init
             PROVE  InStep
  OBVIOUS
<1>1. pipe = <<>> /\ handle = "none"
  BY Zenon DEF Init
<1> QED
  BY <1>1 DEF InStep, Alternate, Due, Abreast

LEMMA Halves ==
  ASSUME NEW o \in Nat, NEW n \in Nat, o < 2 * n, o % 2 = 0
  PROVE  (o + 1) % 2 = 1 /\ o + 1 < 2 * n /\ (o + 1) \div 2 = o \div 2
<1>1. (o + 1) % 2 = 1
  OBVIOUS
<1>2. (o + 1) \div 2 = o \div 2
  OBVIOUS
<1>3. o + 1 < 2 * n
  OBVIOUS
<1> QED
  BY <1>1, <1>2, <1>3

\* The half that is written next is the one due.
LEMMA WriteInStep ==
  ASSUME TypeOK, Places, InStep, WriteHalf
  PROVE  InStep'
<1> DEFINE h == [frame |-> batch[off \div 2 + 1],
                 part |-> IF off % 2 = 0 THEN "length" ELSE "body"]
           last == Len(pipe)
<1>1. /\ batch \in Seq(Frame) /\ off \in 0..(2 * Len(batch)) /\ off < 2 * Len(batch)
      /\ pipe \in Seq(Half) /\ pipe' = Append(pipe, h) /\ off' = off + 1
      /\ reader' = reader /\ length' = length /\ batch' = batch
      /\ reader = "body" => length \in Half /\ length.part = "length"
  BY Zenon DEF TypeOK, Places, WriteHalf, meter
<1>2. off \div 2 + 1 \in 1..Len(batch)
  BY <1>1
<1>3. h \in Half /\ h.frame = batch[off \div 2 + 1]
  BY <1>1, <1>2 DEF Half
<1>4. h.part = IF off % 2 = 0 THEN "length" ELSE "body"
  OBVIOUS
<1>5. IF OwesBody THEN h = BodyOf(LastHalf) ELSE h.part = "length"
  <2>1. CASE OwesBody
    <3>1. off % 2 = 1 /\ LastHalf.frame = batch[off \div 2 + 1]
      BY <2>1, Zenon DEF InStep, Abreast, WriteHalf
    <3>2. LastHalf \in Half
      BY <1>1, <2>1 DEF OwesBody, LastHalf
    <3>3. h = [frame |-> LastHalf.frame, part |-> "body"]
      BY <3>1
    <3> QED
      BY <2>1, <3>2, <3>3, HalfIs, Zenon
  <2>2. CASE ~OwesBody
    BY <1>4, <2>2, Zenon DEF InStep, Abreast, WriteHalf
  <2> QED
    BY <2>1, <2>2
<1> HIDE DEF h
<1>6. /\ pipe' \in Seq(Half) /\ Len(pipe') = last + 1 /\ last \in Nat /\ pipe' # <<>>
      /\ pipe'[last + 1] = h /\ \A i \in 1..last : pipe'[i] = pipe[i]
  BY <1>1, <1>3
<1>7. Alternate'
  <2> SUFFICES ASSUME NEW i \in 1..last
               PROVE  IF pipe'[i].part = "length" THEN pipe'[i + 1] = BodyOf(pipe'[i])
                                                  ELSE pipe'[i + 1].part = "length"
    BY <1>6 DEF Alternate
  <2>1. CASE i = last
    <3>1. pipe # <<>> /\ LastHalf = pipe[last]
      BY <1>1, <2>1 DEF LastHalf
    <3> QED
      BY <1>5, <1>6, <2>1, <3>1, Zenon DEF OwesBody
  <2>2. CASE i # last
    <3>1. i \in 1..(last - 1) /\ i + 1 \in 1..last
      BY <1>6, <2>2
    <3> QED
      BY <1>6, <3>1, Zenon DEF InStep, Alternate
  <2> QED
    BY <2>1, <2>2
<1>8. Due'
  <2>1. CASE pipe = <<>>
    <3>1. pipe'[1] = h
      BY <1>6, <2>1
    <3> QED
      BY <1>1, <1>5, <2>1, <3>1, Zenon DEF OwesBody, LastHalf, Due
  <2>2. CASE pipe # <<>>
    <3>0. pipe \in Seq(Half)
      BY <1>1
    <3>1. 1 \in 1..last
      BY <2>2, <3>0
    <3>2. pipe'[1] = pipe[1]
      BY <1>6, <3>1, Zenon
    <3> QED
      BY <1>1, <2>2, <3>2, Zenon DEF InStep, Due
  <2> QED
    BY <2>1, <2>2
<1>9. Abreast'
  <2>1. LastHalf' = h /\ OwesBody' = (h.part = "length")
    BY <1>6 DEF LastHalf, OwesBody
  <2>2. CASE off % 2 = 0
    <3>1. (off + 1) % 2 = 1 /\ off + 1 < 2 * Len(batch) /\ (off + 1) \div 2 = off \div 2
      <4>1. off \in Nat /\ Len(batch) \in Nat /\ off < 2 * Len(batch)
        BY <1>1
      <4> QED
        BY <2>2, <4>1, Halves
    <3> QED
      BY <1>1, <1>3, <1>4, <2>1, <2>2, <3>1, Zenon DEF Abreast
  <2>3. CASE off % 2 # 0
    <3>1. (off + 1) % 2 = 0
      BY <1>1, <2>3
    <3> QED
      BY <1>1, <1>4, <2>1, <2>3, <3>1 DEF Abreast
  <2> QED
    BY <2>2, <2>3
<1> QED
  BY <1>7, <1>8, <1>9 DEF InStep

\* What is read was due, and so is what follows it.
LEMMA ReadInStep ==
  ASSUME TypeOK, Places, InStep, ReadLength \/ ReadBody
  PROVE  InStep'
<1>1. /\ pipe \in Seq(Half) /\ pipe # <<>> /\ pipe' = Tail(pipe)
      /\ off' = off /\ batch' = batch /\ handle' = handle
      /\ reader = "body" => length \in Half
  BY Zenon DEF TypeOK, Places, ReadLength, ReadBody, game
<1>2. /\ pipe' \in Seq(Half) /\ Len(pipe') = Len(pipe) - 1 /\ Len(pipe) \in Nat \ {0}
      /\ \A i \in 1..Len(pipe') : pipe'[i] = pipe[i + 1]
  BY <1>1
<1>3. Alternate'
  <2> SUFFICES ASSUME NEW i \in 1..(Len(pipe') - 1)
               PROVE  IF pipe'[i].part = "length" THEN pipe'[i + 1] = BodyOf(pipe'[i])
                                                  ELSE pipe'[i + 1].part = "length"
    BY Zenon DEF Alternate
  <2>1. pipe'[i] = pipe[i + 1] /\ pipe'[i + 1] = pipe[(i + 1) + 1]
    BY <1>2
  <2>2. i + 1 \in 1..(Len(pipe) - 1)
    BY <1>2
  <2> QED
    BY <2>1, <2>2, Zenon DEF InStep, Alternate
<1>4. IF reader = "body" THEN Head(pipe).part = "body" ELSE Head(pipe).part = "length"
  BY <1>1, DueHalf, HalfIs, Zenon
<1>5. IF pipe' # <<>>
      THEN LastHalf' = LastHalf /\ pipe'[1] = pipe[2] /\ 1 \in 1..(Len(pipe) - 1)
      ELSE LastHalf = Head(pipe)
  <2>1. CASE pipe' # <<>>
    <3>1. Len(pipe') \in 1..Len(pipe') /\ 1 \in 1..Len(pipe')
      BY <1>2, <2>1
    <3>2. pipe'[Len(pipe')] = pipe[Len(pipe') + 1] /\ pipe'[1] = pipe[1 + 1]
      BY <1>2, <3>1, Zenon
    <3>3. Len(pipe') + 1 = Len(pipe) /\ 1 \in 1..(Len(pipe) - 1)
      BY <1>2, <3>1
    <3> QED
      BY <1>1, <2>1, <3>2, <3>3 DEF LastHalf
  <2>2. CASE pipe' = <<>>
    <3>1. Len(pipe) = 1
      BY <1>2, <2>2
    <3> QED
      BY <1>1, <2>2, <3>1 DEF LastHalf
  <2> QED
    BY <2>1, <2>2, Zenon
<1>6. Head(pipe) = pipe[1]
  BY <1>1
<1>7. CASE ReadLength
  <2>1. reader = "length" /\ reader' = "body" /\ length' = Head(pipe)
    BY <1>7, Zenon DEF ReadLength
  <2>2. Head(pipe).part = "length"
    BY <1>4, <2>1
  <2>3. Due'
    <3>1. pipe' # <<>> => pipe[1 + 1] = BodyOf(pipe[1])
      BY <1>5, <1>6, <2>2, Zenon DEF InStep, Alternate
    <3> QED
      BY <1>5, <1>6, <2>1, <3>1 DEF Due
  <2>4. LastHalf' = LastHalf /\ (OwesBody' <=> OwesBody)
    <3>1. CASE pipe' # <<>>
      BY <1>1, <1>5, <3>1, Zenon DEF OwesBody
    <3>2. CASE pipe' = <<>>
      BY <1>1, <1>5, <2>1, <2>2, <3>2, Zenon DEF OwesBody, LastHalf
    <3> QED
      BY <3>1, <3>2
  <2>5. Abreast'
    BY <1>1, <2>4, Zenon DEF InStep, Abreast
  <2> QED
    BY <1>3, <2>3, <2>5 DEF InStep
<1>8. CASE ReadBody
  <2>1. reader = "body" /\ reader' = "length"
    BY <1>8, Zenon DEF ReadBody
  <2>2. Head(pipe).part = "body"
    BY <1>4, <2>1
  <2>3. Due'
    <3>1. pipe' # <<>> => pipe[1 + 1].part = "length"
      <4>1. "body" # "length"
        OBVIOUS
      <4> QED
        BY <1>5, <1>6, <2>2, <4>1, Zenon DEF InStep, Alternate
    <3> QED
      BY <1>5, <2>1, <3>1 DEF Due
  <2>4. CASE pipe' # <<>>
    <3>1. LastHalf' = LastHalf /\ (OwesBody' <=> OwesBody)
      BY <1>1, <1>5, <2>4, Zenon DEF OwesBody
    <3>2. Abreast'
      BY <1>1, <3>1, Zenon DEF InStep, Abreast
    <3> QED
      BY <1>3, <2>3, <3>2 DEF InStep
  <2>5. CASE pipe' = <<>>
    <3>1. ~OwesBody
      BY <1>1, <1>5, <2>2, <2>5 DEF OwesBody
    <3>2. ~OwesBody'
      BY <2>1, <2>5 DEF OwesBody
    <3>3. Abreast'
      BY <1>1, <3>1, <3>2, Zenon DEF InStep, Abreast
    <3> QED
      BY <1>3, <2>3, <3>3 DEF InStep
  <2> QED
    BY <2>4, <2>5
<1> QED
  BY <1>7, <1>8

\* Between batches the writer owes nothing; with the pipe as it is, only that counts.
LEMMA BatchInStep ==
  ASSUME TypeOK, Places, InStep, PushPing \/ SkipPing \/ Fill \/ WriteDone
  PROVE  InStep'
<1>1. UNCHANGED <<pipe, reader, length, handle>>
  BY Zenon DEF PushPing, SkipPing, StartBatch, Fill, WriteDone, meter
<1>2. off' = 0
  BY Zenon DEF PushPing, SkipPing, StartBatch, Fill, WriteDone, Places
<1>3. off = 0 \/ off = 2 * Len(batch)
  BY Zenon DEF PushPing, SkipPing, StartBatch, Fill, WriteDone, Places
<1>4. off \in Nat /\ Len(batch) \in Nat
  BY DEF TypeOK
<1>5. off % 2 = 0 /\ off' % 2 = 0
  BY <1>2, <1>3, <1>4
<1>6. handle = "live" => ~OwesBody
  BY <1>5 DEF InStep, Abreast
<1> QED
  BY <1>1, <1>5, <1>6, Zenon DEF InStep, Alternate, Due, Abreast, OwesBody, LastHalf

LEMMA StepInStep ==
  ASSUME TypeOK, Places, InStep, [Next]_vars
  PROVE  InStep'
<1>1. CASE ConnectPipe
  <2>1. pipe' = <<>> /\ reader' # "body" /\ off' = 0
    BY <1>1, Zenon DEF ConnectPipe, Places, meter
  <2>2. ~OwesBody' /\ off' % 2 = 0
    BY <2>1 DEF OwesBody
  <2> QED
    BY <2>1, <2>2 DEF InStep, Alternate, Due, Abreast
<1>2. CASE AcceptFails \/ ReadFails \/ MeterStops
  <2>1. pipe' = <<>> /\ handle' # "live"
    BY <1>2 DEF AcceptFails, ReadFails, MeterStops, CloseInstance
  <2> QED
    BY <2>1 DEF InStep, Alternate, Due, Abreast
<1>3. CASE WriteFails \/ GameStops
  <2>1. pipe' = pipe /\ reader' = reader /\ length' = length /\ handle' # "live"
    BY <1>3 DEF WriteFails, GameStops, meter
  <2> QED
    BY <2>1, Zenon DEF InStep, Alternate, Due, Abreast
<1>4. CASE CreateInstance \/ Accept
  <2>1. UNCHANGED <<pipe, off, batch, handle>> /\ reader # "body" /\ reader' # "body"
    BY <1>4 DEF CreateInstance, Accept, game
  <2>2. length' = length
    BY <1>4, Zenon DEF CreateInstance, Accept
  <2> QED
    BY <2>1, <2>2, Zenon DEF InStep, Alternate, Due, Abreast, OwesBody, LastHalf
<1>5. CASE Send \/ GameStarts \/ MeterStarts \/ UNCHANGED vars
  <2>1. UNCHANGED <<pipe, off, batch, handle, reader, length>>
    BY <1>5, Zenon DEF Send, GameStarts, MeterStarts, vars, game, meter
  <2> QED
    BY <2>1, Zenon DEF InStep, Alternate, Due, Abreast, OwesBody, LastHalf
<1> QED
  BY <1>1, <1>2, <1>3, <1>4, <1>5, BatchInStep, WriteInStep, ReadInStep, Zenon
     DEF Next, Writer, Reader

-----------------------------------------------------------------------------
(* The order of the frames *)

LEMMA ChainSub ==
  ASSUME NEW H, NEW P, NEW U, NEW Q, Chain(H, P, U, Q),
         NEW H1 \in SUBSET H, NEW P1 \in SUBSET P, NEW U1 \in SUBSET U, NEW Q1 \in SUBSET Q
  PROVE  Chain(H1, P1, U1, Q1)
BY Zenon DEF Chain, Ahead

LEMMA AscendingEmpty == Ascending(<<>>) /\ Range(<<>>) = {}
BY DEF Ascending, Range

LEMMA RangeAppend ==
  ASSUME NEW S, NEW q \in Seq(S), NEW f \in S
  PROVE  Range(Append(q, f)) = Range(q) \cup {f}
<1> DEFINE n == Len(q)
           r == Append(q, f)
<1>1. /\ DOMAIN q = 1..n /\ DOMAIN r = 1..(n + 1) /\ n \in Nat
      /\ r[n + 1] = f /\ \A i \in 1..n : r[i] = q[i]
  OBVIOUS
<1> HIDE DEF r, n
<1>2. Range(r) = Range(q) \cup {f}
  BY <1>1 DEF Range
<1> QED
  BY <1>2 DEF r

LEMMA AscendingAppend ==
  ASSUME NEW S, NEW q \in Seq(S), NEW f \in S, Ascending(q), Ahead(Range(q), {f})
  PROVE  Ascending(Append(q, f))
<1> DEFINE n == Len(q)
           r == Append(q, f)
<1>1. /\ DOMAIN q = 1..n /\ DOMAIN r = 1..(n + 1) /\ n \in Nat
      /\ r[n + 1] = f /\ \A i \in 1..n : r[i] = q[i]
  OBVIOUS
<1> HIDE DEF r, n
<1>2. ASSUME NEW i \in 1..(n + 1), NEW j \in 1..(n + 1), i < j
      PROVE  Before(r[i], r[j])
  <2>1. i \in 1..n /\ r[i] = q[i]
    BY <1>1, <1>2
  <2>2. CASE j = n + 1
    BY <1>1, <2>1, <2>2, Zenon DEF Ahead, Range
  <2>3. CASE j # n + 1
    <3>1. j \in 1..n /\ r[j] = q[j]
      BY <1>1, <2>3
    <3> QED
      BY <1>1, <1>2, <2>1, <3>1, Zenon DEF Ascending
  <2> QED
    BY <2>2, <2>3
<1>3. Ascending(r)
  BY <1>1, <1>2, Zenon DEF Ascending
<1> QED
  BY <1>3, Zenon DEF r

LEMMA AscendingTail ==
  ASSUME NEW S, NEW q \in Seq(S), q # <<>>
  PROVE  /\ Range(q) = {Head(q)} \cup Range(Tail(q))
         /\ Ascending(q) => Ascending(Tail(q)) /\ Ahead({Head(q)}, Range(Tail(q)))
<1> DEFINE n == Len(q)
           r == Tail(q)
<1>1. /\ DOMAIN q = 1..n /\ DOMAIN r = 1..(n - 1) /\ n \in Nat \ {0}
      /\ Head(q) = q[1] /\ \A i \in 1..(n - 1) : r[i] = q[i + 1]
  OBVIOUS
<1> HIDE DEF r, n
<1>2. Range(q) = {q[1]} \cup Range(r)
  <2>1. ASSUME NEW i \in 1..n
        PROVE  q[i] \in {q[1]} \cup Range(r)
    <3>1. CASE i # 1
      <4>1. i - 1 \in 1..(n - 1) /\ r[i - 1] = q[i]
        BY <1>1, <3>1
      <4> QED
        BY <1>1, <4>1, Zenon DEF Range
    <3> QED
      BY <3>1
  <2>2. ASSUME NEW i \in 1..(n - 1)
        PROVE  r[i] \in Range(q)
    <3>1. i + 1 \in 1..n
      BY <1>1
    <3> QED
      BY <1>1, <3>1, Zenon DEF Range
  <2>3. q[1] \in Range(q)
    <3>1. 1 \in 1..n
      BY <1>1
    <3> QED
      BY <1>1, <3>1, Zenon DEF Range
  <2>4. Range(q) = {q[i] : i \in 1..n} /\ Range(r) = {r[i] : i \in 1..(n - 1)}
    BY <1>1, Zenon DEF Range
  <2> QED
    BY <2>1, <2>2, <2>3, <2>4, Zenon
<1>3. ASSUME Ascending(q)
      PROVE  Ascending(r) /\ Ahead({q[1]}, Range(r))
  <2>1. ASSUME NEW i \in 1..(n - 1), NEW j \in 1..(n - 1), i < j
        PROVE  Before(r[i], r[j])
    <3>1. i + 1 \in 1..n /\ j + 1 \in 1..n /\ i + 1 < j + 1
      BY <1>1, <2>1
    <3> QED
      BY <1>1, <1>3, <3>1, Zenon DEF Ascending
  <2>2. ASSUME NEW j \in 1..(n - 1)
        PROVE  Before(q[1], r[j])
    <3>1. 1 \in 1..n /\ j + 1 \in 1..n /\ 1 < j + 1
      BY <1>1
    <3> QED
      BY <1>1, <1>3, <3>1, Zenon DEF Ascending
  <2> QED
    BY <1>1, <2>1, <2>2, Zenon DEF Ascending, Ahead, Range
<1> QED
  BY <1>1, <1>2, <1>3, Zenon DEF r

\* What is in the batch and not written yet: all of it at first, less the frame
\* whose length is written.
LEMMA RestIs ==
  ASSUME NEW b \in Seq(Frame), NEW o \in 0..(2 * Len(b))
  PROVE  /\ RestOf(b, o) = {b[k] : k \in {k \in 1..Len(b) : o <= 2 * (k - 1)}}
         /\ RestOf(b, o) \subseteq Range(b) /\ (o = 0 => RestOf(b, o) = Range(b))
         /\ Range(b) \subseteq Frame
<1>1. DOMAIN b = 1..Len(b) /\ Len(b) \in Nat /\ \A k \in 1..Len(b) : b[k] \in Frame
  OBVIOUS
<1>2. ASSUME o = 0
      PROVE  \A k \in 1..Len(b) : o <= 2 * (k - 1)
  BY <1>1, <1>2
<1> QED
  BY <1>1, <1>2, Zenon DEF RestOf, Range

\* Every frame on its way is one.
LEMMA FramesOnTheWay ==
  ASSUME TypeOK, Places, Whole
  PROVE  /\ Range(queue) \subseteq Frame /\ Unwritten \subseteq Frame
         /\ InPipe \subseteq Frame /\ Range(handled) \subseteq Frame
<1>1. \A q \in Seq(Frame) : Range(q) \subseteq Frame
  BY DEF Range
<1>2. InPipe \subseteq Frame
  <2>1. pipe \in Seq(Half) /\ (reader = "body" => length \in Half)
    BY Zenon DEF TypeOK, Places
  <2>2. \A i \in DOMAIN pipe : pipe[i] \in Half
    BY <2>1
  <2> QED
    BY <2>1, <2>2, HalfIs, Zenon DEF InPipe
<1> QED
  BY <1>1, <1>2, RestIs, Zenon DEF TypeOK, Whole, Unwritten

LEMMA ChainMoves ==
  ASSUME NEW H, NEW P, NEW U, NEW Q, NEW f
  PROVE  /\ Chain(H, P, U, {f} \cup Q) /\ Ahead({f}, Q) => Chain(H, P, U \cup {f}, Q)
         /\ Chain(H, P, {f} \cup U, Q) /\ Ahead({f}, U) => Chain(H, P \cup {f}, U, Q)
         /\ Chain(H, {f} \cup P, U, Q) /\ Ahead({f}, P) => Chain(H \cup {f}, P, U, Q)
<1>1. Chain(H, P, U, {f} \cup Q) /\ Ahead({f}, Q) => Chain(H, P, U \cup {f}, Q)
  BY Zenon DEF Chain, Ahead
<1>2. Chain(H, P, {f} \cup U, Q) /\ Ahead({f}, U) => Chain(H, P \cup {f}, U, Q)
  BY Zenon DEF Chain, Ahead
<1>3. Chain(H, {f} \cup P, U, Q) /\ Ahead({f}, P) => Chain(H \cup {f}, P, U, Q)
  BY Zenon DEF Chain, Ahead
<1> QED
  BY <1>1, <1>2, <1>3

LEMMA InitOrder == Init => Whole /\ Order
<1> SUFFICES ASSUME Init
             PROVE  Whole /\ Order
  OBVIOUS
<1>1. /\ queue = <<>> /\ batch = <<>> /\ handled = <<>> /\ pipe = <<>>
      /\ reader # "body" /\ off = 0
  BY DEF Init
<1>2. InPipe = {} /\ PipeOrder
  BY <1>1 DEF InPipe, PipeOrder
<1>3. <<>> \in Seq(Frame) /\ 0 \in 0..(2 * Len(<<>>))
  OBVIOUS
<1>4. Unwritten = {}
  BY <1>1, <1>3, RestIs, AscendingEmpty, Zenon DEF Unwritten
<1>5. Chain({}, {}, {}, {})
  BY Zenon DEF Chain, Ahead
<1> QED
  BY <1>1, <1>2, <1>4, <1>5, AscendingEmpty, Zenon DEF Whole, Order

\* Frames may be lost anywhere.
LEMMA LossKeepsOrder ==
  ASSUME Order, Ascending(queue)', Ascending(batch)', PipeOrder',
         handled' = handled, sent' = sent, InPipe' \subseteq InPipe,
         Unwritten' \subseteq Unwritten, Range(queue)' \subseteq Range(queue)
  PROVE  Order'
<1>1. Chain(Range(handled'), InPipe', Unwritten', Range(queue'))
  BY ChainSub, ZenonT(60) DEF Order
<1> QED
  BY <1>1, Zenon DEF Order

\* A frame that is pushed is newer than all others.
LEMMA PushOrder ==
  ASSUME TypeOK, Places, Whole, Order,
         NEW f \in Frame, f = Ping \/ f[1] > sent, Fifo!Push(f) \/ Fifo!Drop(f)
  PROVE  /\ Ascending(queue') /\ Chain(Range(handled), InPipe, Unwritten, Range(queue'))
         /\ Range(queue') \subseteq Range(queue) \cup {f}
<1>1. CASE Fifo!Drop(f)
  BY <1>1, QueueSteps, Zenon DEF Order
<1>2. CASE Fifo!Push(f)
  <2>1. queue' = Append(queue, f) /\ queue \in Seq(Frame)
    BY <1>2, QueueSteps, Zenon DEF TypeOK
  <2>2. ASSUME NEW g \in Range(queue) \cup Unwritten \cup InPipe \cup Range(handled)
        PROVE  Before(g, f)
    <3>1. g \in Frame /\ g[1] <= sent
      BY FramesOnTheWay, Zenon DEF Order
    <3>2. g[1] \in Int /\ f[1] \in Int /\ sent \in Int
      <4>1. g[1] \in 0..MaxSent /\ f[1] \in 0..MaxSent /\ sent \in 0..MaxSent
        BY <3>1, FrameType, Zenon DEF TypeOK
      <4> QED
        BY <4>1
    <3> QED
      BY <3>1, <3>2 DEF Before
  <2>3. Range(queue') = Range(queue) \cup {f}
    <3>1. queue \in Seq(Frame) /\ f \in Frame
      BY <2>1
    <3>2. Range(Append(queue, f)) = Range(queue) \cup {f}
      BY <3>1, RangeAppend
    <3> QED
      BY <2>1, <3>2, Zenon
  <2>4. Ascending(queue')
    <3>1. Ahead(Range(queue), {f}) /\ Ascending(queue)
      BY <2>2, Zenon DEF Order, Ahead
    <3>2. Ascending(Append(queue, f))
      BY <2>1, <3>1, AscendingAppend, Zenon
    <3> QED
      BY <2>1, <3>2, Zenon
  <2>5. Chain(Range(handled), InPipe, Unwritten, Range(queue'))
    <3>1. /\ Ahead(Range(handled), {f}) /\ Ahead(InPipe, {f}) /\ Ahead(Unwritten, {f})
      BY <2>2, Zenon DEF Ahead
    <3> QED
      BY <2>3, <3>1, Zenon DEF Order, Chain, Ahead
  <2> QED
    BY <2>3, <2>4, <2>5, Zenon
<1> QED
  BY <1>1, <1>2

LEMMA SameOrder ==
  ASSUME Order
  PROVE  /\ UNCHANGED <<pipe, reader, length>> => InPipe' = InPipe /\ PipeOrder'
         /\ UNCHANGED <<batch, off>> => Unwritten' = Unwritten /\ Ascending(batch)'
         /\ UNCHANGED queue => Range(queue)' \subseteq Range(queue) /\ Ascending(queue)'
         /\ batch' = <<>> => Unwritten' = {} /\ Ascending(batch)'
         /\ pipe' = <<>> /\ reader' # "body" => InPipe' = {} /\ PipeOrder'
<1>1. UNCHANGED <<pipe, reader, length>> => InPipe' = InPipe /\ PipeOrder'
  BY Zenon DEF InPipe, PipeOrder, Order
<1>2. UNCHANGED <<batch, off>> => Unwritten' = Unwritten /\ Ascending(batch)'
  BY Zenon DEF Unwritten, RestOf, Order
<1>3. UNCHANGED queue => Range(queue)' \subseteq Range(queue) /\ Ascending(queue)'
  BY Zenon DEF Order
<1>4. batch' = <<>> => Unwritten' = {} /\ Ascending(batch)'
  <2>1. DOMAIN <<>> = {}
    OBVIOUS
  <2> QED
    BY <2>1, AscendingEmpty, Zenon DEF Unwritten, RestOf
<1>5. pipe' = <<>> /\ reader' # "body" => InPipe' = {} /\ PipeOrder'
  BY DEF InPipe, PipeOrder
<1> QED
  BY <1>1, <1>2, <1>3, <1>4, <1>5, Zenon

LEMMA SendOrder ==
  ASSUME TypeOK, Places, Whole, Order, Send
  PROVE  Order'
<1>1. /\ sent + 1 \in 0..MaxSent /\ sent \in Int /\ sent' = sent + 1
      /\ Fifo!Push(<<sent + 1>>) \/ Fifo!Drop(<<sent + 1>>)
  <2>1. sent \in 0..MaxSent /\ MaxSent \in Nat
    BY BoundsAssumption DEF TypeOK
  <2>2. /\ sent < MaxSent /\ sent' = sent + 1
        /\ Fifo!Push(<<sent + 1>>) \/ Fifo!Drop(<<sent + 1>>)
    BY Zenon DEF Send
  <2>3. sent + 1 \in 0..MaxSent /\ sent \in Int
    BY <2>1, <2>2
  <2> QED
    BY <2>2, <2>3, Zenon
<1> DEFINE f == <<sent + 1>>
<1>2. f \in Frame /\ f[1] > sent /\ f[1] <= sent'
  BY <1>1, FrameType
<1>3. /\ Ascending(queue') /\ Chain(Range(handled), InPipe, Unwritten, Range(queue'))
      /\ Range(queue') \subseteq Range(queue) \cup {f}
  BY <1>1, <1>2, PushOrder, Zenon
<1>4. ASSUME NEW g \in Range(queue') \cup Unwritten \cup InPipe \cup Range(handled)
      PROVE  g[1] <= sent'
  <2>1. CASE g = f
    BY <1>2, <2>1, Zenon
  <2>2. CASE g # f
    <3>1. g \in Frame /\ g[1] <= sent
      BY <1>3, <2>2, FramesOnTheWay, Zenon DEF Order
    <3>2. g[1] \in 0..MaxSent
      BY <3>1, FrameType, Zenon
    <3> QED
      BY <1>1, <3>1, <3>2
  <2> QED
    BY <2>1, <2>2
<1> HIDE DEF f
<1>5. UNCHANGED <<pipe, reader, length, batch, off, handled>>
  BY Zenon DEF Send, meter
<1>6. InPipe' = InPipe /\ PipeOrder' /\ Unwritten' = Unwritten /\ Ascending(batch)'
  BY <1>5, SameOrder, Zenon
<1> QED
  BY <1>3, <1>4, <1>5, <1>6, Zenon DEF Order

LEMMA StartBatchOrder ==
  ASSUME TypeOK, Places, Whole, Order, PushPing \/ SkipPing
  PROVE  Order'
<1>1. UNCHANGED <<pipe, reader, length, handled, sent>> /\ batch' = <<>>
  BY Zenon DEF PushPing, SkipPing, StartBatch, meter
<1>2. InPipe' = InPipe /\ PipeOrder' /\ Unwritten' = {} /\ Ascending(batch)'
  BY <1>1, SameOrder, Zenon
<1>3. CASE SkipPing
  <2>1. queue' = queue
    BY <1>3, Zenon DEF SkipPing
  <2> QED
    BY <1>1, <1>2, <2>1, SameOrder, LossKeepsOrder, Zenon
<1>4. CASE PushPing
  <2>1. /\ Ascending(queue') /\ Chain(Range(handled), InPipe, Unwritten, Range(queue'))
        /\ Range(queue') \subseteq Range(queue) \cup {Ping}
    BY <1>4, PushOrder, FrameType, Zenon DEF PushPing
  <2>2. Chain(Range(handled), InPipe, {}, Range(queue'))
    BY <2>1, Zenon DEF Chain, Ahead
  <2>3. Ping[1] <= sent
    <3>1. sent \in 0..MaxSent
      BY Zenon DEF TypeOK
    <3> QED
      BY <3>1 DEF Ping
  <2> QED
    BY <1>1, <1>2, <2>1, <2>2, <2>3, Zenon DEF Order
<1> QED
  BY <1>3, <1>4

LEMMA FillOrder ==
  ASSUME TypeOK, Places, Whole, Order, Fill
  PROVE  Order'
<1>1. UNCHANGED <<pipe, reader, length, handled, sent>> /\ off = 0 /\ off' = 0
  BY Zenon DEF Fill, Places, meter
<1>2. InPipe' = InPipe /\ PipeOrder'
  BY <1>1, SameOrder, Zenon
<1>3. queue \in Seq(Frame) /\ batch \in Seq(Frame) /\ 0 \in 0..(2 * Len(batch))
  BY <1>1 DEF TypeOK
<1>4. Unwritten = Range(batch)
  BY <1>1, <1>3, RestIs, Zenon DEF Unwritten
<1>5. CASE queue' = queue /\ batch' = batch
  <2>1. Unwritten' = Unwritten /\ Ascending(batch)'
    BY <1>1, <1>5, SameOrder, Zenon
  <2> QED
    BY <1>1, <1>2, <1>5, <2>1, SameOrder, LossKeepsOrder, Zenon
<1>6. CASE queue # <<>> /\ queue' = Tail(queue) /\ batch' = Append(batch, Head(queue))
  <2> DEFINE f == Head(queue)
  <2>1. f \in Frame /\ batch' \in Seq(Frame) /\ 0 \in 0..(2 * Len(batch'))
    BY <1>3, <1>6
  <2>2. /\ Range(queue) = {f} \cup Range(queue') /\ Ascending(queue')
        /\ Ahead({f}, Range(queue'))
    BY <1>3, <1>6, AscendingTail, Zenon DEF Order
  <2>3. Unwritten' = Unwritten \cup {f}
    <3>1. Unwritten' = Range(batch')
      BY <1>1, <2>1, RestIs, Zenon DEF Unwritten
    <3> QED
      BY <1>3, <1>4, <1>6, <2>1, <3>1, RangeAppend
  <2> HIDE DEF f
  <2>4. Chain(Range(handled'), InPipe', Unwritten', Range(queue'))
    BY <1>1, <1>2, <2>2, <2>3, ChainMoves, Zenon DEF Order
  <2>5. Ascending(batch')
    <3>1. Ahead(Range(batch), {f})
      BY <1>4, <2>2, Zenon DEF Order, Chain, Ahead
    <3> QED
      BY <1>3, <1>6, <2>1, <3>1, AscendingAppend, Zenon DEF f, Order
  <2> QED
    BY <1>1, <1>2, <2>2, <2>3, <2>4, <2>5, Zenon DEF Order
<1> QED
  BY <1>5, <1>6, FillIs, Zenon

\* A half that is written brings its frame out of the batch and into the pipe.
LEMMA WriteOrder ==
  ASSUME TypeOK, Places, InStep, Whole, Order, WriteHalf
  PROVE  Order'
<1> DEFINE k == off \div 2 + 1
           h == [frame |-> batch[k], part |-> IF off % 2 = 0 THEN "length" ELSE "body"]
           last == Len(pipe)
<1>1. /\ batch \in Seq(Frame) /\ off \in 0..(2 * Len(batch)) /\ off < 2 * Len(batch)
      /\ pipe \in Seq(Half) /\ pipe' = Append(pipe, h) /\ off' = off + 1 /\ handle = "live"
      /\ UNCHANGED <<reader, length, batch, queue, handled, sent>>
  BY Zenon DEF TypeOK, WriteHalf, meter
<1>2. k \in 1..Len(batch) /\ off + 1 \in 0..(2 * Len(batch))
  BY <1>1
<1>3. batch[k] \in Frame /\ h.frame = batch[k] /\ h \in Half
  BY <1>1, <1>2 DEF Half
<1>4. /\ DOMAIN pipe' = 1..(last + 1) /\ DOMAIN pipe = 1..last /\ last \in Nat
      /\ pipe'[last + 1] = h /\ \A i \in 1..last : pipe'[i] = pipe[i]
  BY <1>1, <1>3
<1>5. Ascending(batch) /\ Ascending(batch)' /\ Ascending(queue)'
  BY <1>1, Zenon DEF Order
<1>6. InPipe' = InPipe \cup {batch[k]}
  <2>1. {pipe'[i].frame : i \in DOMAIN pipe'} =
        {pipe[i].frame : i \in DOMAIN pipe} \cup {h.frame}
    <3>1. \A i \in 1..(last + 1) : i = last + 1 \/ i \in 1..last
      BY <1>4
    <3>2. last + 1 \in 1..(last + 1) /\ \A i \in 1..last : i \in 1..(last + 1)
      BY <1>4
    <3> HIDE DEF h
    <3> QED
      BY <1>4, <3>1, <3>2, Zenon
  <2> HIDE DEF h, k
  <2> QED
    BY <1>1, <1>3, <2>1, Zenon DEF InPipe
<1>7. Unwritten = RestOf(batch, off) /\ Unwritten' = RestOf(batch, off + 1)
  BY <1>1, Zenon DEF Unwritten
<1>71. /\ Unwritten = {batch[i] : i \in {i \in 1..Len(batch) : off <= 2 * (i - 1)}}
       /\ Unwritten' = {batch[i] : i \in {i \in 1..Len(batch) : off + 1 <= 2 * (i - 1)}}
  BY <1>1, <1>2, <1>7, RestIs, Zenon
<1>8. ASSUME Ahead({pipe[i].frame : i \in {i \in 1..last : pipe[i].part = "body"}}, {batch[k]})
      PROVE  PipeOrder'
  <2> HIDE DEF h, k
  <2> SUFFICES ASSUME NEW i \in 1..(last + 1), NEW j \in 1..(last + 1), i < j,
                      pipe'[i].part = "body"
               PROVE  Before(pipe'[i].frame, pipe'[j].frame)
    BY <1>4, Zenon DEF PipeOrder
  <2>1. i \in 1..last /\ pipe'[i] = pipe[i]
    BY <1>4
  <2>2. CASE j = last + 1
    BY <1>3, <1>4, <1>8, <2>1, <2>2, Zenon DEF Ahead
  <2>3. CASE j # last + 1
    <3>1. j \in 1..last /\ pipe'[j] = pipe[j]
      BY <1>4, <2>3
    <3> QED
      BY <1>4, <2>1, <3>1, Zenon DEF Order, PipeOrder
  <2> QED
    BY <2>2, <2>3
<1>9. CASE off % 2 = 0
  <2>1. ASSUME NEW i \in 1..Len(batch)
        PROVE  off + 1 <= 2 * (i - 1) <=> i > k
    BY <1>1, <1>9
  <2>2. off <= 2 * (k - 1)
    BY <1>1, <1>9
  <2> HIDE DEF k
  <2>3. Unwritten' = {batch[i] : i \in {i \in 1..Len(batch) : i > k}}
    BY <1>71, <2>1, Zenon
  <2>4. batch[k] \in Unwritten
    BY <1>2, <1>71, <2>2, Zenon
  <2>5. {batch[k]} \cup Unwritten' \subseteq Unwritten
    <3>1. \A i \in 1..Len(batch) : off + 1 <= 2 * (i - 1) => off <= 2 * (i - 1)
      BY <1>1
    <3>2. Unwritten' \subseteq Unwritten
      BY <1>71, <3>1, Zenon
    <3> QED
      BY <2>4, <3>2, Zenon
  <2>6. Ahead({batch[k]}, Unwritten')
    <3>1. DOMAIN batch = 1..Len(batch)
      BY <1>1
    <3>2. \A i \in 1..Len(batch) : i > k => Before(batch[k], batch[i])
      <4>1. \A i \in 1..Len(batch) : i > k <=> k < i
        BY <1>2
      <4> QED
        BY <1>2, <1>5, <3>1, <4>1, Zenon DEF Ascending
    <3> QED
      BY <2>3, <3>2, Zenon DEF Ahead
  <2>7. Chain(Range(handled), InPipe', Unwritten', Range(queue))
    <3>1. Chain(Range(handled), InPipe, {batch[k]} \cup Unwritten', Range(queue))
      BY <2>5, ChainSub, Zenon DEF Order
    <3> QED
      BY <1>6, <2>6, <3>1, ChainMoves, Zenon
  <2>8. PipeOrder'
    <3>1. Ahead({pipe[i].frame : i \in {i \in 1..last : pipe[i].part = "body"}}, {batch[k]})
      BY <1>4, <2>4, Zenon DEF Order, Chain, Ahead, InPipe
    <3> QED
      BY <1>8, <3>1, Zenon
  <2> QED
    BY <1>1, <1>5, <1>6, <2>5, <2>7, <2>8, Zenon DEF Order
<1>10. CASE off % 2 # 0
  <2>1. OwesBody /\ LastHalf.frame = batch[k]
    BY <1>1, <1>10 DEF InStep, Abreast
  <2>2. \A i \in 1..Len(batch) : off + 1 <= 2 * (i - 1) => off <= 2 * (i - 1)
    BY <1>1
  <2> HIDE DEF k
  <2>3. Unwritten' \subseteq Unwritten
    BY <1>2, <1>71, <2>2, Zenon
  <2>4. CASE pipe = <<>>
    <3>1. batch[k] \in InPipe
      BY <2>1, <2>4, Zenon DEF OwesBody, LastHalf, InPipe
    <3>2. last = 0
      BY <2>4
    <3>3. PipeOrder'
      <4>1. Ahead({pipe[i].frame : i \in {i \in 1..last : pipe[i].part = "body"}}, {batch[k]})
        BY <3>2 DEF Ahead
      <4> QED
        BY <1>8, <4>1, Zenon
    <3> QED
      BY <1>1, <1>5, <1>6, <2>3, <3>1, <3>3, LossKeepsOrder, SameOrder, Zenon
  <2>5. CASE pipe # <<>>
    <3>1. last \in 1..last /\ \A i \in 1..last : i = last \/ i < last
      BY <1>1, <2>5
    <3>2. pipe[last].part = "length" /\ pipe[last].frame = batch[k]
      BY <2>1, <2>5, Zenon DEF OwesBody, LastHalf
    <3>3. batch[k] \in InPipe
      BY <1>4, <3>1, <3>2, Zenon DEF InPipe
    <3>4. PipeOrder'
      <4>1. Ahead({pipe[i].frame : i \in {i \in 1..last : pipe[i].part = "body"}}, {batch[k]})
        <5>1. "body" # "length"
          OBVIOUS
        <5> QED
          BY <1>4, <3>1, <3>2, <5>1, Zenon DEF Order, PipeOrder, Ahead
      <4> QED
        BY <1>8, <4>1, Zenon
    <3> QED
      BY <1>1, <1>5, <1>6, <2>3, <3>3, <3>4, LossKeepsOrder, SameOrder, Zenon
  <2> QED
    BY <2>4, <2>5
<1> QED
  BY <1>9, <1>10

\* A half that is read leaves the rest of the pipe in order.
LEMMA ReadRest ==
  ASSUME TypeOK, Order, pipe # <<>>, pipe' = Tail(pipe)
  PROVE  /\ PipeOrder'
         /\ {pipe[i].frame : i \in DOMAIN pipe} =
            {Head(pipe).frame} \cup {pipe'[i].frame : i \in DOMAIN pipe'}
         /\ Head(pipe).part = "body" =>
            Ahead({Head(pipe).frame}, {pipe'[i].frame : i \in DOMAIN pipe'})
<1> DEFINE n == Len(pipe)
<1>1. /\ DOMAIN pipe = 1..n /\ DOMAIN pipe' = 1..(n - 1) /\ n \in Nat \ {0}
      /\ Head(pipe) = pipe[1] /\ \A i \in 1..(n - 1) : pipe'[i] = pipe[i + 1]
  <2>1. pipe \in Seq(Half)
    BY Zenon DEF TypeOK
  <2> QED
    BY <2>1
<1> HIDE DEF n
<1>2. \A i \in 1..(n - 1) : i + 1 \in 1..n /\ 1 < i + 1
  BY <1>1
<1>3. \A i, j \in 1..(n - 1) : i < j => i + 1 < j + 1
  BY <1>1
<1>4. 1 \in 1..n /\ \A i \in 1..n : i = 1 \/ (i - 1 \in 1..(n - 1) /\ (i - 1) + 1 = i)
  BY <1>1
<1>5. PipeOrder'
  <2> SUFFICES ASSUME NEW i \in 1..(n - 1), NEW j \in 1..(n - 1), i < j,
                      pipe'[i].part = "body"
               PROVE  Before(pipe'[i].frame, pipe'[j].frame)
    BY <1>1, Zenon DEF PipeOrder
  <2>1. pipe'[i] = pipe[i + 1] /\ pipe'[j] = pipe[j + 1]
    BY <1>1, Zenon
  <2>2. i + 1 \in 1..n /\ j + 1 \in 1..n /\ i + 1 < j + 1
    BY <1>2, <1>3, Zenon
  <2> QED
    BY <1>1, <2>1, <2>2, Zenon DEF Order, PipeOrder
<1>6. {pipe[i].frame : i \in 1..n} = {pipe[1].frame} \cup {pipe'[i].frame : i \in 1..(n - 1)}
  <2>1. ASSUME NEW i \in 1..n
        PROVE  pipe[i].frame \in {pipe[1].frame} \cup {pipe'[j].frame : j \in 1..(n - 1)}
    <3>1. CASE i # 1
      <4>1. i - 1 \in 1..(n - 1) /\ pipe'[i - 1] = pipe[(i - 1) + 1] /\ (i - 1) + 1 = i
        BY <1>1, <1>4, <3>1, Zenon
      <4>2. pipe'[i - 1].frame = pipe[i].frame
        BY <4>1, Zenon
      <4> QED
        BY <4>1, <4>2, Zenon
    <3> QED
      BY <3>1
  <2>2. ASSUME NEW i \in 1..(n - 1)
        PROVE  pipe'[i].frame \in {pipe[j].frame : j \in 1..n}
    <3>1. pipe'[i] = pipe[i + 1] /\ i + 1 \in 1..n
      BY <1>1, <1>2, Zenon
    <3> QED
      BY <3>1, Zenon
  <2> DEFINE A == {pipe[i].frame : i \in 1..n}
             B == {pipe[1].frame} \cup {pipe'[i].frame : i \in 1..(n - 1)}
  <2>3. \A x \in A : x \in B
    BY <2>1, Zenon
  <2>4. \A x \in B : x \in A
    BY <1>4, <2>2, Zenon
  <2>5. A \subseteq B /\ B \subseteq A
    BY <2>3, <2>4, Zenon
  <2> HIDE DEF A, B
  <2>6. A = B
    BY <2>5
  <2> QED
    BY <2>6, Zenon DEF A, B
<1>7. Head(pipe).part = "body" =>
      \A i \in 1..(n - 1) : Before(Head(pipe).frame, pipe'[i].frame)
  <2>1. ASSUME NEW i \in 1..(n - 1), pipe[1].part = "body"
        PROVE  Before(pipe[1].frame, pipe'[i].frame)
    <3>1. pipe'[i] = pipe[i + 1] /\ i + 1 \in 1..n /\ 1 < i + 1
      BY <1>1, <1>2, Zenon
    <3> QED
      BY <1>1, <1>4, <2>1, <3>1, Zenon DEF Order, PipeOrder
  <2> QED
    BY <1>1, <2>1, Zenon
<1> QED
  BY <1>1, <1>5, <1>6, <1>7, Zenon DEF Ahead

LEMMA ReadLengthOrder ==
  ASSUME TypeOK, Places, Order, ReadLength
  PROVE  Order'
<1>1. /\ pipe # <<>> /\ pipe' = Tail(pipe) /\ length' = Head(pipe) /\ reader' = "body"
      /\ UNCHANGED <<batch, off, queue, handled, sent>>
  BY Zenon DEF ReadLength, game
<1>2. InPipe' \subseteq InPipe
  BY <1>1, ReadRest, Zenon DEF InPipe
<1>3. PipeOrder'
  BY <1>1, ReadRest, Zenon
<1> QED
  BY <1>1, <1>2, <1>3, SameOrder, LossKeepsOrder, Zenon

\* HandleMessage is given the frame that is first in the pipe, whole.
LEMMA ReadBodyOrder ==
  ASSUME TypeOK, Places, InStep, Whole, Order, ReadBody
  PROVE  Whole' /\ Order'
<1> DEFINE f == Head(pipe).frame
           rest == {pipe'[i].frame : i \in DOMAIN pipe'}
<1>1. /\ pipe # <<>> /\ pipe' = Tail(pipe) /\ reader = "body" /\ reader' = "length"
      /\ UNCHANGED <<batch, off, queue, sent>>
  BY Zenon DEF ReadBody, game
<1>2. /\ Head(pipe) = BodyOf(length) /\ length \in Half /\ length.part = "length"
      /\ Head(pipe) \in Half
  BY <1>1, DueHalf, PipeRest, Zenon DEF Places
<1>3. f \in Frame /\ f = length.frame /\ Head(pipe).part = "body"
  BY <1>2, HalfIs, Zenon
<1>4. handled' = IF f = Ping THEN handled ELSE Append(handled, f)
  <2>1. Head(pipe) = [length EXCEPT !.part = "body"]
    BY <1>2, Zenon DEF BodyOf
  <2> QED
    BY <1>2, <2>1, Zenon DEF ReadBody
<1>5. InPipe = {f} \cup rest /\ InPipe' = rest /\ PipeOrder' /\ Ahead({f}, rest)
  <2>1. /\ {pipe[i].frame : i \in DOMAIN pipe} = {f} \cup rest /\ PipeOrder'
        /\ Ahead({f}, rest)
    BY <1>1, <1>3, ReadRest, Zenon
  <2>2. "length" # "body"
    OBVIOUS
  <2> QED
    BY <1>1, <1>3, <2>1, <2>2, Zenon DEF InPipe
<1> HIDE DEF f, rest
<1>6. Unwritten' = Unwritten /\ Ascending(batch)' /\ Ascending(queue)' /\ queue' = queue
  BY <1>1, SameOrder, Zenon
<1>7. CASE f = Ping
  <2>1. handled' = handled
    BY <1>4, <1>7, Zenon
  <2>2. InPipe' \subseteq InPipe
    BY <1>5, Zenon
  <2>3. Order'
    BY <1>1, <1>5, <1>6, <2>1, <2>2, SameOrder, LossKeepsOrder, Zenon
  <2> QED
    BY <2>1, <2>3, Zenon DEF Whole
<1>8. CASE f # Ping
  <2>1. handled \in Seq(Frame \cup {Garbage}) /\ f \in Frame \cup {Garbage}
    BY <1>3, Zenon DEF TypeOK
  <2>2. handled' = Append(handled, f)
    BY <1>4, <1>8, Zenon
  <2>3. Range(handled') = Range(handled) \cup {f}
    BY <2>1, <2>2, RangeAppend
  <2>4. Ahead(Range(handled), {f}) /\ Ascending(handled)
    BY <1>5, Zenon DEF Order, Chain, Ahead
  <2>5. Ascending(handled')
    BY <2>1, <2>2, <2>4, AscendingAppend, Zenon
  <2>6. Chain(Range(handled'), InPipe', Unwritten', Range(queue'))
    <3>1. Chain(Range(handled), {f} \cup rest, Unwritten, Range(queue))
      BY <1>5, Zenon DEF Order
    <3>2. Chain(Range(handled) \cup {f}, rest, Unwritten, Range(queue))
      BY <1>5, <3>1, ChainMoves, Zenon
    <3> QED
      BY <1>5, <1>6, <2>3, <3>2, Zenon
  <2>7. Order'
    BY <1>1, <1>5, <1>6, <2>3, <2>5, <2>6, Zenon DEF Order
  <2> QED
    BY <1>3, <1>8, <2>3, <2>7, Zenon DEF Whole
<1> QED
  BY <1>7, <1>8

LEMMA StepOrder ==
  ASSUME TypeOK, Places, InStep, Whole, Order, [Next]_vars
  PROVE  Whole' /\ Order'
<1>1. CASE ReadBody
  BY <1>1, ReadBodyOrder, Zenon
<1>2. ASSUME ~ReadBody
      PROVE  Whole' /\ handled' = handled
  <2>1. handled' = handled
    BY <1>2, Zenon DEF Next, Writer, Reader, Send, ConnectPipe, PushPing, SkipPing, StartBatch,
       Fill, WriteHalf, WriteDone, WriteFails, CreateInstance, Accept, AcceptFails, ReadFails,
       ReadLength, GameStops, GameStarts, MeterStops, MeterStarts, CloseInstance,
       vars, game, meter
  <2> QED
    BY <2>1, Zenon DEF Whole
<1>3. CASE Send
  BY <1>2, <1>3, SendOrder, Zenon DEF Send, meter, ReadBody, game
<1>4. CASE PushPing \/ SkipPing \/ Fill \/ WriteHalf \/ ReadLength
  <2>1. Order'
    BY <1>4, StartBatchOrder, FillOrder, WriteOrder, ReadLengthOrder, Zenon
  <2>2. handled' = handled
    BY <1>4, Zenon DEF PushPing, SkipPing, StartBatch, Fill, WriteHalf, ReadLength, meter
  <2> QED
    BY <2>1, <2>2, Zenon DEF Whole
<1>5. CASE \/ ConnectPipe \/ CreateInstance \/ Accept
           \/ GameStarts \/ MeterStarts \/ UNCHANGED vars
  <2>1. /\ UNCHANGED <<queue, batch, off, handled, sent, pipe, length>>
        /\ UNCHANGED reader \/ (reader # "body" /\ reader' # "body")
    BY <1>5 DEF ConnectPipe, CreateInstance, Accept, GameStarts, MeterStarts, vars, game, meter
  <2>2. InPipe' = InPipe /\ PipeOrder'
    BY <2>1, Zenon DEF InPipe, PipeOrder, Order
  <2> QED
    BY <2>1, <2>2, SameOrder, LossKeepsOrder, Zenon DEF Whole
<1>6. CASE WriteDone \/ WriteFails
  <2>1. UNCHANGED <<queue, handled, sent, pipe, length, reader>> /\ batch' = <<>>
    BY <1>6, Zenon DEF WriteDone, WriteFails, meter
  <2> QED
    BY <2>1, SameOrder, LossKeepsOrder, Zenon DEF Whole
<1>7. CASE AcceptFails \/ ReadFails \/ MeterStops
  <2>1. /\ UNCHANGED <<queue, batch, off, handled, sent>> /\ pipe' = <<>> /\ reader' # "body"
    BY <1>7 DEF AcceptFails, ReadFails, MeterStops, CloseInstance
  <2> QED
    BY <2>1, SameOrder, LossKeepsOrder, Zenon DEF Whole
<1>8. CASE GameStops
  <2>1. UNCHANGED <<handled, sent, pipe, length, reader>> /\ batch' = <<>> /\ queue' = <<>>
    BY <1>8, Zenon DEF GameStops, meter
  <2>2. Range(queue)' \subseteq Range(queue) /\ Ascending(queue)'
    BY <2>1, AscendingEmpty, Zenon
  <2> QED
    BY <2>1, <2>2, SameOrder, LossKeepsOrder, Zenon DEF Whole
<1> QED
  BY <1>1, <1>3, <1>4, <1>5, <1>6, <1>7, <1>8, Zenon DEF Next, Writer, Reader

-----------------------------------------------------------------------------
(* The theorems *)

THEOREM Inductive == Spec => []IInv
<1>1. Init => IInv
  BY InitType, InitInStep, InitOrder, Zenon DEF IInv
<1>2. IInv /\ [Next]_vars => IInv'
  BY TypeStep, StepInStep, StepOrder, Zenon DEF IInv
<1> QED
  BY <1>1, <1>2, PTL DEF Spec

\* The states of hook, pipe and meter fit each other, and neither the queue nor the
\* batch ever outgrows its buffer, whatever their sizes are (pipe.cpp, WriterThread).
THEOREM TypeCorrect == Spec => []TypeOK
<1>1. IInv => TypeOK
  BY Zenon DEF IInv
<1> QED
  BY <1>1, Inductive, PTL

\* HandleMessage is only given whole frames, wherever connections break.
THEOREM FramesCorrect == Spec => []WholeFrames
<1>1. IInv => WholeFrames
  BY FrameType, Zenon DEF IInv, Whole, WholeFrames
<1> QED
  BY <1>1, Inductive, PTL

\* HandleMessage is given the frames in the order the game sent them, each once.
THEOREM OrderCorrect == Spec => []InOrder
<1>1. ASSUME IInv
      PROVE  InOrder
  <2> SUFFICES ASSUME NEW i \in DOMAIN handled, NEW j \in DOMAIN handled, i < j
               PROVE  handled[i][1] < handled[j][1]
    BY Zenon DEF InOrder
  <2>1. Before(handled[i], handled[j])
    BY <1>1, Zenon DEF IInv, Order, Ascending
  <2>2. handled[i] # Ping /\ handled[j] # Ping
    BY <1>1, Zenon DEF IInv, Whole, Range
  <2> QED
    BY <2>1, <2>2, Zenon DEF Before
<1> QED
  BY <1>1, Inductive, PTL
====
