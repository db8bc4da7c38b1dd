------------------------- MODULE HookCommandProofs -------------------------
(***************************************************************************)
(* RunsFresh of HookCommand, for any number of games, commands and faults. *)
(* The numbers of the commands rise along the way of a command, from what  *)
(* has been run over the pipes and the queue to the key that was pressed   *)
(* last; and from the moment the server announces a connection, all that   *)
(* is queued is for the game at its other end.                             *)
(***************************************************************************)
EXTENDS HookCommand, TLAPS

Frame == Command \cup {Ping}
Key == [op : Op, n : 1..MaxPressed]

Typed ==
  /\ queue \in Seq(Command) /\ popped \in Seq(Command) /\ tested \in Seq(Key)
  /\ peer \in {<<>>} \cup {<<g>> : g \in Game}
  /\ pipe \in [Game -> Seq(Frame)] /\ ran \in [Game -> Seq(Command)]
  /\ pressed \in 0..MaxPressed
  /\ (popped # <<>> <=> server = "write") /\ Len(popped) <= 1

\* While the server serves, what it has queued is for its client.
Serving == server \in {"announce", "serve", "write", "broken", "close"}
ForPeer ==
  /\ Serving \/ server = "clear" => peer # <<>>
  /\ Serving => \A i \in 1..Len(queue) : queue[i].to = peer
  /\ Serving => \A i \in 1..Len(popped) : popped[i].to = peer

Rising(q) == \A i, j \in 1..Len(q) : i < j => q[i].n < q[j].n

\* In a pipe, commands are between keep-alives, which have no number.
RisingBetween(q) == \A i, j \in 1..Len(q) : i < j /\ q[j] # Ping => q[i].n < q[j].n

\* What a game has run, and what is on its way to it
Own(g) ==
  /\ Rising(ran[g]) /\ RisingBetween(pipe[g])
  /\ \A i \in 1..Len(ran[g]) : ran[g][i].to = <<g>>
  /\ \A i \in 1..Len(pipe[g]) :
       pipe[g][i] # Ping =>
         /\ pipe[g][i].to = <<g>>
         /\ \A j \in 1..Len(ran[g]) : ran[g][j].n < pipe[g][i].n

\* Every number a game has seen is below n.
Before(g, n) ==
  /\ \A i \in 1..Len(ran[g]) : ran[g][i].n < n
  /\ \A i \in 1..Len(pipe[g]) : pipe[g][i].n < n

\* No number is above that of the last key, and a number is above those further on its way.
Bounded ==
  /\ \A g \in Game :
       /\ \A i \in 1..Len(ran[g]) : ran[g][i].n <= pressed
       /\ \A i \in 1..Len(pipe[g]) : pipe[g][i].n <= pressed
  /\ \A i \in 1..Len(popped) : popped[i].n <= pressed
  /\ \A i \in 1..Len(queue) : queue[i].n <= pressed
  /\ \A i \in 1..Len(tested) : tested[i].n <= pressed

OrderedQueue ==
  /\ Rising(queue)
  /\ \A i \in 1..Len(queue) : \A j \in 1..Len(tested) : queue[i].n < tested[j].n
  /\ \A i \in 1..Len(popped) :
       /\ \A j \in 1..Len(queue) : popped[i].n < queue[j].n
       /\ \A j \in 1..Len(tested) : popped[i].n < tested[j].n

OrderedGame(g) ==
  /\ \A i \in 1..Len(popped) : Before(g, popped[i].n)
  /\ \A i \in 1..Len(queue) : Before(g, queue[i].n)
  /\ \A i \in 1..Len(tested) : Before(g, tested[i].n)

Ordered == Bounded /\ OrderedQueue /\ \A g \in Game : OrderedGame(g)

IInv == Typed /\ ForPeer /\ Ordered /\ \A g \in Game : Own(g)

LEMMA FrameIs ==
  /\ Ping.n = 0
  /\ \A c \in Command : c.n \in Nat /\ c.n > 0 /\ c # Ping
  /\ \A c \in Frame : c.n \in Nat /\ (c # Ping => c \in Command)
<1>1. Ping.n = 0
  BY DEF Ping
<1>2. \A c \in Command : c.n \in Nat /\ c.n > 0
  BY CommandAssumption DEF Command
<1> QED
  BY <1>1, <1>2 DEF Frame

LEMMA InitInv == Init => IInv
<1> SUFFICES ASSUME Init PROVE IInv
  OBVIOUS
<1>1. /\ queue = <<>> /\ popped = <<>> /\ tested = <<>> /\ peer = <<>> /\ pressed = 0
      /\ server = "create"
      /\ \A g \in Game : pipe[g] = <<>> /\ ran[g] = <<>>
  BY DEF Init
<1>2. Typed
  BY <1>1, CommandAssumption DEF Init, Typed
<1>3. ForPeer
  BY <1>1 DEF ForPeer, Serving
<1>4. Ordered
  BY <1>1 DEF Ordered, Bounded, OrderedQueue, OrderedGame, Rising, Before
<1>5. \A g \in Game : Own(g)
  BY <1>1 DEF Own, Rising, RisingBetween
<1> QED
  BY <1>2, <1>3, <1>4, <1>5 DEF IInv

-----------------------------------------------------------------------------
(* Steps that move no command *)

frames == <<queue, popped, tested, pipe, ran, pressed>>

LEMMA SameOrder ==
  ASSUME IInv, UNCHANGED frames
  PROVE  Ordered' /\ \A g \in Game : Own(g)'
BY DEF IInv, frames, Ordered, Bounded, OrderedQueue, OrderedGame, Own, Rising, RisingBetween,
       Before

LEMMA PassInv ==
  ASSUME IInv, UNCHANGED frames,
         \/ CreateNamedPipe \/ Connect \/ ConnectTooLate \/ Announce
         \/ Disconnected \/ DisconnectNamedPipe
         \/ \E g \in Game : OpenPipe(g)
         \/ UNCHANGED <<server, peer>>
  PROVE  IInv'
<1>1. Typed'
  <2>1. peer' \in {<<>>} \cup {<<g>> : g \in Game}
    BY DEF IInv, Typed, CreateNamedPipe, Connect, ConnectTooLate, Announce, Disconnected,
           DisconnectNamedPipe, OpenPipe
  <2>2. server' = "write" <=> server = "write"
    BY DEF CreateNamedPipe, Connect, ConnectTooLate, Announce, Disconnected,
           DisconnectNamedPipe, OpenPipe, meter
  <2> QED
    BY <2>1, <2>2 DEF IInv, Typed, frames
<1>2. ForPeer'
  <2>1. CASE UNCHANGED <<server, peer>>
    BY <2>1 DEF IInv, ForPeer, Serving, frames
  <2>2. CASE CreateNamedPipe \/ ConnectTooLate \/ DisconnectNamedPipe
    BY <2>2 DEF ForPeer, Serving, CreateNamedPipe, ConnectTooLate, DisconnectNamedPipe
  <2>3. CASE Connect
    BY <2>3 DEF ForPeer, Serving, Connect
  <2>4. CASE Disconnected
    BY <2>4 DEF IInv, ForPeer, Serving, Disconnected
  <2>5. CASE Announce
    BY <2>5 DEF IInv, ForPeer, Serving, Announce
  <2>6. CASE \E g \in Game : OpenPipe(g)
    <3>1. PICK g \in Game : OpenPipe(g)
      BY <2>6
    <3>2. CASE server = "listen"
      <4>1. server' = "listen"
        BY <3>1, <3>2 DEF OpenPipe, meter
      <4> QED
        BY <4>1 DEF ForPeer, Serving
    <3>3. CASE server # "listen"
      <4>1. UNCHANGED <<server, peer, queue, popped>>
        BY <3>1, <3>3 DEF OpenPipe, meter
      <4> QED
        BY <4>1 DEF IInv, ForPeer, Serving
    <3> QED
      BY <3>2, <3>3
  <2> QED
    BY <2>1, <2>2, <2>3, <2>4, <2>5, <2>6
<1> QED
  BY <1>1, <1>2, SameOrder DEF IInv

-----------------------------------------------------------------------------
(* The UI *)

LEMMA TestInv ==
  ASSUME IInv, NEW op \in Op, Test(op)
  PROVE  IInv'
<1> DEFINE key == [op |-> op, n |-> pressed + 1]
<1>1. /\ UNCHANGED <<queue, server, popped, peer, pipe, ran>>
      /\ pressed' = pressed + 1 /\ pressed < MaxPressed
      /\ tested = <<>> /\ (tested' = <<key>> \/ tested' = <<>>)
  BY DEF Test, hook
<1>2. pressed \in Nat /\ pressed + 1 \in 1..MaxPressed
  BY <1>1, CommandAssumption DEF IInv, Typed
<1>3. key \in Key /\ key.n = pressed + 1
  BY <1>2 DEF Key
<1> HIDE DEF key
<1>4. Typed'
  <2>1. <<key>> \in Seq(Key) /\ <<>> \in Seq(Key)
    BY <1>3
  <2>2. tested' \in Seq(Key)
    BY <1>1, <2>1, Zenon
  <2>3. pressed' \in 0..MaxPressed
    BY <1>1, <1>2
  <2> QED
    BY <1>1, <2>2, <2>3, Zenon DEF IInv, Typed
<1>5. ForPeer'
  BY <1>1 DEF IInv, ForPeer, Serving
<1>6. \A i \in 1..Len(tested') : tested'[i].n = pressed + 1
  BY <1>1, <1>3
<1>7. Bounded
  BY DEF IInv, Ordered
<1>8. Bounded'
  <2>1. /\ \A g \in Game : pipe[g] \in Seq(Frame) /\ ran[g] \in Seq(Command)
        /\ queue \in Seq(Command) /\ popped \in Seq(Command)
    BY DEF IInv, Typed
  <2>2. /\ \A i \in 1..Len(tested') : tested'[i].n <= pressed'
    BY <1>1, <1>2, <1>6
  <2>3. /\ \A i \in 1..Len(popped') : popped'[i].n <= pressed'
        /\ \A i \in 1..Len(queue') : queue'[i].n <= pressed'
    BY <1>1, <1>2, <1>7, <2>1, FrameIs DEF Bounded
  <2>4. \A g \in Game :
          /\ \A i \in 1..Len(ran'[g]) : ran'[g][i].n <= pressed'
          /\ \A i \in 1..Len(pipe'[g]) : pipe'[g][i].n <= pressed'
    BY <1>1, <1>2, <1>7, <2>1, FrameIs DEF Bounded
  <2> QED
    BY <2>2, <2>3, <2>4 DEF Bounded
<1>9. OrderedQueue'
  <2>1. queue \in Seq(Command) /\ popped \in Seq(Command)
    BY DEF IInv, Typed
  <2> QED
    BY <1>1, <1>2, <1>6, <1>7, <2>1, FrameIs DEF IInv, Ordered, OrderedQueue, Rising, Bounded
<1>10. \A g \in Game : OrderedGame(g)'
  <2>1. \A g \in Game : pipe[g] \in Seq(Frame) /\ ran[g] \in Seq(Command)
    BY DEF IInv, Typed
  <2> QED
    <3> SUFFICES ASSUME NEW g \in Game PROVE OrderedGame(g)'
      OBVIOUS
    <3>1. OrderedGame(g)
      BY DEF IInv, Ordered
    <3>2. \A i \in 1..Len(tested') : Before(g, tested[i].n)'
      <4>1. /\ \A i \in 1..Len(ran'[g]) : ran'[g][i].n \in Nat /\ ran'[g][i].n <= pressed
            /\ \A i \in 1..Len(pipe'[g]) : pipe'[g][i].n \in Nat /\ pipe'[g][i].n <= pressed
        BY <1>1, <1>7, <2>1, FrameIs DEF Bounded
      <4> QED
        BY <1>2, <1>6, <4>1 DEF Before
    <3> QED
      BY <1>1, <3>1, <3>2 DEF OrderedGame, Before
<1>11. \A g \in Game : Own(g)'
  BY <1>1 DEF IInv, Own, Rising, RisingBetween
<1> QED
  BY <1>4, <1>5, <1>8, <1>9, <1>10, <1>11 DEF IInv, Ordered

LEMMA PushInv ==
  ASSUME IInv, Push
  PROVE  IInv'
<1> DEFINE c == [op |-> tested[1].op, n |-> tested[1].n, to |-> peer]
<1>1. /\ UNCHANGED <<server, popped, peer, pipe, ran, pressed>>
      /\ tested # <<>> /\ tested' = <<>>
      /\ queue' = queue \/ queue' = Append(queue, c)
  BY Zenon DEF Push, hook
<1>2. /\ queue \in Seq(Command) /\ popped \in Seq(Command) /\ tested \in Seq(Key)
      /\ peer \in {<<>>} \cup {<<g>> : g \in Game}
      /\ \A g \in Game : pipe[g] \in Seq(Frame) /\ ran[g] \in Seq(Command)
  BY DEF IInv, Typed
<1>3. 1 \in 1..Len(tested) /\ tested[1] \in Key
  BY <1>1, <1>2
<1>4. c \in Command /\ c.n = tested[1].n /\ c.to = peer
  <2>1. tested[1].op \in Op /\ tested[1].n \in 1..MaxPressed
    BY <1>3 DEF Key
  <2> QED
    BY <1>2, <2>1 DEF Command
<1> HIDE DEF c
<1>5. /\ \A i \in 1..Len(queue) : queue[i].n < c.n
      /\ \A i \in 1..Len(popped) : popped[i].n < c.n
      /\ c.n <= pressed
      /\ \A g \in Game : Before(g, c.n)
  BY <1>3, <1>4 DEF IInv, Ordered, OrderedQueue, OrderedGame, Bounded
<1>6. queue' \in Seq(Command)
      /\ \A i \in 1..Len(queue') :
           queue'[i] = c \/ (i \in 1..Len(queue) /\ queue'[i] = queue[i])
  <2>1. CASE queue' = queue
    BY <1>2, <2>1
  <2>2. CASE queue' = Append(queue, c)
    BY <1>2, <1>4, <2>2
  <2> QED
    BY <1>1, <2>1, <2>2
<1>7. Typed'
  <2>1. tested' \in Seq(Key)
    BY <1>1
  <2> QED
    BY <1>1, <1>6, <2>1, Zenon DEF IInv, Typed
<1>8. ForPeer'
  BY <1>1, <1>4, <1>6 DEF IInv, ForPeer, Serving
<1>9. Bounded' /\ Len(tested') = 0
  BY <1>1, <1>5, <1>6 DEF IInv, Ordered, Bounded
<1>10. OrderedQueue'
  <2>1. Rising(queue)'
    <3>1. CASE queue' = queue
      BY <3>1 DEF IInv, Ordered, OrderedQueue, Rising
    <3>2. CASE queue' = Append(queue, c)
      BY <1>2, <1>4, <1>5, <3>2 DEF IInv, Ordered, OrderedQueue, Rising
    <3> QED
      BY <1>1, <3>1, <3>2
  <2> QED
    BY <1>1, <1>5, <1>6, <1>9, <2>1 DEF IInv, Ordered, OrderedQueue
<1>11. \A g \in Game : OrderedGame(g)'
  BY <1>1, <1>5, <1>6, <1>9 DEF IInv, Ordered, OrderedGame, Before
<1>12. \A g \in Game : Own(g)'
  BY <1>1 DEF IInv, Own, Rising, RisingBetween
<1> QED
  BY <1>7, <1>8, <1>9, <1>10, <1>11, <1>12 DEF IInv, Ordered

-----------------------------------------------------------------------------
(* The server *)

LEMMA ClearQueueInv ==
  ASSUME IInv, ClearQueue
  PROVE  IInv'
<1>1. /\ UNCHANGED <<popped, tested, peer, pipe, ran, pressed>>
      /\ queue' = <<>> /\ server = "clear" /\ server' = "announce"
  BY DEF ClearQueue, Cleared, hook
<1>2. popped = <<>> /\ peer # <<>>
  BY <1>1 DEF IInv, Typed, ForPeer
<1>3. Typed'
  BY <1>1 DEF IInv, Typed
<1>4. ForPeer'
  BY <1>1, <1>2 DEF ForPeer
<1>5. Bounded' /\ OrderedQueue'
  BY <1>1 DEF IInv, Ordered, Bounded, OrderedQueue, Rising
<1>6. ASSUME NEW g \in Game PROVE OrderedGame(g)'
  <2>1. ASSUME NEW n, Before(g, n) PROVE Before(g, n)'
    BY <1>1, <2>1 DEF Before
  <2> QED
    BY <1>1, <1>2, <2>1 DEF IInv, Ordered, OrderedGame
<1>7. \A g \in Game : Own(g)'
  BY <1>1 DEF IInv, Own, Rising, RisingBetween
<1> QED
  BY <1>3, <1>4, <1>5, <1>6, <1>7 DEF IInv, Ordered

LEMMA PopCommandInv ==
  ASSUME IInv, PopCommand
  PROVE  IInv'
<1>1. /\ UNCHANGED <<tested, peer, pipe, ran, pressed>>
      /\ queue # <<>> /\ popped' = <<Head(queue)>> /\ queue' = Tail(queue)
      /\ server = "serve" /\ server' = "write"
  BY DEF PopCommand, hook
<1>2. queue \in Seq(Command)
  BY DEF IInv, Typed
<1>3. /\ Len(queue) > 0 /\ Len(queue) \in Nat /\ Len(queue') = Len(queue) - 1
      /\ queue' \in Seq(Command)
      /\ \A i \in 1..Len(queue') : i + 1 \in 1..Len(queue) /\ queue'[i] = queue[i + 1]
  BY <1>1, <1>2
<1>4. /\ popped' \in Seq(Command) /\ Len(popped') = 1 /\ popped' # <<>>
      /\ popped'[1] = queue[1] /\ 1 \in 1..Len(queue)
  BY <1>1, <1>2
<1>5. Typed'
  BY <1>1, <1>3, <1>4 DEF IInv, Typed
<1>6. ForPeer'
  <2>1. peer # <<>> /\ \A i \in 1..Len(queue) : queue[i].to = peer
    BY <1>1 DEF IInv, ForPeer, Serving
  <2> QED
    BY <1>1, <1>3, <1>4, <2>1 DEF ForPeer
<1>7. Bounded'
  BY <1>1, <1>3, <1>4 DEF IInv, Ordered, Bounded
<1>8. OrderedQueue'
  BY <1>1, <1>3, <1>4 DEF IInv, Ordered, OrderedQueue, Rising
<1>9. \A g \in Game : OrderedGame(g)'
  BY <1>1, <1>3, <1>4 DEF IInv, Ordered, OrderedGame, Before
<1>10. \A g \in Game : Own(g)'
  BY <1>1 DEF IInv, Own, Rising, RisingBetween
<1> QED
  BY <1>5, <1>6, <1>7, <1>8, <1>9, <1>10 DEF IInv, Ordered

\* A frame that is written to the client
LEMMA AppendIs ==
  ASSUME IInv, NEW g \in Game, NEW c \in Frame, pipe' = [pipe EXCEPT ![g] = Append(@, c)]
  PROVE  /\ pipe' \in [Game -> Seq(Frame)]
         /\ \A h \in Game \ {g} : pipe'[h] = pipe[h]
         /\ Len(pipe'[g]) = Len(pipe[g]) + 1 /\ pipe'[g][Len(pipe[g]) + 1] = c
         /\ \A i \in 1..Len(pipe[g]) : pipe'[g][i] = pipe[g][i]
         /\ Len(pipe[g]) \in Nat
<1>1. pipe \in [Game -> Seq(Frame)] /\ pipe[g] \in Seq(Frame)
  BY DEF IInv, Typed
<1>2. pipe'[g] = Append(pipe[g], c) /\ \A h \in Game \ {g} : pipe'[h] = pipe[h]
  BY <1>1
<1>3. Append(pipe[g], c) \in Seq(Frame)
  BY <1>1
<1>4. pipe' \in [Game -> Seq(Frame)]
  BY <1>1, <1>3, Zenon
<1> QED
  BY <1>1, <1>2, <1>4

\* What a frame may be when it is written: a keep-alive, or a command for the client with
\* a number above all that its game has seen and below all that is still to come
LEMMA WriteInv ==
  ASSUME IInv, NEW c \in Frame, Serving,
         c # Ping => /\ c.to = peer /\ c.n <= pressed
                     /\ \A g \in Game : Before(g, c.n)
                     /\ \A i \in 1..Len(queue) : c.n < queue[i].n
                     /\ \A i \in 1..Len(tested) : c.n < tested[i].n,
         WriteCommand(c), popped' = <<>>, UNCHANGED <<queue, tested, peer, ran, pressed>>
  PROVE  IInv'
<1>1. /\ queue \in Seq(Command) /\ tested \in Seq(Key) /\ pressed \in Nat
      /\ pipe \in [Game -> Seq(Frame)] /\ ran \in [Game -> Seq(Command)]
  BY DEF IInv, Typed
<1>2. PICK g \in Game : peer = <<g>>
  BY DEF IInv, ForPeer, Typed
<1>3. server' \in {"broken", "serve"}
  BY DEF WriteCommand
<1>4. /\ popped' = <<>> /\ Len(popped') = 0
      /\ UNCHANGED <<queue, tested, peer, ran, pressed>>
  OBVIOUS
<1>5. ForPeer'
  BY <1>3, <1>4 DEF IInv, ForPeer, Serving
<1>6. OrderedQueue'
  BY <1>4 DEF IInv, Ordered, OrderedQueue, Rising
<1>7. CASE pipe' = pipe
  <2>1. Typed'
    BY <1>3, <1>4, <1>7 DEF IInv, Typed
  <2>2. Bounded'
    BY <1>4, <1>7 DEF IInv, Ordered, Bounded
  <2>3. ASSUME NEW h \in Game PROVE OrderedGame(h)'
    <3>1. ASSUME NEW n, Before(h, n) PROVE Before(h, n)'
      BY <1>4, <1>7, <3>1 DEF Before
    <3> QED
      BY <1>4, <3>1 DEF IInv, Ordered, OrderedGame
  <2>4. \A h \in Game : Own(h)'
    BY <1>4, <1>7 DEF IInv, Own, Rising, RisingBetween
  <2> QED
    BY <1>5, <1>6, <2>1, <2>2, <2>3, <2>4 DEF IInv, Ordered
<1>8. CASE pipe' = [pipe EXCEPT ![g] = Append(@, c)]
  <2>1. /\ pipe' \in [Game -> Seq(Frame)]
        /\ \A h \in Game \ {g} : pipe'[h] = pipe[h]
        /\ Len(pipe'[g]) = Len(pipe[g]) + 1 /\ pipe'[g][Len(pipe[g]) + 1] = c
        /\ \A i \in 1..Len(pipe[g]) : pipe'[g][i] = pipe[g][i]
        /\ Len(pipe[g]) \in Nat
    BY <1>8, AppendIs
  <2>2. c.n \in Nat /\ (c # Ping => c.to = <<g>>) /\ c.n <= pressed
    BY <1>1, <1>2, FrameIs
  <2>3. Typed'
    BY <1>3, <1>4, <2>1 DEF IInv, Typed
  <2>4. Bounded'
    <3>1. Bounded
      BY DEF IInv, Ordered
    <3>2. ASSUME NEW h \in Game, NEW i \in 1..Len(pipe'[h])
          PROVE  pipe'[h][i].n <= pressed
      BY <2>1, <2>2, <3>1, <3>2 DEF Bounded
    <3> QED
      BY <1>4, <3>1, <3>2 DEF Bounded
  <2>5. ASSUME NEW h \in Game PROVE OrderedGame(h)'
    <3>1. ASSUME NEW n \in Nat, Before(h, n), c.n < n PROVE Before(h, n)'
      BY <1>4, <2>1, <3>1 DEF Before
    <3>2. \A i \in 1..Len(queue) : queue[i].n \in Nat /\ queue[i].n > 0
      BY <1>1, FrameIs
    <3>3. \A i \in 1..Len(tested) : tested[i].n \in Nat /\ tested[i].n > 0
      <4>1. \A i \in 1..Len(tested) : tested[i] \in Key
        BY <1>1
      <4>2. \A k \in Key : k.n \in Nat /\ k.n > 0
        BY CommandAssumption DEF Key
      <4> QED
        BY <4>1, <4>2
    <3>4. /\ \A i \in 1..Len(queue) : Before(h, queue[i].n) /\ c.n < queue[i].n
          /\ \A i \in 1..Len(tested) : Before(h, tested[i].n) /\ c.n < tested[i].n
      BY <3>2, <3>3, FrameIs DEF IInv, Ordered, OrderedGame
    <3>5. \A i \in 1..Len(queue) : Before(h, queue[i].n)'
      BY <1>4, <3>1, <3>2, <3>4
    <3>6. \A i \in 1..Len(tested) : Before(h, tested[i].n)'
      BY <1>4, <3>1, <3>3, <3>4
    <3> QED
      BY <1>4, <3>5, <3>6 DEF OrderedGame
  <2>6. ASSUME NEW h \in Game PROVE Own(h)'
    <3>1. Own(h)
      BY DEF IInv
    <3>2. CASE h # g
      BY <1>4, <2>1, <3>1, <3>2 DEF Own, Rising, RisingBetween
    <3>3. CASE h = g
      <4>1. c # Ping => Before(g, c.n)
        OBVIOUS
      <4>2. RisingBetween(pipe[g])'
        <5>1. ASSUME NEW i \in 1..Len(pipe'[g]), NEW j \in 1..Len(pipe'[g]), i < j,
                     pipe'[g][j] # Ping
              PROVE  pipe'[g][i].n < pipe'[g][j].n
          <6>1. i \in 1..Len(pipe[g]) /\ pipe'[g][i] = pipe[g][i]
            BY <2>1, <5>1
          <6>2. CASE j \in 1..Len(pipe[g])
            BY <2>1, <3>1, <3>3, <5>1, <6>1, <6>2 DEF Own, RisingBetween
          <6>3. CASE j = Len(pipe[g]) + 1
            BY <2>1, <4>1, <5>1, <6>1, <6>3 DEF Before
          <6> QED
            BY <2>1, <6>2, <6>3
        <5> QED
          BY <5>1, Zenon DEF RisingBetween
      <4>3. ASSUME NEW i \in 1..Len(pipe'[g]), pipe'[g][i] # Ping
            PROVE  /\ pipe'[g][i].to = <<g>>
                   /\ \A j \in 1..Len(ran[g]) : ran[g][j].n < pipe'[g][i].n
        <5>1. CASE i \in 1..Len(pipe[g])
          BY <2>1, <3>1, <3>3, <4>3, <5>1 DEF Own
        <5>2. CASE i = Len(pipe[g]) + 1
          BY <2>1, <2>2, <3>3, <4>1, <4>3, <5>2 DEF Before
        <5> QED
          BY <2>1, <5>1, <5>2
      <4> QED
        BY <1>4, <3>1, <3>3, <4>2, <4>3 DEF Own, Rising
    <3> QED
      BY <3>2, <3>3
  <2> QED
    BY <1>5, <1>6, <2>3, <2>4, <2>5, <2>6 DEF IInv, Ordered
<1> QED
  BY <1>2, <1>7, <1>8 DEF WriteCommand

LEMMA WritePoppedInv ==
  ASSUME IInv, WritePopped
  PROVE  IInv'
<1> DEFINE c == popped[1]
<1>1. /\ UNCHANGED <<queue, tested, peer, ran, pressed>>
      /\ server = "write" /\ popped' = <<>> /\ WriteCommand(c)
  BY DEF WritePopped, hook
<1>2. 1 \in 1..Len(popped) /\ c \in Command
  BY <1>1 DEF IInv, Typed
<1>3. /\ c.to = peer /\ c.n <= pressed
      /\ \A g \in Game : Before(g, c.n)
      /\ \A i \in 1..Len(queue) : c.n < queue[i].n
      /\ \A i \in 1..Len(tested) : c.n < tested[i].n
  BY <1>1, <1>2 DEF IInv, ForPeer, Serving, Ordered, Bounded, OrderedQueue, OrderedGame
<1>4. c \in Frame /\ Serving
  BY <1>1, <1>2 DEF Frame, Serving
<1> HIDE DEF c
<1> QED
  BY <1>1, <1>3, <1>4, WriteInv

LEMMA KeepAliveInv ==
  ASSUME IInv, KeepAlive
  PROVE  IInv'
<1>1. /\ UNCHANGED <<queue, popped, tested, peer, ran, pressed>>
      /\ server = "serve" /\ WriteCommand(Ping)
  BY DEF KeepAlive, hook
<1>2. popped = <<>>
  BY <1>1 DEF IInv, Typed
<1>3. Ping \in Frame /\ Serving
  BY <1>1 DEF Frame, Serving
<1> QED
  BY <1>1, <1>2, <1>3, WriteInv

-----------------------------------------------------------------------------
(* The games *)

LEMMA ExitGameInv ==
  ASSUME IInv, NEW g \in Game, ExitGame(g)
  PROVE  IInv'
<1>1. /\ UNCHANGED <<queue, popped, tested, server, peer, ran, pressed>>
      /\ pipe' = [pipe EXCEPT ![g] = <<>>]
  BY DEF ExitGame, meter
<1>2. pipe \in [Game -> Seq(Frame)]
  BY DEF IInv, Typed
<1>3. /\ pipe' \in [Game -> Seq(Frame)]
      /\ \A h \in Game : pipe'[h] = pipe[h] \/ pipe'[h] = <<>>
  BY <1>1, <1>2
<1>4. Typed'
  BY <1>1, <1>3 DEF IInv, Typed
<1>5. ForPeer' /\ OrderedQueue'
  BY <1>1 DEF IInv, ForPeer, Serving, Ordered, OrderedQueue, Rising
<1>6. Bounded'
  BY <1>1, <1>3 DEF IInv, Ordered, Bounded
<1>7. ASSUME NEW h \in Game PROVE OrderedGame(h)'
  <2>1. ASSUME NEW n, Before(h, n) PROVE Before(h, n)'
    BY <1>1, <1>3, <2>1 DEF Before
  <2> QED
    BY <1>1, <2>1 DEF IInv, Ordered, OrderedGame
<1>8. ASSUME NEW h \in Game PROVE Own(h)'
  BY <1>1, <1>3 DEF IInv, Own, Rising, RisingBetween
<1> QED
  BY <1>4, <1>5, <1>6, <1>7, <1>8 DEF IInv, Ordered

LEMMA ReadCommandInv ==
  ASSUME IInv, NEW g \in Game, NEW seen \in BOOLEAN, ReadCommand(g, seen)
  PROVE  IInv'
<1> DEFINE c == Head(pipe[g])
<1>1. /\ UNCHANGED <<queue, popped, tested, server, peer, pressed>>
      /\ pipe[g] # <<>> /\ pipe' = [pipe EXCEPT ![g] = Tail(@)]
      /\ ran' = ran \/ (c # Ping /\ ran' = [ran EXCEPT ![g] = Append(@, c)])
  BY Zenon DEF ReadCommand, meter
<1>2. /\ pipe \in [Game -> Seq(Frame)] /\ pipe[g] \in Seq(Frame)
      /\ ran \in [Game -> Seq(Command)] /\ ran[g] \in Seq(Command)
  BY DEF IInv, Typed
<1>3. /\ pipe' \in [Game -> Seq(Frame)] /\ \A h \in Game \ {g} : pipe'[h] = pipe[h]
      /\ Len(pipe'[g]) = Len(pipe[g]) - 1 /\ Len(pipe[g]) \in Nat
      /\ \A i \in 1..Len(pipe'[g]) :
           i + 1 \in 1..Len(pipe[g]) /\ pipe'[g][i] = pipe[g][i + 1]
  <2>1. Tail(pipe[g]) \in Seq(Frame)
    BY <1>1, <1>2
  <2>2. pipe'[g] = Tail(pipe[g])
    BY <1>1, <1>2
  <2>3. pipe' \in [Game -> Seq(Frame)]
    BY <1>1, <1>2, <2>1, Zenon
  <2> QED
    BY <1>1, <1>2, <2>2, <2>3
<1>4. 1 \in 1..Len(pipe[g]) /\ c = pipe[g][1] /\ c \in Frame
  BY <1>1, <1>2
<1> HIDE DEF c
<1>5. c # Ping => /\ c \in Command /\ c.to = <<g>> /\ c.n <= pressed
                  /\ \A j \in 1..Len(ran[g]) : ran[g][j].n < c.n
  BY <1>4, FrameIs DEF IInv, Own, Ordered, Bounded
<1>6. RisingBetween(pipe[g])'
  <2> SUFFICES ASSUME NEW i \in 1..Len(pipe'[g]), NEW j \in 1..Len(pipe'[g]),
                      i < j, pipe'[g][j] # Ping
               PROVE  pipe'[g][i].n < pipe'[g][j].n
    BY Zenon DEF RisingBetween
  <2>1. /\ i + 1 \in 1..Len(pipe[g]) /\ pipe'[g][i] = pipe[g][i + 1]
        /\ j + 1 \in 1..Len(pipe[g]) /\ pipe'[g][j] = pipe[g][j + 1]
    BY <1>3
  <2>2. i + 1 < j + 1
    OBVIOUS
  <2> QED
    BY <2>1, <2>2 DEF IInv, Own, RisingBetween
<1>7. ASSUME NEW i \in 1..Len(pipe'[g]), pipe'[g][i] # Ping
      PROVE  /\ pipe'[g][i].to = <<g>>
             /\ \A j \in 1..Len(ran[g]) : ran[g][j].n < pipe'[g][i].n
             /\ c.n < pipe'[g][i].n
  <2>1. i + 1 \in 1..Len(pipe[g]) /\ pipe'[g][i] = pipe[g][i + 1]
    BY <1>3
  <2>2. 1 < i + 1
    OBVIOUS
  <2>3. Own(g)
    BY DEF IInv
  <2>4. c.n < pipe'[g][i].n
    BY <1>4, <1>7, <2>1, <2>2, <2>3 DEF Own, RisingBetween
  <2> QED
    BY <1>7, <2>1, <2>3, <2>4 DEF Own
<1>8. CASE ran' = ran
  <2>1. Typed'
    BY <1>1, <1>3, <1>8 DEF IInv, Typed
  <2>2. ForPeer' /\ OrderedQueue'
    BY <1>1 DEF IInv, ForPeer, Serving, Ordered, OrderedQueue, Rising
  <2>3. Bounded'
    BY <1>1, <1>3, <1>8 DEF IInv, Ordered, Bounded
  <2>4. ASSUME NEW h \in Game PROVE OrderedGame(h)'
    <3>1. ASSUME NEW n, Before(h, n) PROVE Before(h, n)'
      <4>1. ASSUME NEW i \in 1..Len(pipe'[h]) PROVE pipe'[h][i].n < n
        BY <1>3, <3>1, <4>1 DEF Before
      <4> QED
        BY <1>8, <3>1, <4>1 DEF Before
    <3> QED
      BY <1>1, <3>1 DEF IInv, Ordered, OrderedGame
  <2>5. ASSUME NEW h \in Game PROVE Own(h)'
    <3>1. Own(h)
      BY DEF IInv
    <3>2. CASE h # g
      BY <1>3, <1>8, <3>1, <3>2 DEF Own, Rising, RisingBetween
    <3>3. CASE h = g
      <4>1. Rising(ran[g])' /\ \A i \in 1..Len(ran'[g]) : ran'[g][i].to = <<g>>
        BY <1>8, <3>1, <3>3 DEF Own, Rising
      <4> QED
        BY <1>6, <1>7, <1>8, <3>3, <4>1 DEF Own
    <3> QED
      BY <3>2, <3>3
  <2> QED
    BY <2>1, <2>2, <2>3, <2>4, <2>5 DEF IInv, Ordered
<1>9. CASE c # Ping /\ ran' = [ran EXCEPT ![g] = Append(@, c)]
  <2>1. /\ ran' \in [Game -> Seq(Command)] /\ \A h \in Game \ {g} : ran'[h] = ran[h]
        /\ Len(ran'[g]) = Len(ran[g]) + 1 /\ ran'[g][Len(ran[g]) + 1] = c
        /\ \A i \in 1..Len(ran[g]) : ran'[g][i] = ran[g][i]
        /\ Len(ran[g]) \in Nat
    <3>1. Append(ran[g], c) \in Seq(Command)
      BY <1>2, <1>5, <1>9
    <3>2. ran'[g] = Append(ran[g], c) /\ \A h \in Game \ {g} : ran'[h] = ran[h]
      BY <1>2, <1>9
    <3>3. ran' \in [Game -> Seq(Command)]
      BY <1>2, <1>9, <3>1, Zenon
    <3> QED
      BY <1>2, <3>2, <3>3
  <2>2. Typed'
    BY <1>1, <1>3, <2>1 DEF IInv, Typed
  <2>3. ForPeer' /\ OrderedQueue'
    BY <1>1 DEF IInv, ForPeer, Serving, Ordered, OrderedQueue, Rising
  <2>4. Bounded'
    <3>1. Bounded
      BY DEF IInv, Ordered
    <3>2. ASSUME NEW h \in Game, NEW i \in 1..Len(ran'[h]) PROVE ran'[h][i].n <= pressed
      <4>1. CASE h = g /\ i = Len(ran[g]) + 1
        BY <1>5, <1>9, <2>1, <4>1
      <4>2. CASE i \in 1..Len(ran[h]) /\ ran'[h][i] = ran[h][i]
        BY <3>1, <4>2 DEF Bounded
      <4> QED
        BY <2>1, <3>2, <4>1, <4>2
    <3>3. ASSUME NEW h \in Game, NEW i \in 1..Len(pipe'[h]) PROVE pipe'[h][i].n <= pressed
      <4>1. CASE h = g
        BY <1>3, <3>1, <3>3, <4>1 DEF Bounded
      <4>2. CASE h # g
        BY <1>3, <3>1, <3>3, <4>2 DEF Bounded
      <4> QED
        BY <4>1, <4>2
    <3> QED
      BY <1>1, <3>1, <3>2, <3>3 DEF Bounded
  <2>5. ASSUME NEW h \in Game PROVE OrderedGame(h)'
    <3>1. ASSUME NEW n, Before(h, n) PROVE Before(h, n)'
      <4>1. ASSUME NEW i \in 1..Len(ran'[h]) PROVE ran'[h][i].n < n
        BY <1>4, <2>1, <3>1, <4>1 DEF Before
      <4>2. ASSUME NEW i \in 1..Len(pipe'[h]) PROVE pipe'[h][i].n < n
        BY <1>3, <3>1, <4>2 DEF Before
      <4> QED
        BY <4>1, <4>2 DEF Before
    <3> QED
      BY <1>1, <3>1 DEF IInv, Ordered, OrderedGame
  <2>6. ASSUME NEW h \in Game PROVE Own(h)'
    <3>1. Own(h)
      BY DEF IInv
    <3>2. CASE h # g
      BY <1>3, <2>1, <3>1, <3>2 DEF Own, Rising, RisingBetween
    <3>3. CASE h = g
      <4>1. Rising(ran[g])'
        BY <1>5, <1>9, <2>1, <3>1, <3>3 DEF Own, Rising
      <4>2. \A i \in 1..Len(ran'[g]) : ran'[g][i].to = <<g>>
        BY <1>5, <1>9, <2>1, <3>1, <3>3 DEF Own
      <4>3. ASSUME NEW i \in 1..Len(pipe'[g]), pipe'[g][i] # Ping, NEW j \in 1..Len(ran'[g])
            PROVE  ran'[g][j].n < pipe'[g][i].n
        <5>1. CASE j = Len(ran[g]) + 1
          BY <1>7, <2>1, <4>3, <5>1
        <5>2. CASE j \in 1..Len(ran[g])
          BY <1>7, <2>1, <4>3, <5>2
        <5> QED
          BY <2>1, <5>1, <5>2
      <4> QED
        BY <1>6, <1>7, <3>3, <4>1, <4>2, <4>3 DEF Own
    <3> QED
      BY <3>2, <3>3
  <2> QED
    BY <2>2, <2>3, <2>4, <2>5, <2>6 DEF IInv, Ordered
<1> QED
  BY <1>1, <1>8, <1>9

LEMMA RestartMeterInv ==
  ASSUME IInv, RestartMeter
  PROVE  IInv'
<1>1. /\ UNCHANGED <<pipe, ran, pressed>>
      /\ queue' = <<>> /\ popped' = <<>> /\ tested' = <<>> /\ peer' = <<>>
      /\ server' = "create"
  BY DEF RestartMeter, hook
<1>2. Typed'
  BY <1>1 DEF IInv, Typed
<1>3. ForPeer' /\ OrderedQueue'
  BY <1>1 DEF ForPeer, Serving, OrderedQueue, Rising
<1>4. Bounded'
  BY <1>1 DEF IInv, Ordered, Bounded
<1>5. \A g \in Game : OrderedGame(g)'
  BY <1>1 DEF OrderedGame
<1>6. \A g \in Game : Own(g)'
  BY <1>1 DEF IInv, Own, Rising, RisingBetween
<1> QED
  BY <1>2, <1>3, <1>4, <1>5, <1>6 DEF IInv, Ordered

\* The command thread arms itself, or fails to.
Arms(g) == \E resolves, subclassed \in BOOLEAN : GameCmdInit(g, resolves, subclassed)

LEMMA ArmsCases ==
  ASSUME NEW g,
         \/ \E resolves \in BOOLEAN : GameCmdInit(g, resolves, TRUE)
         \/ \E resolves \in BOOLEAN : GameCmdInit(g, resolves, FALSE)
  PROVE  Arms(g)
BY Zenon DEF Arms

LEMMA InvStep ==
  ASSUME IInv, [Next]_vars
  PROVE  IInv'
<1>1. CASE CreateNamedPipe \/ Connect \/ ConnectTooLate \/ Announce \/ Disconnected
             \/ DisconnectNamedPipe \/ \E g \in Game : OpenPipe(g)
  <2>1. UNCHANGED frames
    BY <1>1 DEF frames, CreateNamedPipe, Connect, ConnectTooLate, Announce, Disconnected,
                DisconnectNamedPipe, OpenPipe, meter, hook
  <2> QED
    BY <1>1, <2>1, PassInv
<1>2. ASSUME NEW g \in Game,
             \/ StartGame(g) \/ ShowWindow(g) \/ DestroyWindow(g) \/ Arms(g)
             \/ ReadFails(g) \/ \E op \in Op : Debounced(g, op)
      PROVE  IInv'
  <2>1. UNCHANGED <<meter, peer, pipe, ran, pressed>>
    BY <1>2 DEF StartGame, ShowWindow, DestroyWindow, Arms, GameCmdInit, ReadFails,
                Debounced
  <2>2. UNCHANGED frames /\ UNCHANGED <<server, peer>>
    BY <2>1 DEF frames, meter
  <2> QED
    BY <2>2, PassInv
<1>3. CASE UNCHANGED vars
  <2>1. UNCHANGED frames /\ UNCHANGED <<server, peer>>
    BY <1>3 DEF frames, vars, meter, hook
  <2> QED
    BY <2>1, PassInv
<1>4. CASE (\E op \in Op : Test(op)) \/ Push
  BY <1>4, TestInv, PushInv
<1>5. CASE ClearQueue \/ PopCommand \/ WritePopped \/ KeepAlive
  BY <1>5, ClearQueueInv, PopCommandInv, WritePoppedInv, KeepAliveInv
<1>6. ASSUME NEW g \in Game, ExitGame(g) \/ ReadCommand(g, TRUE) \/ ReadCommand(g, FALSE)
      PROVE  IInv'
  BY <1>6, ExitGameInv, ReadCommandInv
<1>7. CASE RestartMeter
  BY <1>7, RestartMeterInv
<1> QED
  BY <1>1, <1>2, <1>3, <1>4, <1>5, <1>6, <1>7, ArmsCases, Zenon
     DEF Next, Server, CommandThread

\* A game runs no command that was queued for another game or for none, each at most once
\* and in the order of the keys: "Anything queued while disconnected is stale by now."
\* (HookCommand.cpp:100), over reconnections and restarts of the meter.
THEOREM FreshCorrect == Spec => []RunsFresh
<1>1. Init => IInv
  BY InitInv
<1>2. IInv /\ [Next]_vars => IInv'
  BY InvStep
<1>3. IInv => RunsFresh
  <2> SUFFICES ASSUME IInv, NEW g \in Game, NEW i \in DOMAIN ran[g]
               PROVE  /\ ran[g][i].to = <<g>>
                      /\ \A j \in 1..i - 1 : ran[g][j].n < ran[g][i].n
    BY DEF RunsFresh
  <2>1. ran[g] \in Seq(Command)
    BY DEF IInv, Typed
  <2>2. Own(g)
    BY DEF IInv
  <2> QED
    BY <2>1, <2>2 DEF Own, Rising
<1> QED
  BY <1>1, <1>2, <1>3, PTL DEF Spec

-----------------------------------------------------------------------------
(* Types *)

\* What TypeOK says besides the commands
Room == Len(queue) < kQueueSize /\ \A g \in Game : Len(pipe[g]) <= PipeCap
States ==
  /\ connected \in BOOLEAN
  /\ server \in {"create", "listen", "clear", "announce", "serve", "write", "broken", "close"}
  /\ game \in [Game -> {"later", "init", "open", "read", "gone"}]
  /\ window \in [Game -> [shown : BOOLEAN, hwnd : {"none", "live", "stale"}]]
  /\ senders \in [Game -> {"unknown", "found", "failed"}]
  /\ recent \in [Game -> SUBSET Op]

LEMMA RoomStep ==
  ASSUME IInv, Room, [Next]_vars
  PROVE  Room'
<1>1. /\ queue \in Seq(Command) /\ Len(queue) \in Nat /\ kQueueSize \in Nat \ {0, 1}
      /\ pipe \in [Game -> Seq(Frame)] /\ PipeCap \in Nat \ {0}
      /\ peer \in {<<>>} \cup {<<g>> : g \in Game}
  BY CommandAssumption DEF IInv, Typed
<1>2. CASE UNCHANGED <<queue, pipe>>
  BY <1>2 DEF Room
<1>3. CASE Push
  <2>1. UNCHANGED pipe
    BY <1>3 DEF Push
  <2>2. Len(queue') < kQueueSize
    BY <1>1, <1>3 DEF Push, Full, Room
  <2> QED
    BY <2>1, <2>2 DEF Room
<1>4. CASE ClearQueue \/ PopCommand \/ RestartMeter
  <2>1. UNCHANGED pipe /\ Len(queue') <= Len(queue)
    BY <1>1, <1>4 DEF ClearQueue, Cleared, PopCommand, RestartMeter
  <2>2. Len(queue') \in Nat
    BY <1>1, <1>4 DEF ClearQueue, Cleared, PopCommand, RestartMeter
  <2> QED
    BY <1>1, <2>1, <2>2 DEF Room
<1>5. ASSUME NEW c \in Frame, Serving, WriteCommand(c), UNCHANGED queue
      PROVE  Room'
  <2>1. PICK g \in Game : peer = <<g>>
    BY <1>1, <1>5 DEF IInv, ForPeer
  <2>2. CASE pipe' = pipe
    BY <1>5, <2>2 DEF Room
  <2>3. CASE Len(pipe[g]) < PipeCap /\ pipe' = [pipe EXCEPT ![g] = Append(@, c)]
    BY <1>1, <1>5, <2>3, AppendIs DEF Room
  <2> QED
    BY <1>5, <2>1, <2>2, <2>3 DEF WriteCommand
<1>6. CASE WritePopped \/ KeepAlive
  <2>1. CASE WritePopped
    <3>1. popped[1] \in Frame /\ Serving
      BY <2>1 DEF IInv, Typed, WritePopped, Serving, Frame
    <3> QED
      BY <1>5, <2>1, <3>1 DEF WritePopped
  <2>2. CASE KeepAlive
    BY <1>5, <2>2 DEF KeepAlive, Serving, Frame
  <2> QED
    BY <1>6, <2>1, <2>2
<1>7. ASSUME NEW g \in Game, ExitGame(g) \/ \E seen \in BOOLEAN : ReadCommand(g, seen)
      PROVE  Room'
  <2>1. UNCHANGED queue /\ \A h \in Game \ {g} : pipe'[h] = pipe[h]
    BY <1>1, <1>7 DEF ExitGame, ReadCommand, meter
  <2>2. Len(pipe'[g]) <= Len(pipe[g]) /\ Len(pipe'[g]) \in Nat /\ Len(pipe[g]) \in Nat
    <3>1. pipe[g] \in Seq(Frame)
      BY <1>1
    <3>2. CASE ExitGame(g)
      BY <1>1, <3>1, <3>2 DEF ExitGame
    <3>3. CASE \E seen \in BOOLEAN : ReadCommand(g, seen)
      <4>1. pipe[g] # <<>> /\ pipe' = [pipe EXCEPT ![g] = Tail(@)]
        BY <3>3, Zenon DEF ReadCommand
      <4>2. pipe'[g] = Tail(pipe[g])
        BY <1>1, <4>1
      <4> QED
        BY <3>1, <4>1, <4>2
    <3> QED
      BY <1>7, <3>2, <3>3
  <2> QED
    BY <1>1, <2>1, <2>2 DEF Room
<1>8. ASSUME NEW g \in Game,
             \/ OpenPipe(g) \/ StartGame(g) \/ ShowWindow(g) \/ DestroyWindow(g)
             \/ Arms(g) \/ ReadFails(g) \/ \E op \in Op : Debounced(g, op)
      PROVE  UNCHANGED <<queue, pipe>>
  BY <1>8 DEF OpenPipe, StartGame, ShowWindow, DestroyWindow, Arms, GameCmdInit, ReadFails,
              Debounced, meter
<1>9. CASE \/ CreateNamedPipe \/ Connect \/ ConnectTooLate \/ Announce \/ Disconnected
           \/ DisconnectNamedPipe \/ (\E op \in Op : Test(op)) \/ UNCHANGED vars
  <2>1. UNCHANGED <<queue, pipe>>
    BY <1>9 DEF CreateNamedPipe, Connect, ConnectTooLate, Announce, Disconnected,
                DisconnectNamedPipe, Test, vars, meter
  <2> QED
    BY <1>2, <2>1
<1> QED
  BY <1>2, <1>3, <1>4, <1>6, <1>7, <1>8, <1>9, ArmsCases, Zenon
     DEF Next, Server, CommandThread

LEMMA StatesStep ==
  ASSUME IInv, States, [Next]_vars
  PROVE  States'
<1> DEFINE Window == [shown : BOOLEAN, hwnd : {"none", "live", "stale"}]
           Place == {"later", "init", "open", "read", "gone"}
           Senders == {"unknown", "found", "failed"}
<1>1. /\ game \in [Game -> Place] /\ window \in [Game -> Window]
      /\ senders \in [Game -> Senders] /\ recent \in [Game -> SUBSET Op]
  BY DEF States
<1>2. CASE UNCHANGED hook /\ (UNCHANGED <<connected, server>> \/ Server \/ RestartMeter)
  <2>1. UNCHANGED <<game, window, senders, recent>>
    BY <1>2 DEF hook
  <2>2. connected' \in BOOLEAN
    BY <1>2 DEF States, Server, CreateNamedPipe, Connect, ConnectTooLate, ClearQueue, Announce,
                PopCommand, WritePopped, KeepAlive, Disconnected, DisconnectNamedPipe,
                RestartMeter
  <2>3. server' \in {"create", "listen", "clear", "announce", "serve", "write", "broken",
                     "close"}
    BY <1>2 DEF States, Server, CreateNamedPipe, Connect, ConnectTooLate, ClearQueue, Announce,
                PopCommand, WritePopped, WriteCommand, KeepAlive, Disconnected,
                DisconnectNamedPipe, RestartMeter
  <2> QED
    BY <2>1, <2>2, <2>3 DEF States
<1>3. ASSUME UNCHANGED meter, game' \in [Game -> Place], window' \in [Game -> Window],
             senders' \in [Game -> Senders], recent' \in [Game -> SUBSET Op]
      PROVE  States'
  BY <1>3 DEF States, meter
<1>4. ASSUME NEW g \in Game, StartGame(g) \/ ExitGame(g) \/ ReadFails(g) PROVE States'
  <2>1. [game EXCEPT ![g] = "init"] \in [Game -> Place]
        /\ [game EXCEPT ![g] = "gone"] \in [Game -> Place]
    BY <1>1
  <2>2. [window EXCEPT ![g] = [shown |-> FALSE, hwnd |-> "none"]] \in [Game -> Window]
    BY <1>1
  <2>3. [recent EXCEPT ![g] = {}] \in [Game -> SUBSET Op]
    BY <1>1
  <2> QED
    BY <1>1, <1>3, <1>4, <2>1, <2>2, <2>3, Zenon DEF StartGame, ExitGame, ReadFails
<1>5. ASSUME NEW g \in Game, OpenPipe(g) PROVE States'
  <2>1. [game EXCEPT ![g] = "init"] \in [Game -> Place]
        /\ [game EXCEPT ![g] = "read"] \in [Game -> Place]
    BY <1>1
  <2> QED
    BY <1>1, <1>3, <1>5, <2>1, Zenon DEF OpenPipe
<1>6. ASSUME NEW g \in Game, ShowWindow(g) \/ DestroyWindow(g) \/ Arms(g)
      PROVE  States'
  <2>1. UNCHANGED <<meter, recent>>
    BY <1>6 DEF ShowWindow, DestroyWindow, Arms, GameCmdInit
  <2>2. game' \in [Game -> Place]
    <3>1. game' = game \/ \E x \in Place : game' = [game EXCEPT ![g] = x]
      BY <1>6, Zenon DEF ShowWindow, DestroyWindow, Arms, GameCmdInit
    <3> QED
      BY <1>1, <3>1
  <2>3. senders' \in [Game -> Senders]
    <3>1. senders[g] \in Senders
      BY <1>1
    <3>2. senders' = senders \/ \E x \in Senders : senders' = [senders EXCEPT ![g] = x]
      BY <1>6, <3>1, Zenon DEF ShowWindow, DestroyWindow, Arms, GameCmdInit
    <3> QED
      BY <1>1, <3>2
  <2>4. window' \in [Game -> Window]
    <3> DEFINE w == window[g]
    <3>1. /\ [w EXCEPT !.shown = TRUE] \in Window
          /\ \A handle \in {"none", "live", "stale"} :
               /\ [w EXCEPT !.hwnd = handle] \in Window
               /\ [shown |-> FALSE, hwnd |-> handle] \in Window
      BY <1>1
    <3>2. \A x \in Window : [window EXCEPT ![g] = x] \in [Game -> Window]
      BY <1>1
    <3>3. \/ window' = [window EXCEPT ![g] = [w EXCEPT !.shown = TRUE]]
          \/ \E handle \in {"none", "live", "stale"} :
               \/ window' = [window EXCEPT ![g] = [w EXCEPT !.hwnd = handle]]
               \/ window' = [window EXCEPT ![g] = [shown |-> FALSE, hwnd |-> handle]]
      BY <1>6, Zenon DEF ShowWindow, DestroyWindow, Arms, GameCmdInit
    <3>4. \E x \in Window : window' = [window EXCEPT ![g] = x]
      <4> HIDE DEF w, Window
      <4> QED
        BY <3>1, <3>3, Zenon
    <3> QED
      BY <3>2, <3>4, Zenon
  <2> QED
    BY <1>1, <1>3, <2>1, <2>2, <2>3, <2>4
<1>7. ASSUME NEW g \in Game, NEW seen \in BOOLEAN, ReadCommand(g, seen) PROVE States'
  <2>1. UNCHANGED <<meter, game, window, senders>>
    BY <1>7 DEF ReadCommand
  <2>2. \/ recent' = recent
        \/ recent' = [recent EXCEPT ![g] = @ \cup {Head(pipe[g]).op}] /\ Head(pipe[g]) # Ping
    BY <1>7, Zenon DEF ReadCommand
  <2>3. Head(pipe[g]) # Ping => Head(pipe[g]).op \in Op
    <3>1. pipe[g] \in Seq(Frame) /\ pipe[g] # <<>>
      BY <1>7 DEF IInv, Typed, ReadCommand
    <3>2. Head(pipe[g]) \in Frame
      BY <3>1
    <3> QED
      BY <3>2 DEF Frame, Command
  <2>4. recent' \in [Game -> SUBSET Op]
    BY <1>1, <2>2, <2>3
  <2> QED
    BY <1>1, <1>3, <2>1, <2>4
<1>8. ASSUME NEW g \in Game, NEW op \in Op, Debounced(g, op) PROVE States'
  <2>1. UNCHANGED <<meter, game, window, senders>> /\ recent' = [recent EXCEPT ![g] = @ \ {op}]
    BY <1>8, Zenon DEF Debounced
  <2>2. recent' \in [Game -> SUBSET Op]
    BY <1>1, <2>1
  <2> QED
    BY <1>1, <1>3, <2>1, <2>2
<1>9. ASSUME (\E op \in Op : Test(op)) \/ Push \/ Server \/ RestartMeter \/ UNCHANGED vars
      PROVE  States'
  <2>1. UNCHANGED hook
    BY <1>9 DEF Test, Push, Server, CreateNamedPipe, Connect, ConnectTooLate, ClearQueue,
                Announce, PopCommand, WritePopped, KeepAlive, Disconnected,
                DisconnectNamedPipe, RestartMeter, vars
  <2>2. UNCHANGED <<connected, server>> \/ Server \/ RestartMeter
    BY <1>9 DEF Test, Push, vars, meter
  <2> QED
    BY <1>2, <2>1, <2>2
<1> QED
  BY <1>4, <1>5, <1>6, <1>7, <1>8, <1>9, ArmsCases, Zenon DEF Next, CommandThread

\* The queue always keeps a slot free, a pipe never holds more than it buffers, the server has
\* taken a command exactly while it writes one, and every game and window is in a known state.
THEOREM TypeCorrect == Spec => []TypeOK
<1> DEFINE All == IInv /\ Room /\ States
<1>1. Init => All
  <2> SUFFICES ASSUME Init PROVE Room /\ States
    BY InitInv
  <2>1. Room
    BY CommandAssumption DEF Init, Room
  <2>2. States
    BY DEF Init, States
  <2> QED
    BY <2>1, <2>2
<1>2. All /\ [Next]_vars => All'
  BY InvStep, RoomStep, StatesStep
<1>3. All => TypeOK
  <2> SUFFICES ASSUME All PROVE TypeOK
    OBVIOUS
  <2>1. \A g \in Game : /\ pipe[g] \in Seq(Command \cup {Ping}) /\ Len(pipe[g]) <= PipeCap
                        /\ ran[g] \in Seq(Command)
    BY DEF IInv, Typed, Room, Frame
  <2>2. \A g \in Game : /\ game[g] \in {"later", "init", "open", "read", "gone"}
                        /\ window[g].hwnd \in {"none", "live", "stale"}
                        /\ senders[g] \in {"unknown", "found", "failed"}
                        /\ recent[g] \subseteq Op
    BY DEF States
  <2>3. peer = <<>> \/ peer[1] \in Game
    BY DEF IInv, Typed
  <2> QED
    BY <2>1, <2>2, <2>3 DEF IInv, Typed, Room, States, TypeOK
<1> QED
  BY <1>1, <1>2, <1>3, PTL DEF Spec
=============================================================================
