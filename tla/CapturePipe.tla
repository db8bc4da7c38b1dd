---------------------------- MODULE CapturePipe ----------------------------
(***************************************************************************)
(* From the game to the meter: the game's threads push frames, the writer  *)
(* thread of the hook drains them into a named pipe in batches, and the    *)
(* pipe thread of the meter reads records and hands the frames on.  Either *)
(* process may stop at any time and be started again.                      *)
(*                                                                         *)
(* The frame queue is FrameFifo, which FrameQueue implements.  A frame is  *)
(* its number, as a sequence of one; the pings the writer pushes itself    *)
(* are all <<0>>.  In the pipe a record is in two halves, length and body, *)
(* and a write may end, or be cut off, after any of them.                  *)
(***************************************************************************)
EXTENDS Integers, Sequences, SequencesExt, FrameCost

CONSTANTS
  MaxSent,   \* bound on the frames the game sends
  QueueCap,  \* bytes of the frame queue
  BatchCap,  \* bytes of a batch
  MaxRecord, \* bytes of the longest record
  PipeCap,   \* halves the pipe buffers
  MaxFaults  \* bound on the times a process stops

ASSUME BoundsAssumption ==
  /\ {MaxSent, QueueCap, BatchCap, MaxRecord, PipeCap, MaxFaults} \subseteq Nat
  /\ QueueCap > 0 /\ MaxRecord >= 5 /\ BatchCap >= MaxRecord

Ping == <<0>>
Frame == {<<n>> : n \in 0..MaxSent}
Half == [frame : Frame, part : {"length", "body"}]
Garbage == <<>>

VARIABLES
  sent,                    \* frames the game has sent
  queue, dropped, popped,  \* g_frameQueue
  writer,                  \* where WriterThread is
  batch, off,              \* the records of the batch, and its halves written
  handle,                  \* g_hPipe: "none", on the meter's instance, or "dead"
  pipe,                    \* halves in the pipe, oldest first
  link,                    \* the meter's pipe instance
  reader,                  \* what PipeServerThread waits for
  length,                  \* the half it took for a length
  connected,               \* g_connected of the meter
  handled,                 \* what HandleMessage was given, pings left out
  gameUp, meterUp, faults

game == <<sent, queue, dropped, popped, writer, batch, off, handle, gameUp>>
meter == <<reader, length, connected, handled, meterUp>>
vars == <<game, meter, pipe, link, faults>>

Fifo == INSTANCE FrameFifo WITH Capacity <- QueueCap, MaxDrops <- 0

Init ==
  /\ sent = 0 /\ queue = <<>> /\ dropped = 0 /\ popped = <<>>
  /\ writer = "loop" /\ batch = <<>> /\ off = 0 /\ handle = "none"
  /\ pipe = <<>> /\ link = "none"
  /\ reader = "create" /\ length = Garbage /\ connected = FALSE /\ handled = <<>>
  /\ gameUp = TRUE /\ meterUp = TRUE /\ faults = 0

-----------------------------------------------------------------------------
(* The hook *)

\* EmitFrame, on the game's network threads
Send ==
  /\ gameUp /\ sent < MaxSent
  /\ sent' = sent + 1
  /\ Fifo!Push(<<sent + 1>>) \/ Fifo!Drop(<<sent + 1>>)
  /\ UNCHANGED <<writer, batch, off, handle, gameUp, meter, pipe, link, faults>>

\* One client at a time: the open fails unless an instance is listening.
ConnectPipe ==
  /\ gameUp /\ writer = "loop" /\ handle = "none" /\ link = "listen"
  /\ handle' = "live" /\ link' = "opened"
  /\ UNCHANGED <<sent, queue, dropped, popped, writer, batch, off, gameUp, meter, pipe, faults>>

\* What the writer does next starts a batch; with an empty queue it sleeps and
\* looks again.
StartBatch ==
  /\ gameUp /\ writer = "loop" /\ handle # "none"
  /\ writer' = "fill" /\ batch' = <<>> /\ off' = 0
  /\ UNCHANGED <<sent, handle, gameUp, meter, pipe, link, faults>>

\* Slip: no ping is pushed.
PushNoPing == StartBatch /\ UNCHANGED <<queue, dropped, popped>>

\* A second or more after the last one
PushPing == StartBatch /\ (Fifo!Push(Ping) \/ Fifo!Drop(Ping))

SkipPing == StartBatch /\ queue # <<>> /\ UNCHANGED <<queue, dropped, popped>>

\* Slip: the room is tested after the record is popped.
FillLate ==
  /\ gameUp /\ writer = "fill"
  /\ Fifo!Pop(QueueCap)
  /\ IF popped' # <<>> /\ BatchCap - Cost(batch) >= MaxRecord
     THEN batch' = Append(batch, popped') /\ UNCHANGED writer
     ELSE writer' = (IF batch = <<>> THEN "loop" ELSE "write") /\ UNCHANGED batch
  /\ UNCHANGED <<sent, off, handle, gameUp, meter, pipe, link, faults>>

\* PopRecord until the queue is empty or a longest record might not fit.
Fill ==
  LET room == BatchCap - Cost(batch)
  IN /\ gameUp /\ writer = "fill"
     /\ IF room >= MaxRecord THEN Fifo!Pop(room) ELSE UNCHANGED <<queue, dropped, popped>>
     /\ IF room >= MaxRecord /\ popped' # <<>>
        THEN batch' = Append(batch, popped') /\ UNCHANGED writer
        ELSE writer' = (IF batch = <<>> THEN "loop" ELSE "write") /\ UNCHANGED batch
     /\ UNCHANGED <<sent, off, handle, gameUp, meter, pipe, link, faults>>

\* WriteAll: the next half of the batch goes into the pipe.
WriteHalf ==
  /\ gameUp /\ writer = "write" /\ handle = "live" /\ Len(pipe) < PipeCap
  /\ off < 2 * Len(batch)
  /\ pipe' = Append(pipe, [frame |-> batch[off \div 2 + 1],
                           part |-> IF off % 2 = 0 THEN "length" ELSE "body"])
  /\ off' = off + 1
  /\ UNCHANGED <<sent, queue, dropped, popped, writer, batch, handle, gameUp, meter, link, faults>>

WriteDone ==
  /\ gameUp /\ writer = "write" /\ off = 2 * Len(batch)
  /\ writer' = "loop" /\ batch' = <<>> /\ off' = 0
  /\ UNCHANGED <<sent, queue, dropped, popped, handle, gameUp, meter, pipe, link, faults>>

\* Slip: the writer reconnects and goes on with the batch where it stood.
WriteFailsResume ==
  /\ gameUp /\ writer = "write" /\ handle = "dead" /\ link = "listen"
  /\ handle' = "live" /\ link' = "opened"
  /\ UNCHANGED <<sent, queue, dropped, popped, writer, batch, off, gameUp, meter, pipe, faults>>

\* Slip: it reconnects and writes the batch again from its start.
WriteFailsRetry ==
  /\ gameUp /\ writer = "write" /\ handle = "dead" /\ link = "listen"
  /\ handle' = "live" /\ link' = "opened" /\ off' = 0
  /\ UNCHANGED <<sent, queue, dropped, popped, writer, batch, gameUp, meter, pipe, faults>>

\* WriteFile fails on a dead handle: it is closed, and the batch lost with it.
WriteFails ==
  /\ gameUp /\ writer = "write" /\ handle = "dead"
  /\ handle' = "none" /\ writer' = "loop" /\ batch' = <<>> /\ off' = 0
  /\ UNCHANGED <<sent, queue, dropped, popped, gameUp, meter, pipe, link, faults>>

-----------------------------------------------------------------------------
(* The meter *)

\* CreateNamedPipe
CreateInstance ==
  /\ meterUp /\ reader = "create"
  /\ reader' = "accept" /\ link' = "listen"
  /\ UNCHANGED <<game, pipe, length, connected, handled, meterUp, faults>>

\* CloseHandle on the instance: what the pipe still holds is lost, and a client
\* that is there finds out when it next writes.
CloseInstance ==
  /\ reader' = "create" /\ length' = Garbage /\ connected' = FALSE
  /\ link' = "none" /\ pipe' = <<>>
  /\ handle' = IF handle = "live" THEN "dead" ELSE handle
  /\ UNCHANGED <<sent, queue, dropped, popped, writer, batch, off, gameUp, handled>>

\* ConnectNamedPipe: the client is there, or was there while it waited.
Accept ==
  /\ meterUp /\ reader = "accept" /\ link \in {"opened", "closed"}
  /\ reader' = "length" /\ connected' = TRUE
  /\ UNCHANGED <<game, pipe, link, length, handled, meterUp, faults>>

\* The client came and went before ConnectNamedPipe was called.
AcceptFails ==
  /\ meterUp /\ reader = "accept" /\ link = "closed"
  /\ CloseInstance
  /\ UNCHANGED <<meterUp, faults>>

\* ReadAll of four bytes
ReadLength ==
  /\ meterUp /\ reader = "length" /\ pipe # <<>>
  /\ reader' = "body" /\ length' = Head(pipe) /\ pipe' = Tail(pipe)
  /\ UNCHANGED <<game, link, connected, handled, meterUp, faults>>

\* ReadAll of as many bytes as the length says, and HandleMessage
ReadBody ==
  LET body == Head(pipe)
      whole == length.part = "length" /\ body = [length EXCEPT !.part = "body"]
      message == IF whole THEN body.frame ELSE Garbage
  IN /\ meterUp /\ reader = "body" /\ pipe # <<>>
     /\ handled' = IF message = Ping THEN handled ELSE Append(handled, message)
     /\ reader' = "length" /\ length' = Garbage /\ pipe' = Tail(pipe)
     /\ UNCHANGED <<game, link, connected, meterUp, faults>>

\* The client has closed and all of its bytes are read, or the length is out of
\* range, as only bytes of a frame can be.
NothingToRead ==
  /\ reader \in {"length", "body"}
  /\ \/ pipe = <<>> /\ link = "closed"
     \/ reader = "body" /\ length.part = "body"

\* Slip: g_connected is left set.
ReadFailsConnected ==
  /\ meterUp /\ NothingToRead
  /\ reader' = "create" /\ length' = Garbage /\ link' = "none" /\ pipe' = <<>>
  /\ handle' = IF handle = "live" THEN "dead" ELSE handle
  /\ UNCHANGED <<sent, queue, dropped, popped, writer, batch, off, gameUp, handled,
                 connected, meterUp, faults>>

ReadFails ==
  /\ meterUp /\ NothingToRead
  /\ CloseInstance
  /\ UNCHANGED <<meterUp, faults>>

-----------------------------------------------------------------------------
(* Either process stops, whatever it is doing, and is started again. *)

\* The handle closes with the game; what it wrote can still be read.
GameStops ==
  /\ gameUp /\ faults < MaxFaults
  /\ gameUp' = FALSE /\ faults' = faults + 1
  /\ queue' = <<>> /\ dropped' = 0 /\ popped' = <<>>
  /\ writer' = "loop" /\ batch' = <<>> /\ off' = 0 /\ handle' = "none"
  /\ link' = IF handle = "live" THEN "closed" ELSE link
  /\ UNCHANGED <<sent, meter, pipe>>

GameStarts ==
  /\ ~gameUp /\ gameUp' = TRUE
  /\ UNCHANGED <<sent, queue, dropped, popped, writer, batch, off, handle,
                 meter, pipe, link, faults>>

MeterStops ==
  /\ meterUp /\ faults < MaxFaults
  /\ meterUp' = FALSE /\ faults' = faults + 1
  /\ CloseInstance

MeterStarts ==
  /\ ~meterUp /\ meterUp' = TRUE
  /\ UNCHANGED <<game, reader, length, connected, handled, pipe, link, faults>>

-----------------------------------------------------------------------------
Writer ==
  ConnectPipe \/ PushPing \/ SkipPing \/ Fill \/ WriteHalf \/ WriteDone \/ WriteFails

Reader ==
  CreateInstance \/ Accept \/ AcceptFails \/ ReadLength \/ ReadBody \/ ReadFails

Next ==
  \/ Send \/ Writer \/ Reader
  \/ GameStops \/ GameStarts \/ MeterStops \/ MeterStarts

\* Each thread goes on while it can.  Nobody has to send a frame, or to start a
\* process again.
Spec == Init /\ [][Next]_vars /\ WF_vars(Writer) /\ WF_vars(Reader)

-----------------------------------------------------------------------------
\* The states of the pieces fit each other: a client is connected exactly while
\* PipeServerThread reads (g_connected), a live handle has an instance under it,
\* and a batch never outgrows its buffer.
TypeOK ==
  /\ sent \in 0..MaxSent /\ faults \in 0..MaxFaults
  /\ queue \in Seq(Frame) /\ Cost(queue) < QueueCap
  /\ writer \in {"loop", "fill", "write"} /\ handle \in {"none", "live", "dead"}
  /\ batch \in Seq(Frame) /\ Cost(batch) <= BatchCap
  /\ off \in 0..(2 * Len(batch))
  /\ pipe \in Seq(Half) /\ Len(pipe) <= PipeCap
  /\ link \in {"none", "listen", "opened", "closed"}
  /\ reader \in {"create", "accept", "length", "body"}
  /\ length \in Half \cup {Garbage} /\ handled \in Seq(Frame \cup {Garbage})
  /\ connected = (reader \in {"length", "body"})
  /\ (link = "none") = (reader = "create")
  /\ (link = "opened") = (handle = "live")

\* stream.h:5, "a partial frame would desync the meter's reader for every packet
\* after it": wherever a connection broke, and whatever a batch had written by
\* then, HandleMessage is only ever given a frame the game sent, whole.
WholeFrames == Garbage \notin Range(handled)

\* No packet reaches the meter twice or before an earlier one, though frames are
\* lost with a batch, with the queue and with the pipe: a batch cut off is not
\* written again.
InOrder ==
  \A i, j \in DOMAIN handled :
    i < j /\ Garbage \notin {handled[i], handled[j]} => handled[i][1] < handled[j][1]

\* While neither process stops, a frame that found room in the queue reaches
\* HandleMessage: WriterThread loses none between the queue, the batch and the pipe.
NothingLostInPeace ==
  \A n \in 1..MaxSent :
    (faults = 0 /\ <<n>> \in Range(queue)) ~> (faults > 0 \/ <<n>> \in Range(handled))

\* Once both processes stay up they are connected for good, even if the game sends
\* nothing more: the hook finds its handle dead by writing, and the ping gives it
\* something to write.
Reconnects == <>[](gameUp /\ meterUp) => <>[](connected /\ handle = "live")
====
