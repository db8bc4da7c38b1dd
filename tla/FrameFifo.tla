----------------------------- MODULE FrameFifo -----------------------------
(***************************************************************************)
(* What the capture hook promises of its frame queue: a first-in first-out *)
(* queue of whole frames with room for a given number of bytes, each frame *)
(* costing four more than its length.  A frame that has no room is dropped *)
(* as a whole and counted.                                                 *)
(***************************************************************************)
EXTENDS Integers, Sequences, FrameCost

CONSTANTS
  Frame,     \* the frames the game may send, sequences of bytes
  Capacity,  \* bytes in the buffer; one of them stays free
  MaxDrops   \* the count of dropped frames stops here

VARIABLES queue, dropped, popped

vars == <<queue, dropped, popped>>

HasRoom(f) == Cost(queue) + Len(f) + 4 <= Capacity - 1

Init == queue = <<>> /\ dropped = 0 /\ popped = <<>>

Push(f) ==
  /\ HasRoom(f)
  /\ queue' = Append(queue, f)
  /\ UNCHANGED <<dropped, popped>>

Drop(f) ==
  /\ ~HasRoom(f)
  /\ dropped' = IF dropped < MaxDrops THEN dropped + 1 ELSE dropped
  /\ UNCHANGED <<queue, popped>>

\* The caller gets the oldest frame, if what it can take is large enough.
Pop(room) ==
  /\ IF queue # <<>> /\ Len(Head(queue)) + 4 <= room
     THEN popped' = Head(queue) /\ queue' = Tail(queue)
     ELSE popped' = <<>> /\ UNCHANGED queue
  /\ UNCHANGED dropped

Next ==
  \/ \E f \in Frame : Push(f) \/ Drop(f)
  \/ \E room \in 0..Capacity : Pop(room)

Spec == Init /\ [][Next]_vars
====
