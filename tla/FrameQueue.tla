----------------------------- MODULE FrameQueue -----------------------------
(***************************************************************************)
(* ByteQueue: the ring of bytes between the game's network threads, which  *)
(* push frames, and the writer thread of the hook, which pops records, a   *)
(* four-byte little-endian length and the frame.  Both run under one       *)
(* critical section, so each is a step.                                    *)
(*                                                                         *)
(* A byte is a digit in base Radix (256 in the code).  Stale bytes stay in *)
(* the ring, as they do there, and are what a misread length would be read *)
(* from.                                                                   *)
(***************************************************************************)
EXTENDS Integers, Sequences, SequencesExt

CONSTANTS
  Cap,       \* size of the ring
  Radix,     \* number of values of a byte
  MaxFrame,  \* 65535: longest frame PushFrame takes
  Frame,     \* frames the game may send
  Room,      \* what may be left of the writer's batch
  MaxDrops   \* the count of dropped frames stops here

Byte == 0..(Radix - 1)

ASSUME CapAssumption == Cap \in Nat \ {0}
ASSUME RadixAssumption ==
  /\ Radix \in Nat \ {0, 1}
  /\ MaxFrame \in Nat \ {0} /\ MaxFrame < Radix * (Radix * (Radix * Radix))
ASSUME FrameAssumption == Frame \subseteq Seq(Byte)
ASSUME RoomAssumption == Room \subseteq Nat

VARIABLES
  buf,      \* _buf
  head,     \* _head, next byte written
  tail,     \* _tail, oldest byte kept
  dropped,  \* _dropped
  popped    \* the frame the last PopRecord gave out, none if it returned 0

vars == <<buf, head, tail, dropped, popped>>

Init ==
  /\ buf = [i \in 0..(Cap - 1) |-> 0]
  /\ head = 0 /\ tail = 0 /\ dropped = 0
  /\ popped = <<>>

-----------------------------------------------------------------------------
Used == (head + Cap - tail) % Cap

\* Slip: every byte of the ring is taken.
HasRoomFull(len) == Used + len + 4 <= Cap

HasRoom(len) == Used + len + 4 <= Cap - 1

\* the length, low digit first
Header(len) ==
  LET high(n) == n \div Radix
  IN <<len % Radix, high(len) % Radix, high(high(len)) % Radix, high(high(high(len))) % Radix>>

\* The ring after data is written at byte `at`.
WriteRaw(data, at) ==
  [i \in DOMAIN buf |->
     LET k == ((i + Cap - at) % Cap) + 1
     IN IF k \in DOMAIN data THEN data[k] ELSE buf[i]]

ReadU32(at) ==
  LET b(k) == buf[(at + k) % Cap]
  IN b(0) + Radix * (b(1) + Radix * (b(2) + Radix * b(3)))

ReadRaw(at, len) == [k \in 1..len |-> buf[(at + k - 1) % Cap]]

-----------------------------------------------------------------------------
\* A frame that is empty or too long is refused without being counted.
PushFrame(f) ==
  /\ Len(f) \in 1..MaxFrame
  /\ IF HasRoom(Len(f))
     THEN /\ buf' = WriteRaw(Header(Len(f)) \o f, head)
          /\ head' = (head + Len(f) + 4) % Cap
          /\ UNCHANGED dropped
     ELSE /\ dropped' = IF dropped < MaxDrops THEN dropped + 1 ELSE dropped
          /\ UNCHANGED <<buf, head>>
  /\ UNCHANGED <<tail, popped>>

\* Slip: tail runs off the end of the ring.
PopRecordNoWrap(maxLen) ==
  LET len == ReadU32(tail)
      whole == Used >= 4 /\ len > 0 /\ len + 4 <= Used /\ len + 4 <= maxLen
  IN /\ popped' = IF whole THEN ReadRaw((tail + 4) % Cap, len) ELSE <<>>
     /\ tail' = IF whole THEN tail + len + 4 ELSE tail
     /\ UNCHANGED <<buf, head, dropped>>

PopRecord(maxLen) ==
  LET len == ReadU32(tail)
      whole == Used >= 4 /\ len > 0 /\ len + 4 <= Used /\ len + 4 <= maxLen
  IN /\ popped' = IF whole THEN ReadRaw((tail + 4) % Cap, len) ELSE <<>>
     /\ tail' = IF whole THEN (tail + len + 4) % Cap ELSE tail
     /\ UNCHANGED <<buf, head, dropped>>

Next ==
  \/ \E f \in Frame : PushFrame(f)
  \/ \E maxLen \in Room : PopRecord(maxLen)

Spec == Init /\ [][Next]_vars

-----------------------------------------------------------------------------
\* The ring is well formed.
TypeOK ==
  /\ buf \in [0..(Cap - 1) -> Byte]
  /\ head \in 0..(Cap - 1) /\ tail \in 0..(Cap - 1)
  /\ dropped \in Nat /\ popped \in Seq(Byte)

\* The record that begins n bytes before head
At(n) == (head + Cap - n) % Cap
LenAt(n) == ReadU32(At(n))
WholeAt(n) == n >= 4 /\ LenAt(n) > 0 /\ LenAt(n) + 4 <= n
FrameAt(n) == ReadRaw((At(n) + 4) % Cap, LenAt(n))

\* The frames kept, oldest first: rec[n] are those of the last n bytes before head,
\* up to the first record that is not whole there.
Records ==
  LET rec[n \in 0..Cap] ==
        IF WholeAt(n) THEN <<FrameAt(n)>> \o rec[n - LenAt(n) - 4] ELSE <<>>
  IN rec[Used]

Fifo == INSTANCE FrameFifo WITH queue <- Records, Capacity <- Cap

\* stream.h:3, "Records are pushed and popped whole": the ring is a queue of whole
\* frames, each given out once, in order and as it was pushed, wherever head and
\* tail stand; a frame is dropped only for want of room, and never in part.
ImplementsFifo == Fifo!Spec
====
