------------------------------ MODULE PlainFile ------------------------------
(***************************************************************************)
(* Files and the handles a process reads them through, as the operating    *)
(* system promises them: a handle has a position of its own, a read        *)
(* returns the bytes there and moves on, and a seek moves it.  `out' is    *)
(* what the last call read.                                                *)
(***************************************************************************)
EXTENDS Integers, Sequences

CONSTANTS
  Handle, File,
  Contents,  \* what each file holds
  Opens,     \* bounds: <<file, access>> of an open,
  Reads,     \*   lengths of reads,
  Moves      \*   and <<method, distance>> of seeks

VARIABLES open, out

plainVars == <<open, out>>

Closed == [file |-> "closed"]
Failed == <<"failed">>

IsOpen(h) == open[h] # Closed
Min2(a, b) == IF a < b THEN a ELSE b

\* The n bytes of f from a position on, or what there is of them
Bytes(f, from, n) == SubSeq(Contents[f], from + 1, Min2(from + n, Len(Contents[f])))

Calls ==
  [op : {"read"}, n : Reads] \cup [op : {"readAt"}, n : Reads] \cup
  [op : {"seek"}, to : Moves] \cup [op : {"write"}]

\* The result of a call on h with its position at pos: what is read, and the position
\* after it.  A read with an offset, here zero, moves the position of a handle opened
\* without FILE_FLAG_OVERLAPPED; one opened with it has no position to read at or seek
\* from.  A write is refused, as all handles are opened for reading.
Result(h, pos, c) ==
  LET f == open[h].file
      move == open[h].access # "overlapped"
  IN CASE c.op = "read" ->
            LET got == IF move THEN Bytes(f, pos, c.n) ELSE Failed
            IN [out |-> got, pos |-> IF move THEN pos + Len(got) ELSE pos]
       [] c.op = "readAt" ->
            LET got == Bytes(f, 0, c.n)
            IN [out |-> got, pos |-> IF move THEN Len(got) ELSE pos]
       [] c.op = "seek" /\ move ->
            LET base == [begin |-> 0, current |-> pos, end |-> Len(Contents[f])]
                p == IF c.to[1] \in DOMAIN base THEN base[c.to[1]] + c.to[2] ELSE -1
            IN [out |-> IF p < 0 THEN Failed ELSE <<>>, pos |-> IF p < 0 THEN pos ELSE p]
       [] OTHER -> [out |-> Failed, pos |-> pos]

\* The call, and a read that the disk fails
Call(h, pos, c) ==
  LET r == Result(h, pos, c)
  IN /\ IsOpen(h)
     /\ \/ out' = r.out /\ open' = [open EXCEPT ![h].pos = r.pos]
        \/ c.op = "read" /\ out' = Failed /\ open' = [open EXCEPT ![h].pos = pos]

Open(h, f, a) ==
  /\ out' = <<>> /\ ~IsOpen(h)
  /\ open' = [open EXCEPT ![h] = [file |-> f, access |-> a, pos |-> 0]]

Close(h) ==
  /\ out' = <<>> /\ IsOpen(h)
  /\ open' = [open EXCEPT ![h] = Closed]

\* The caller has its answer.
Taken == out' = <<>> /\ UNCHANGED open

PlainInit ==
  /\ open = [h \in Handle |-> Closed]
  /\ out = <<>>

PlainNext ==
  \/ Taken
  \/ \E h \in Handle :
       \/ Close(h)
       \/ \E o \in Opens : Open(h, o[1], o[2])
       \/ IsOpen(h) /\ \E c \in Calls : Call(h, open[h].pos, c)

Plain == PlainInit /\ [][PlainNext]_plainVars
==============================================================================
