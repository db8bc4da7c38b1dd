----------------------------- MODULE BlockCache -----------------------------
(***************************************************************************)
(* The block cache of the hook DLL.  Reads of the game's archives are      *)
(* served from blocks kept in memory, and the cache keeps the position of  *)
(* a handle it serves while the real one stays where the last fetch left   *)
(* it.  Every hooked call works under one lock, leaves it, and then calls  *)
(* the original if it could not answer; threads interleave between the     *)
(* two.                                                                    *)
(*                                                                         *)
(* The game is external: any thread may open, close, read, seek or write   *)
(* any handle, but it does not close a handle another thread is using.     *)
(* Its files do not change: what it writes elsewhere never meets the cache. *)
(***************************************************************************)
EXTENDS Integers, Sequences, Functions, FiniteSets

CONSTANTS
  Handle, File, Contents, Opens, Reads, Moves,
  BadMax,     \* a fetch of a block below may fail
  Old,        \* a handle of an earlier time, closed unseen
  LeftMax,    \* entries left by handles closed unseen, at a time
  Threads,    \* threads of the game that call at the same time
  Archive,    \* files with an archive's extension
  KBlock,     \* bytes in a block
  MaxFiles,   \* kMaxFiles
  HandleSlots, Probe, HSlot, \* the table of handles, and the hash into it
  Sets        \* kSets

ASSUME CacheAssumption ==
  /\ KBlock \in Nat \ {0} /\ MaxFiles \in Nat /\ Sets \in Nat \ {0} /\ LeftMax \in Nat
  /\ HandleSlots \in Nat \ {0} /\ Probe \in 1..HandleSlots
  /\ HSlot \in [Handle -> 0..HandleSlots - 1]
  /\ Archive \subseteq File

\* What the game holds in its files and asks of them
ASSUME GameAssumption ==
  /\ \A f \in File : Contents[f] \in Seq(Range(Contents[f]))
  /\ Opens \subseteq File \X {"read", "overlapped"}
  /\ Reads \subseteq Nat /\ Moves \subseteq STRING \X Int

VARIABLES
  real, out,       \* the handles with their real positions, the last answer
  ready,           \* g_ready
  files,           \* g_files: names and sizes, by id
  blocks,          \* g_blocks, and which way of each set was used last
  table,           \* g_handles
  call             \* the part of a call on each handle that is outside the lock

vars == <<real, out, ready, files, blocks, table, call>>
cacheVars == <<ready, files, blocks, table>>

OS == INSTANCE PlainFile WITH open <- real

NoFile == 0        \* fileId -1; ids count from one here
Unknown == -1      \* a size not asked for yet
Way == {1, 2}
Slot == 0..HandleSlots - 1
NoEntry == [live |-> FALSE]
NoBlock == [id |-> NoFile]
Idle == [op |-> "idle"]

\* The slots a handle may be in
Group == [h \in Handle |-> [p \in 1..Probe |-> (HSlot[h] + p - 1) % HandleSlots]]

OldEntry == [live |-> TRUE, h |-> Old, id |-> NoFile, pos |-> 0]

\* The hooks come with the process, or have been there for a while and a handle that was
\* closed unseen has left its entry.
Init ==
  /\ OS!PlainInit
  /\ files = <<>>
  /\ blocks = [s \in 1..Sets |-> [way |-> [w \in Way |-> NoBlock], last |-> 1]]
  /\ \/ ready = FALSE /\ table = [s \in Slot |-> NoEntry]
     \/ ready = TRUE /\ \E o \in {Group[h][Probe] : h \in Handle} :
          table = [s \in Slot |-> IF s = o THEN OldEntry ELSE NoEntry]
  /\ call = [h \in Handle |-> Idle]

-----------------------------------------------------------------------------
(* The table of handles *)

Has(s, h) == table[s].live /\ table[s].h = h

\* Slip: the probe stops at the first empty slot.
FindToHole(h) ==
  LET g == Group[h]
      at == {p \in 1..Probe : Has(g[p], h) /\ \A q \in 1..p : table[g[q]].live}
  IN {g[p] : p \in {p \in at : \A q \in at : p <= q}}

\* The slot of a handle, as a set of at most one
FindHandle(h) ==
  LET at == {p \in 1..Probe : Has(Group[h][p], h)}
  IN {Group[h][p] : p \in {p \in at : \A q \in at : p <= q}}

BindHandle(h, id) ==
  LET g == Group[h]
      free == {p \in 1..Probe : table[g[p]].live => table[g[p]].h = h}
      first == CHOOSE p \in free : \A q \in free : p <= q
  IN IF free = {} THEN table
     ELSE [table EXCEPT ![g[first]] = [live |-> TRUE, h |-> h, id |-> id, pos |-> 0]]

ServingSlots(h) == {s \in FindHandle(h) : table[s].id # NoFile}
Served(h) == ServingSlots(h) # {}
SlotOf(h) == CHOOSE s \in FindHandle(h) : TRUE

\* DisableLocked, as the table of handles and the real position after it.  The entry's
\* position is not read again.
Dropped(h) == [table EXCEPT ![SlotOf(h)].id = NoFile, ![SlotOf(h)].pos = 0]

\* Slip: the real position stays behind.
RestoredLate(h) == real[h].pos
Restored(h) == table[SlotOf(h)].pos

-----------------------------------------------------------------------------
(* The files and their blocks *)

Known(f) == {i \in DOMAIN files : files[i].name = f}

\* Slip: off by one at a full table.
FilesOver(f) ==
  IF Known(f) # {} \/ Len(files) > MaxFiles THEN files
  ELSE Append(files, [name |-> f, size |-> Unknown])

\* FindOrAddFile: the table of files after it, and the id.
Files(f) ==
  IF Known(f) # {} \/ Len(files) >= MaxFiles THEN files
  ELSE Append(files, [name |-> f, size |-> Unknown])
IdOf(f) ==
  IF Known(f) # {} THEN CHOOSE i \in Known(f) : TRUE
  ELSE IF Len(files) >= MaxFiles THEN NoFile ELSE Len(files) + 1

Cacheable(f, a) == f \in Archive /\ a = "read"

SetOf(id, idx) == 1 + ((id + idx) % Sets)

Invalidated(id) ==
  [s \in 1..Sets |->
     [blocks[s] EXCEPT !.way = [w \in Way |-> IF @[w].id = id THEN NoBlock ELSE @[w]]]]

Hits(set, id, idx) == {w \in Way : set.way[w].id = id /\ set.way[w].idx = idx}

\* lastUse is only compared within a set; way 1 is the victim unless way 2 is empty or
\* older.
Victim(set) == IF set.way[2].id = NoFile \/ set.last = 1 THEN 2 ELSE 1

\* The blocks after GetBlock(h, id, idx), and the block or NoBlock; `bad' is the index
\* whose fetch the disk fails.
GetBlock(b, h, id, idx, bad) ==
  LET s == SetOf(id, idx)
      hit == Hits(b[s], id, idx)
      victim == Victim(b[s])
      fetched == [id |-> id, idx |-> idx,
                  bytes |-> OS!Bytes(real[h].file, idx * KBlock, KBlock)]
  IN IF hit # {}
     THEN LET w == CHOOSE w \in hit : \A v \in hit : w <= v
          IN [blocks |-> [b EXCEPT ![s].last = w], block |-> b[s].way[w], moved |-> FALSE]
     ELSE IF idx = bad
          THEN [blocks |-> [b EXCEPT ![s].way[victim] = NoBlock],
                block |-> NoBlock, moved |-> FALSE]
          ELSE [blocks |-> [b EXCEPT ![s].way[victim] = fetched, ![s].last = victim],
                block |-> fetched, moved |-> TRUE]

\* One turn of the loop of ServeRead, on what the turns before it have read: the block
\* the read has come to, and what it takes of it.  `ptr' is where the fetches leave the
\* real position.
Turn(acc, h, n, bad) ==
  LET e == table[SlotOf(h)]
      at == e.pos + Len(acc.bytes)
      off == at % KBlock
      g == GetBlock(acc.blocks, h, e.id, at \div KBlock, bad)
      valid == Len(g.block.bytes)
  IN IF acc.state # "go" \/ Len(acc.bytes) = n THEN acc
     ELSE IF g.block = NoBlock THEN [acc EXCEPT !.blocks = g.blocks, !.state = "failed"]
     ELSE [blocks |-> g.blocks,
           ptr |-> IF g.moved THEN (at - off) + valid ELSE acc.ptr,
           bytes |-> acc.bytes \o SubSeq(g.block.bytes, off + 1,
                                         OS!Min2(off + (n - Len(acc.bytes)), valid)),
           state |-> IF valid < KBlock THEN "end" ELSE "go"]

\* ServeRead, until the read is done, at the end of the file, or a fetch fails.  A turn
\* that goes on has taken a byte, so n of them are enough.
ServeRead(h, n, bad) ==
  LET after[i \in 0..n] ==
        IF i = 0 THEN [blocks |-> blocks, ptr |-> real[h].pos, bytes |-> <<>>, state |-> "go"]
        ELSE Turn(after[i - 1], h, n, bad)
  IN after[n]

-----------------------------------------------------------------------------
(* The hooked calls *)

FreeThread == Cardinality({h \in Handle : call[h] # Idle}) < Threads
Usable(h) == OS!IsOpen(h) /\ call[h] = Idle /\ FreeThread

Leave(h, c) == call' = [call EXCEPT ![h] = c]
Silent == out' = <<>>

\* Where a handle stands for the game; a call to close keeps it for the mapping below.
Position(h) ==
  LET at == ServingSlots(h)
  IN IF at = {} THEN real[h].pos ELSE table[CHOOSE s \in at : TRUE].pos

\* BlockCacheInstall
Install ==
  /\ ~ready /\ ready' = TRUE
  /\ Silent /\ UNCHANGED <<real, files, blocks, table, call>>

\* HookCreateFileW, HookCreateFileA: the original first, then the note of it.
HookCreateFile(h, f, a) ==
  /\ FreeThread
  /\ OS!Open(h, f, a)
  /\ Leave(h, [op |-> "note", file |-> f, access |-> a])
  /\ UNCHANGED cacheVars

NoteOpen(h) ==
  LET c == call[h]
      yes == Cacheable(c.file, c.access)
  IN /\ c.op = "note"
     /\ table' = IF ready THEN BindHandle(h, IF yes THEN IdOf(c.file) ELSE NoFile) ELSE table
     /\ files' = IF ready /\ yes THEN Files(c.file) ELSE files
     /\ Leave(h, Idle)
     /\ Silent /\ UNCHANGED <<real, ready, blocks>>

\* HookCloseHandle: the entry first, then the original.
HookCloseHandle(h) ==
  /\ Usable(h)
  /\ table' = IF ready THEN [s \in Slot |-> IF s \in FindHandle(h) THEN NoEntry ELSE table[s]]
              ELSE table
  /\ Leave(h, [op |-> "close", pos |-> Position(h)])
  /\ Silent /\ UNCHANGED <<real, ready, files, blocks>>

OrigCloseHandle(h) ==
  /\ call[h].op = "close"
  /\ OS!Close(h)
  /\ Leave(h, Idle) /\ UNCHANGED cacheVars

\* A handle closed by a call that is not hooked, which leaves its entry behind; no more
\* of them at a time than the bound
Left ==
  {s \in Slot : /\ table[s].live
                /\ \/ table[s].h = Old \/ ~OS!IsOpen(table[s].h)
                   \/ \E p \in Slot \ {s} : Has(p, table[s].h)}
CloseUnseen(h) ==
  /\ Usable(h) /\ Cardinality(Left) < LeftMax
  /\ OS!Close(h)
  /\ UNCHANGED <<cacheVars, call>>

\* DisableLocked and the original call after the lock: no later step of the cache touches
\* the handle, so the two are one.
GiveUp(h, c) == table' = Dropped(h) /\ OS!Call(h, Restored(h), c)

\* A call on a handle the cache does not serve: the lock is taken and left with nothing
\* changed.
Unserved(h, c) ==
  /\ Usable(h) /\ (ready => ~Served(h))
  /\ OS!Call(h, real[h].pos, c)
  /\ UNCHANGED <<cacheVars, call>>

\* HookReadFile with OVERLAPPED; HookWriteFile, which also empties the file's blocks
HookOther(h, c) ==
  /\ c.op \in {"readAt", "write"} /\ Usable(h) /\ ready /\ Served(h)
  /\ blocks' = IF c.op = "write" THEN Invalidated(table[SlotOf(h)].id) ELSE blocks
  /\ GiveUp(h, c)
  /\ UNCHANGED <<ready, files, call>>

\* HookReadFile
HookReadFile(h, c, bad) ==
  LET r == ServeRead(h, c.n, bad)
  IN /\ c.op = "read" /\ Usable(h) /\ ready /\ Served(h)
     /\ bad < BadMax => r.state = "failed"
     /\ blocks' = r.blocks
     /\ IF r.state = "failed" THEN GiveUp(h, c)
        ELSE /\ table' = [table EXCEPT ![SlotOf(h)].pos = @ + Len(r.bytes)]
             /\ real' = [real EXCEPT ![h].pos = r.ptr]
             /\ out' = r.bytes
     /\ UNCHANGED <<ready, files, call>>

\* FileSizeOf: asked once for each file; `sized' is FALSE when GetFileSizeEx fails.
SizeOf(h, sized) ==
  LET known == files[table[SlotOf(h)].id].size
  IN IF known # Unknown THEN known
     ELSE IF sized THEN Len(Contents[real[h].file]) ELSE Unknown

\* The new position, negative where the cache gives up
Reposition(h, to, sized) ==
  CASE to[1] = "begin" -> to[2]
    [] to[1] = "current" -> table[SlotOf(h)].pos + to[2]
    [] to[1] = "end" /\ SizeOf(h, sized) # Unknown -> SizeOf(h, sized) + to[2]
    [] OTHER -> -1

\* HookSetFilePointer, HookSetFilePointerEx
HookSetFilePointer(h, c, sized) ==
  LET p == Reposition(h, c.to, sized)
  IN /\ c.op = "seek" /\ (~sized => c.to[1] = "end")
     /\ Usable(h) /\ ready /\ Served(h)
     /\ ~sized => SizeOf(h, FALSE) = Unknown
     /\ files' = IF c.to[1] = "end"
                 THEN [files EXCEPT ![table[SlotOf(h)].id].size = SizeOf(h, sized)] ELSE files
     /\ IF p < 0 THEN GiveUp(h, c)
        ELSE /\ table' = [table EXCEPT ![SlotOf(h)].pos = p]
             /\ Silent /\ UNCHANGED real
     /\ UNCHANGED <<ready, blocks, call>>

Next ==
  \/ Install
  \/ \E h \in Handle :
       \/ \E o \in Opens : HookCreateFile(h, o[1], o[2])
       \/ NoteOpen(h)
       \/ HookCloseHandle(h)
       \/ OrigCloseHandle(h)
       \/ CloseUnseen(h)
       \/ \E c \in OS!Calls :
            \/ Unserved(h, c)
            \/ HookOther(h, c)
            \/ \E bad \in 0..BadMax : HookReadFile(h, c, bad)
            \/ \E sized \in BOOLEAN : HookSetFilePointer(h, c, sized)

Spec == Init /\ [][Next]_vars

-----------------------------------------------------------------------------
Entry == {NoEntry} \cup
  [live : {TRUE}, h : Handle \cup {Old}, id : NoFile..MaxFiles, pos : Nat]

\* Every variable keeps its type; a full block only misses bytes at the end of a file.
TypeOK ==
  /\ \A h \in Handle : OS!IsOpen(h) => real[h].file \in File /\ real[h].pos \in Nat
  /\ Len(files) <= MaxFiles
  /\ \A i \in DOMAIN files : files[i].name \in Archive /\ files[i].size \in Nat \cup {Unknown}
  /\ \A s \in 1..Sets, w \in Way : blocks[s].way[w] # NoBlock =>
       Len(blocks[s].way[w].bytes) \in 0..KBlock /\ blocks[s].way[w].id \in DOMAIN files
  /\ table \in [Slot -> Entry]

\* What the game sees of a handle: the position the cache keeps where it serves it, the
\* real one everywhere else.
Seen ==
  [h \in Handle |->
     IF ~OS!IsOpen(h) THEN OS!Closed
     ELSE [real[h] EXCEPT !.pos =
             IF call[h].op = "close" THEN call[h].pos
             ELSE IF call[h].op = "note" THEN @
             ELSE Position(h)]]

Unhooked == INSTANCE PlainFile WITH open <- Seen

\* With the hooks in place the game sees the files it would see without them: every
\* read returns the bytes at the position the game knows, whatever was served, evicted,
\* dropped or failed before (blockcache.h:10).
Unmodified == Unhooked!Plain

\* A handle the cache gave up on is not served again before it is closed
\* (blockcache.h:14).  A second entry it left behind may show while it is being closed,
\* when no other call reaches it.
GaveUp(h) == call[h].op # "note" /\ ready /\ OS!IsOpen(h) /\ ~Served(h)
StopsForGood ==
  [][\A h \in Handle :
       Served(h)' /\ OS!IsOpen(h)' /\ call'[h].op # "close" => ~GaveUp(h)]_vars
=============================================================================
