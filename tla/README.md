# A TLA+ model of Lithmeter

Lithmeter (SoulMeter) is a damage meter for the game SoulWorker. A hook loaded into
the game's process copies decrypted packets into a named pipe; the meter's process
reads them, keeps a *run* of damage statistics, files finished runs in a history and
draws the tables. This directory holds TLA+ models of its parts, TLC configurations
that check them on small instances, and TLAPS proofs. The repository has no tests,
so the code itself, its comments, its option texts and its README are the
reference.

Run a check with `tlc -config <cfg> <module>.tla`, and the proofs with `tlapm` on the
modules `*Proofs.tla`: `DamageMeterProofs`, `FrameQueueProofs`, `CapturePipeProofs`,
`SaveDataProofs`, `BlockCacheProofs`, `HookCommandProofs`, `InjectorProofs` and
`PlayerMetaProofs`. `PROJECT.json` lists components, runs, mutants, the source lines of
each definition, findings, hazards and theorems.

## 1. Inventory

Paths are below `src/`; `SU/` stands for `Soulworker Utility/`.

### Processes and threads

| where | thread | what it does |
|---|---|---|
| game | network threads | run the hooked send/receive functions, push frames into `g_frameQueue` |
| game | `WriterThread` | drains the queue into the pipe, pushes a ping each second |
| game | `CommandThread`, window pump | take commands from the meter, run them on the game's thread |
| meter | UI thread | draws, runs user commands |
| meter | `PipeServerThread` | reads records; `CreateSWPacket` runs each handler under the DAMAGEMETER lock |
| meter | `HookCommandThread` | writes commands and keep-alives to the game |
| meter | injector thread | polls processes and injects the hook |

### Components

| component | state | operations | interacts with | hard behaviour | what makes it correct |
|---|---|---|---|---|---|
| Combat session (`SU/Damage Meter/Damage Meter.*`) | timer, world id, maze-end and test flags, players and their rows, monster database, history mode and session on screen | `Start`, `Suspend`, `Clear`, `SetHistory`, `AddDamage`, ... | files runs in the history; switches four singletons between live and history | long sequences of packets and commands; state read through the history view; early returns | rows belong to a timed run; no run lost or misfiled; nothing recorded behind a history view |
| History (`SU/Damage Meter/History.*`) | vector of sessions, running index | `push_back`, `ClearHistory`, `ClearAll` | owns a `CombatInterface` each; save file | eviction and deletion against the views that point into it | bounded, each session once, what is on screen is filed |
| Combat log (`SU/Combat Meter/`) | live `CombatInterface`, history flag | `Insert`, `Set`, `Clear`, `Get` | handed to a session, deleted by it | ownership moves on several paths | one owner, deleted once |
| Plot data, buff meter | whose data, end flag | `Start`, `End`, `SetHistory`, `Clear` | follow the session | stopped and started by other calls than the timer | plot runs with the timer; both in the mode of the session |
| Timer (`SU/Damage Meter/Timer.cpp`) | end/run/suspend, stamps, suspended time | `Run`, `Suspend`, `Stop`, `GetTime` | session, metadata | unsigned differences | time never counts a suspension |
| Packet handlers (`SU/Soulworker Packet/SWPacket*`) | none | one `Do` each | session | order of the calls inside one | as the session |
| Frame queue (`SoulMeterHook/stream.h`) | byte ring, head, tail, dropped | `PushFrame`, `PopRecord` | network threads, writer | wrap-around, the free byte | whole frames, in order |
| Capture pipe (`SoulMeterHook/dllmain.cpp`, `SU/.../PipeReceiver.cpp`) | handle, batch, pipe instance, connected flag | connect, ping, fill, write; create, accept, read | frame queue, handlers | partial writes, either process stops, reconnection | whole frames, in order, none lost in peace, reconnects |
| Command channel (`SU/.../HookCommand.cpp`, `SoulMeterHook/gamecmd.cpp`) | queue of 7 commands, connected flag; debounce stamps | `Send`, connect, write, keep-alive; post, run | hot keys, game thread | stale commands, lost writes, tick wrap | a command runs at most once, never after a reconnection |
| Injector (`SU/.../Injector.cpp`) | per process: kind, attempts, back-off | poll, probe, inject | game process | time-out of an injection that succeeds later, pid reuse | a game that stays ready is injected; each at most once |
| Block cache (`SoulMeterHook/blockcache.cpp`) | blocks with LRU ways, files, handles with positions | hooked open/read/seek/write/close | the game's file access | positions, invalidation, handle reuse | reads what the plain file would give |
| MD5 cache (`SoulMeterHook/md5cache.cpp`) | path to stamp and hash | lookup, store, save | the game's hashing | change between stat and hash | never a hash of other contents |
| Save file (`SU/Damage Meter/SaveData.cpp`) | file of records, temporary file, `_inited` and other flags | `Load`, `Save`, `Delete`, `Reset` | history | crash between remove and rename, indexes | no record lost by a crash, indexes agree |
| Player statistics (`SWDamagePlayer/Monster/Skill`, player metadata) | sums per level, time-weighted sums | `AddDamage`, `Update*` | session | unsigned stamps moved by resets | sums agree, averages stay in range |
| Buff list, hot keys | start times; pressed keys | insert/end; key events | buff meter; commands | uninitialised flag; overlapping combinations | uptime within the run; one trigger per press |
| Load patch, socket hooks, database, language, log, memory pool, UI drawing, third-party code | - | - | - | patching, I/O or output | not modelled |

### Interaction

frame: network thread -> frame queue -> batch -> pipe -> `HandleMessage` -> packet
handler -> session -> combat log, plot, buffs -> history -> save file. Command: hot
key or menu -> session, or -> command queue -> pipe -> game thread. Most UI
commands share the session with the packet handlers under the DAMAGEMETER lock, some use it
without (section 11); the history has a lock of its own, taken in the other order on the two
sides and kept from a deadlock by `try_lock` only. The hazards with their lines are in `PROJECT.json`.

## 2. Plan

In this order, most important first; all of it is done except where section 12 says
otherwise.

1. `DamageMeter`: session, history, combat log, plot and buff modes. Proofs in
   `DamageMeterProofs`.
2. `FrameQueue`, implementing the abstract `FrameFifo`; `FrameCost`, the bytes a sequence
   of frames takes, for both. Proofs in `FrameQueueProofs`.
3. `CapturePipe`, composed with `FrameFifo`. Proofs in `CapturePipeProofs`.
4. `SaveData`, with the history's positions: crashes at each step of a rewrite. Proofs in
   `SaveDataProofs`.
5. `BlockCache`, implementing the abstract `PlainFile`. Proofs in `BlockCacheProofs`.
6. `HookCommand`: the command queue, its connection, the game's window and debounce.
   Proofs in `HookCommandProofs`.
7. `Injector`: the poll with retries and processes that come and go. Proofs in
   `InjectorProofs`.
8. `PlayerMeta`: elapsed time and time-weighted sums in unsigned arithmetic. Proofs in
   `PlayerMetaProofs`.
9. `UiLocks`: the order of locks, `try_lock`, and the places without a lock.

What is proved and what is not, invariant by invariant and refinement by refinement:
every safety property of `DamageMeter`, `FrameQueue`, `SaveData`, `BlockCache` and
`PlayerMeta` is a theorem, and so is every one of `CapturePipe`, `HookCommand` and
`Injector` that is not a liveness property. `UiLocks` has no constants, so that TLC's run
is already the whole of it.

## 3. The combat session: `DamageMeter`

One variable, the record `meter`; the comment at `Init` says which member of which
class each field is. The C++ handlers are chains of calls on singletons with early
returns. Each call is an operator from the state it finds to the state it leaves
(`Start(s)`, `Suspend(s)`, `Clear(s, n, o)`, ...), and an action composes the calls
in the order of the code. What is handed in from outside is chosen: the packet's
player, monster and outcome, the options in force (`o`), and the addresses of objects
about to be allocated (`n`, `c`). `PushBack` keeps the running index only up to
`HistorySize`, since the code compares it with nothing else.

Elapsed time is in `PlayerMeta`; damage amounts and texts are left out. A handler is one
step because it runs under the DAMAGEMETER lock. Three commands that change the session do
not take that lock: the selection in the history tab (`UtillWindow.cpp:207`), the test
values (`Helper`, `Option.cpp:299`) and save and exit (`SaveAndExit`, `Option.cpp:470`).
They are one step here all the same, so what the properties say of them holds if no packet
comes in between. `UiLocks` has every place of the UI without the lock by name, and what
may come in between is a listed hazard.

Runs:

| run | what it checks |
|---|---|
| `meter` | `TypeOK`, `RowsAreTimed`, `PlotFollowsTimer`, `HistoryModeIsIdle`, `ShownIsFiled`, `CombatOwned`, `HistoryBounded`, and `RunsAreKept` as an action property. One player, two monsters (a listed raid boss, and one of god mode whose death pauses and which is ignored on resume), the unknown world, a town, and a maze that is strict, rank and Lunar Fall at once; the options switch between two extremes at any step. A history of two sessions, with one address more for each kind of object than can be in use. |
| `list_boss`, `unfinished` | the two findings below: each run checks one statement of the code's own texts and finds it violated. |

Bounds: one player is enough because no guard compares players (a second only adds
rows); each kind of world and monster that the guards tell apart is there, some of them
in one. Two sessions are the least with which one can be evicted or deleted while
another is on screen; the spare address lets every eviction, deletion and re-use
happen, since addresses are free again as soon as they are freed, as with an allocator.
There is no symmetry and no fairness: the properties are about safety.

### Findings

* `list_boss`: `AddDamage` asks `GetWorldID()`, which answers for the session on screen;
  while history is shown, the strict list is applied to the wrong world. (The test for an
  unknown world next to it has the same flaw.)
* `unfinished` (module `MCUnfinishedMaze`, which adds whether the rank maze is
  unfinished): a reset inside the maze clears `_testMode`, and the rest of an
  unfinished run is filed although the option says it is not to be.

Behaviour the model has that no text of the program speaks about: the history evicts by
the number of runs ever pushed, not by its length, so each deletion costs a place until
the history is cleared.

### Proofs: `DamageMeterProofs`

Assumed: only the named `ASSUME`s on the constants in `DamageMeter` (sizes are
positive, addresses are not `Nil`, the special worlds and monsters exist, option
records have their fields). Proved for any number of players, monsters, worlds,
sessions and logs:

* `TypeCorrect`: `Spec => []TypeOK`. One lemma per member call (`StartType`,
  `ClearType`, ...) says that it keeps `MeterState`; `PacketType` and `CommandType`
  compose them action by action.
* `CoherentAlways`, and from it `ModeCorrect`, `RowsCorrect` and `PlotCorrect`, which
  are the properties `HistoryModeIsIdle`, `RowsAreTimed` and `PlotFollowsTimer`.

The three properties are not inductive one by one. `RowsAreTimed` needs to know that
there are no rows behind a history view, since leaving it keeps the rows and `Clear`
then ends the timer; `PlotFollowsTimer` needs that a plot which shows a session stops
doing so before the timer starts, which holds because `Start` leaves the history view
and that mode agrees with the plot's. `Coherent(s) == Views(s) /\ Timed(s)` is their
conjunction with the type of the state and `no players => no damage`. Between two
calls of one handler the two halves do not hold together (`EndRun` empties the rows
before the timer ends), so the lemmas state for each call which half it needs and which
it restores.

* `FilingAlways`, and from it `ShownCorrect`, `LogsCorrect` and `HistoryCorrect`, which
  are the properties `ShownIsFiled`, `CombatOwned` and `HistoryBounded`.
* `RunsCorrect`: the action property `RunsAreKept`, from `FilingAlways` and the type.

`Filing(s) == Kept(s) /\ Shown(s)` is the invariant of the second half. `Kept` says what
the history owns, by position: the logs that exist are those of the sessions and the
one of the live run (`Owns`, `FiledLogs`, `Live`), no two sessions share a log or an
address, and the history is not longer than its running index. That the logs are shared
out exactly is needed twice: a log is deleted with its session, and a new one may get
its address at once. `Shown` says that the session on screen is one of them, and what
takes it out of the history must leave the view first; `Clear` and `SetHistory`
move the ownership of a log on the way, so here too the lemmas follow the calls.
Nothing of `DamageMeter` is only model-checked.

## 4. The frame queue: `FrameFifo` and `FrameQueue`

`FrameQueue` is `ByteQueue` byte by byte: `buf`, `head` and `tail` are its members,
`PushFrame` and `PopRecord` its operations (each under one critical section, so each is
a step), `HasRoom`, `Used`, `WriteRaw` and `ReadU32` its helpers. Old bytes stay in the
ring. `popped` is what the last `PopRecord` gave out. Bytes are digits in base `Radix`
so that a header can take more than one of them on a small ring.

`FrameFifo` is the promise of the comment on top of `stream.h`: a bounded queue of whole
frames. `ImplementsFifo` checks that every step of the ring is a step of it, with
`queue <- Records`, the records that a reader would find from `tail` to `head`.

Run `frame_queue`: seventeen bytes, frames of one to three bytes (five to seven with
the header) and one that is too long, and a writer with room for any, for all but
the longest or for none. Record lengths have no common factor with 17, so head and
tail take every position and headers and frames lie across the end in every way; two
or three records fill the ring, and a record that fits it exactly but for the free byte
occurs. `MaxDrops` stops the count of dropped frames, which nothing reads.

Not covered: two threads inside one operation, which the critical section excludes.

### Proofs: `FrameQueueProofs`

Assumed: `CapAssumption` (a ring has a byte), `RadixAssumption` (four digits hold the
length of the longest frame), `FrameAssumption` and `RoomAssumption`. Proved for a ring of
any size, any base, any set of frames and any room the writer may have:

* `RingCorrect`: `Spec => [](TypeOK /\ Packed)`, and `TypeCorrect` from it.
* `QueueCorrect`: `Spec => ImplementsFifo`. Every step of the ring is a step of `FrameFifo`
  under `queue <- Records`, or leaves it alone.

`Records` is read off the ring, from the tail up to the first record that is not whole,
and counts bytes back from the head, as the proof does. `Reading` says what length and
frame are read so many bytes before the head, `Packed` that the records take up all of
the bytes in use, so there is no rest that a later record could be read out of.
`PushFrame` writes behind the head, which changes no byte in use (`OthersRead`), and its
own bytes are read back as the frame (`NewestRead`, with `Digits`: four digits of a
number below the fourth power of the base give it back); so the records are the same ones
with the new one at the end (`PushParses`). `PopRecord` moves the tail to where the
second record starts. `Records` and `Cost` are recursive functions over a sequence: that
they are what they should be is shown with the least counterexample (`LeastOf`), as the
induction theorems of the library are out of reach.

## 5. The capture pipe: `CapturePipe`

The network threads (`Send`), the writer (`ConnectPipe`, `PushPing`, `SkipPing`, `Fill`,
`WriteHalf`, `WriteDone`, `WriteFails`), the pipe and the receiver (`CreateInstance`,
`Accept`, `AcceptFails`, `ReadLength`, `ReadBody`, `ReadFails`), over the queue of
`FrameFifo`. `GameStops` and `MeterStops` end a process at any step; it is started again
or not.

The pipe carries halves of records, lengths and bodies, so that a write and a read can
be cut between or inside records. A body read as a length yields either a number out
of range (the receiver gives up) or a frame made of the wrong bytes, `Garbage`. The
pipe is Windows' own and is modelled from how the two sides use it: one client for an
instance; what a client wrote before it closed can still be read; what an instance
held is gone when it is closed; a client that came and went before `ConnectNamedPipe`
is an error (`AcceptFails`), one that did so while it waited is not.

Waiting is an action that is not enabled: the 300 tries and the sleeps of `ConnectPipe`
and `WaitNamedPipe` make it wait until an instance listens. Whether a second has passed
since the last ping is a choice.

Run `capture_pipe`:

* `WholeFrames`, `InOrder`: only frames that the game sent, each once and in order,
  whatever was lost.
* `NothingLostInPeace`: a frame in the queue reaches the meter if no process stops.
* `Reconnects`: if both processes stay up from some time on, they end up connected, even
  with a silent game. The ping is what notices a dead handle.

Bounds: four frames; a queue of three records and a batch of two, so that frames are
dropped, batches end both because the queue is empty and because the next record might
not fit, and pings and frames mix; a pipe that holds less than a batch, so that the
writer waits inside a record; three stops, so that a process may stop again while the
other recovers.

Fairness: weak fairness of the writer thread and of the receiver thread, each a loop
that goes on while it can. None on `Send`, the stops and the starts: the game may be
silent and a process may stay down. With an empty queue the writer spins until a second
has passed, so a ping is pushed eventually; that is the writer's fairness, as it can
do nothing else there.

### Proofs: `CapturePipeProofs`

Assumed: `BoundsAssumption` only (the queue has room for a byte, a batch for the longest
record). Proved for any number of frames, any size of queue, batch and pipe, and any
number of stops:

* `Inductive`: `Spec => []IInv`, and from it `TypeCorrect`.
* `FramesCorrect`: `Spec => []WholeFrames`.
* `OrderCorrect`: `Spec => []InOrder`.

`IInv == TypeOK /\ Places /\ InStep /\ Whole /\ Order`. That the meter sees whole frames
rests on the two ends of one connection being in step: on the pipe, lengths and bodies
take turns (`Alternate`), the half it starts with is the one the receiver waits for
(`Due`), and the one it ends with is where the writer is in its batch (`Abreast`). A cut
write or read breaks this for good, but only together with the connection. `Order` is a
chain: the numbers of frames rise from those handled over the pipe, the rest of the batch
and the queue to the last frame sent (`Chain`), and along each of them, so a frame that a
stop loses can never come late.

Model-checked only: `NothingLostInPeace` and `Reconnects`, which are about fairness.

## 6. The save file: `SaveData`

`SWSaveData` with the history it mirrors. A file is a sequence of words, the version and
one word for each session; `disk` and `tmp` are the files that exist, `vector` the
history with its index, `job` the `Save` or `Delete` under way. `Save` and `Delete` write
the temporary file, `RemoveOld` and `Rename` replace the save file, and `Evict` and
`Finish` do to the vector what follows in `push_back` and `ClearHistory`; `Crash` may
come between any two. A process that stops while it writes the temporary file is a crash
before the write: nobody reads what it left. `Open` is `Init` and `Load`; `LoadFile`
adds what `handleDialogInfo` does when that fails.

Run `save_data`: two files, each absent, empty, with a session or of another version; a
history of two; five runs; two crashes. That is enough for a file with more sessions
than the history holds (a crash between saving and evicting) to be loaded and pruned, for
an eviction while a file is read, and for a crash in the middle of an eviction after
another. The file is created and loaded, cleared, copied and loaded again in every order.
Deadlock is not checked: the program refuses to start on a file it cannot read.

* `AgreesWithFile`: between operations the history is the file, position by position,
  which `Delete(index)` relies on.
* `OnDisk`: if the process stops now, loading the file again gives every session of the
  history but those that are being deleted. This holds at every moment except one: between
  removing the save file and renaming its successor, the sessions are in the temporary
  file only. The next start then makes an empty save file and the next `Save` overwrites
  the temporary one, so they are lost. No text of the program says otherwise, and the
  property names the moment.

A second run shows a finding:

* `save_version`: `Load` sets `_fileNotExist` for an empty file and only `Save` resets it;
  loading another file in between makes `Save` write a second version word behind its
  records, and the file cannot be loaded again.

What follows of it is in the model too. Where the second version word is taken for a size,
`Load` throws. `Delete` throws if it is to copy that record, and leaves its temporary file
behind; but a record that it skips it does not read: the huge size ends its loop, and what
was copied up to there replaces the save file (`SaveData.cpp:259`). That file can be read,
and lacks sessions that the history has. The other way in which the two part is a file that
fails half way when it is loaded: the sessions read of it stay in front of those of the
default file. `astray`, which is no state of the code, is set by the `Save` that writes the
second version word and by such a load, and reset by the next load or restart;
`AgreesWithFile` and `OnDisk` say nothing while it is. Whether a file can be read is not
what they depend on: it can be again, after `Delete`, with `astray` still set.

The load at the start is one step, although the receiver already runs then
(`main.cpp:66`); `UiLocks` has the race.

### Proofs: `SaveDataProofs`

Assumed: `FileAssumption` and `SizeAssumption` (the default name is one, a history has
room for a session). Proved for any set of files, any size of the history and any number
of runs and crashes:

* `Inductive`: `Spec => []IInv`, and from it `TypeCorrect`.
* `AgreesCorrect`: `Spec => []AgreesWithFile`.
* `OnDiskCorrect`: `Spec => []OnDisk`.

Neither property is inductive: one says nothing while a job is under way, the other
nothing about order. All of it is stated until the two are `astray`. `IInv` has for each moment a file that counts, `Current` (the
temporary one once it is written, until it has the name of the save file), and a history
to compare it with, `After` (what the vector will be when the job is done). `InStep` says
that the sessions of `Current` are `After`. `InFile` says that a save file about to be
replaced has every session the history has, which is what a process that stops before
`RemoveOld` relies on: without it the old file would say nothing, since `Current` is the
temporary one by then. `Placed` says which files exist at
which stage of a job; `RemoveOld` and `Rename` change `Current` by name only, so crashes
cost nothing but the job.

What the two loops over a file's records do is shown first: loading gives the last
`HistorySize` sessions (`PushedLast`), the loop of `Delete` leaves out the first ones or
the one asked for (`KeptLast`, `KeptOthers`). `Pushed` and `Kept` are recursive functions;
`Recursion` shows that such a function exists and `Induction` what follows for it, both
with the least counterexample and a set for a parameter.

## 7. The block cache: `PlainFile` and `BlockCache`

`PlainFile` is what the operating system promises a program: a handle has a position, a
read returns the bytes there and moves it on, a seek moves it. `BlockCache` is the hooks
around it. `real` holds the handles as the system knows them; `files`, `blocks` and
`table` are `g_files`, `g_blocks` with its least recently used ways, and `g_handles` with
its hash and its groups of slots; `call` is the part of a hooked call that runs after the
lock is left, where other threads of the game come in between (`HookCreateFile` then
`NoteOpen`, `HookCloseHandle` then `OrigCloseHandle`). Reads take their blocks one by
one (`Turn`, a turn of the loop of `ServeRead`), so that the second can fail after the
first was copied.

Run `block_cache`:

* `Unmodified`: with `open <- Seen`, the position the game would observe, every step is
  one of `PlainFile`. The game cannot tell that its archives come from memory, whichever
  way a call falls back to the real function.
* `StopsForGood`: a handle that was given up is not served again before it is closed.

Bounds: an archive of two blocks, one that the table of files has no room for, and a log
that is no archive; one set of two ways, so that blocks evict each other; two
interchangeable handles that hash to the last slot of a table of three, in a group of two that
goes around its end, with an entry that a handle closed past the hooks has left, so the
group is full, empty and with a hole; reads longer than a block and across the end of a
file; seeks from each origin, before the start of the file, and with an unknown origin;
fetches that fail at each block. `LeftMax` bounds the entries that handles closed unseen
have left at a time, here to one. The view hides
the last answer and the real position of a handle the cache serves, which no action
reads.

Assumed of the game: it opens archives for reading and does not change them, so a write
always fails at the handle and only gives the handle up (`HookOther`); a write through a
handle that the cache does not know would leave stale sizes and blocks
(`blockcache.cpp:195`).
No thread closes a handle that another is using. Left out: paths longer than the buffer,
handles that are not files, 32-bit seeks beyond 4 GB, overlapped handles read without an
offset, and the clearing of the blocks at the end of the process.

### Proofs: `BlockCacheProofs`

Assumed: `CacheAssumption` (the sizes are positive, a handle's first slot is in the table)
and `GameAssumption` (files are sequences, an open names a file and an access, lengths of
reads are not negative). Proved for any handles, threads, files and their contents, any
size of blocks, sets and tables, any hash, and any number of leftover entries:

* `TypeCorrect`: `Spec => []TypeOK`.
* `StopsCorrect`: `Spec => StopsForGood`.
* `CacheCorrect`: `Spec => Unmodified`. Every step of the hooks is a step of `PlainFile`
  under `open <- Seen`, or one the game does not see.

None of the three is inductive. The invariant `IInv` of `Invariant` says besides the types
(`Typed`, whose `Held` is the one that matters: a block filed as the k-th of a file holds
just these bytes of it) that a size that is known is the file's (`Sized`), that nothing is
tracked before the hooks are installed (`Untouched`), and of each handle that what the
system, the table, the files and the unfinished part of a call say of it fits (`Fit`): a
handle not noted yet has just been opened, one being closed is open, and one that is
served is open for reading the file that its entry names. The last is why a block may
answer a read, and it is to be kept against the entry that an earlier handle of the same
value left behind.

A handle may have more than one entry, and its group shares slots with others. So the
proof never looks at the table as a whole: `OnlyOf(t, u, h)` says that between two tables
no entry of another handle than `h` appears, goes or changes, and then what that other
handle finds in it is the same (`OthersFound`). `OneStep(h)` is this and
that nothing else moves for the others. Each hooked call is shown to be a `OneStep` of its
handle, with what it does to that one (`CreateStep`, `NoteStep`, `ReadStep`, ...), and
`OneStepKeeps` gives the invariant for all of them at once.

`ServeReadIs` says what the loop returns: all bytes from the position on, until the length
asked for or the end of the file, or a failure. `TurnIs` is one turn of it, with the
arithmetic of blocks and offsets (`TurnAdds`); that the number of turns is enough is an
induction over them, by the least counterexample as elsewhere.

For the refinement, `Standing` is what the game sees of one handle. A call the cache
serves moves `Seen` as `PlainFile` moves its position, although the real one is elsewhere
(`KeepingSeen`); a call it gives up on finds the real position restored (`DroppingSeen`);
the halves of opening and closing that are outside the lock move nothing (`NoteSeen`,
`CloseSeen`): this is where `Seen` has to tell them apart by `call`. Nothing of
`BlockCache` is only model-checked.

## 8. The injector: `Injector`

The thread's `procs` and `alive` are the maps of the last poll and of this one, `pids` is
the rest of the snapshot, `step` says how far `ServiceGameProcess` is with a process,
`backoff` holds those whose next attempt is still to come. `Visit` is the body of the
loop, `Inspect`, `CreateRemoteThread`, `Loaded` and `TimedOut` are the service, `Swap`
ends the poll. The processes are external: they start, get a list of modules, load the
game's module and exit between any two steps, and a remote thread that outlasted its wait
ends later (`LateLoad`) or never. Everything about a process is looked up under its pid,
which by then may belong to another process.

Run `injector`:

* `OnlyGames`: the hook is only ever in the game (a program of its name, or one that
  shares the prefix once the game's module is loaded).
* `GamesHooked`: a game that stays up is hooked, unless its pid is given up: it could not be
  read `kMaxProbeFails` times in a row. The code keeps the verdict "no game" in the same
  counter, so the property would excuse one of these that is stale, too.

Bounds: three processes of five kinds over two pids, so that pids are used again while
the other process is served; two faults (a process that cannot be opened, a call that
fails, a wait that times out, a restart of the meter), as many as probes may fail.
Deadlock is not checked: every process may have exited and all bounds be used up.

Fairness: of the injector's thread (a loop that always goes on), of the start of a process
and the loading of its module, and of the end of a back-off (time). Faults, exits and
late loads have none.

`QuickReuse FALSE` is an assumption about Windows: a pid is not given out again before
the poll after its process has exited. A poll is short unless it waits up to five seconds
in `InjectInto`; if a pid were used again in that time, the state taken from the old
process would be applied to the new one and both properties would fail. Left out: the
count of attempts, which only lengthens the back-off, a snapshot of pids that fails, and
the memory written into the process.

### Proofs: `InjectorProofs`

Assumed: `InjectorAssumption`, and for the second theorem `~QuickReuse`. Proved for any
set of pids, any number of starts and faults, and any limit of failed probes:

* `TypeCorrect`: `Spec => []TypeOK`. `ProbedIs` says what a probe leaves and
  `VisitIs`, `ServiceIs` what a step of the thread does to its maps.
* `OnlyGamesCorrect`: `Spec => []OnlyGames`.

`OnlyGames` is not inductive: that the DLL gets into a process rests on what was found
out about a pid earlier. The invariant `IInv` says, for each pid, that a state marked as a
game fits the process now on the pid (`Fits`), for the map of the last poll where it is
still to be read and for that of this poll (`Current`); that a pid with a state is not
free, so no other process can have got it (`Kept`); that only a game of this poll is
served (`Serving`); and that from a `Ready` inspection on, the process is the game or is
gone (`Ready`). One lemma per kind of step keeps these, `SameInv` those of the other
pids.

Model-checked only: `GamesHooked`.

## 9. The command channel: `HookCommand`

The UI thread puts commands into `queue` in two steps, the test of the connection (`Test`)
and the rest under the lock (`Push`), as the code does (`HookCommand.cpp:152`). `server`
is where `CommandServerThread` stands: create, listen, clear the queue, announce the
connection, serve, write, and after a failed write disconnect and start over. `pipe` is
what the instance buffers for each game that opened it, `peer` its client. In each game
the `CommandThread` arms the commands (`GameCmdInit`: find the two senders in the game's
image, then a window to subclass), opens the pipe, reads frames and posts them;
`ReadCommand` includes what the game's thread does with the message. Games start once and
exit at any step, a window may be recreated, and the meter may be restarted.

Run `hook_command`:

* `RunsFresh`: a game runs only commands that were queued while it was the client, each
  at most once and in order.
* `Reachable`: a game that stays up, without another one that could have the pipe, gets
  connected, although the pipe is outbound only and the meter learns of an exit by nothing
  but a failing write. Excused is a game whose senders were not found (`senders` is
  `"failed"`): it never opens the pipe (`gamecmd.cpp:322`), and so does not stand in the
  way of another.

Bounds: two games, in turn and side by side; two commands; a queue of two (three slots);
a pipe that buffers two frames, so that the server waits; three keys; one restart or lost
window. Deadlock is not checked: both games may have exited and the keys be used up.
Fairness: of the server thread and of each game's thread, of the keep-alive (time), of a
window being shown, and of a window letting itself be subclassed, which may fail any number
of times but not for ever. Nothing is assumed of the search for the senders, which succeeds
or fails for good: the thread is started once the image is mapped (`dllmain.cpp:171`), so
`ResolveSenders` never fails for want of it. The keep-alive has its own condition since keys may keep the
server's other branch busy.

`RunsFresh` speaks of the moment a command enters the queue. A command tested on one
connection may enter the queue of the next and is then run by a game that was not there
when the key was pressed. A window recreated while the channel is connected loses
commands until the next connection, since `GameCmdInit` runs only between
connections. Debounce is a set of commands fired lately; the wrap of the tick count and
its start at zero are not modelled. A frame is written and read as a whole. The guards of
`RestartMaze` and `ExitMaze` on the game's own state are left out: they only make a
command do less.

### Proofs: `HookCommandProofs`

Assumed: `CommandAssumption` only. Proved for any number of games, keys and faults and any
size of queue and pipe:

* `FreshCorrect`: `Spec => []RunsFresh`.
* `TypeCorrect`: `Spec => []TypeOK`, with `Room` (the free slot of the queue, the limit of
  a pipe) and `States` on top of the invariant below.

`RunsFresh` speaks of what has been run; where it comes from is the rest of the state. The
invariant `IInv` says that the numbers of the keys rise along the way of a command: what a
game ran is below what its pipe holds, that below the command the server has taken, that
below the queue, that below the command past the test, and none is above the last key
(`Own`, `OrderedGame`, `OrderedQueue`, `Bounded`). And from the announcement of a
connection until the pipe is closed, all that is queued or taken is for the client
(`ForPeer`): that is what clearing the queue before the announcement is for. One lemma per
action that moves a command keeps it.

Model-checked only: `Reachable`.

## 10. Times: `PlayerMeta`

`Timer` with its stamps and suspended time, and of a player's metadata one average
weighted by time (armor break; boss damage and attack speed are the same code without or
with another cap) and the two times a condition holds (full armor break, aggro). Times
are differences modulo `Word`. The calls that `DamageMeter` puts in order come here in any
order. `Draw` is the player's row of the table: it calls `CalcFullABTime(GetTime())` and
`CalcAggroTime(GetTime())`, which write the times that are filed (`CalcUpTo`). It is taken at
any moment the table has rows, which includes every frame. It is the table with columns; the
stacked one (`PlayerTable.cpp:1684`) does the same but for the aggro at time zero, which it
leaves alone.

Run `player_meta`:

* `ElapsedIsRunning`: elapsed time is the time during which the run was running.
* `SumsOfRun`: what would be filed of a player at any moment is possible for the time of
  the run, however often the table was drawn before.

Drawing is not harmless. The time drawn is the one before the last interval and the span
from the start of that interval to now, even if the interval is over. A break that ends with
a suspension and comes back while the run is suspended is therefore drawn with the gap
included, and its next start takes the drawn time for the time before. What is filed is
then longer than the break was, and depends on whether the table was open; it never exceeds
the time of the run, which is what `SumsOfRun` says, and no text of the program says more.

Bounds: a clock of four ticks, which fits a start, a suspension, a resumption and an end
with each of the stats changing in between; values of zero, below and above the cap; a
word so large that no true sum reaches it, so whatever does has wrapped. The view hides
stamps of a timer that is off and sums known not to be the run's.

`SumsOfRun` exempts `kept`: `Clear` of a run without rows ends the timer and keeps the
metadata (`Damage Meter.cpp:724`), so the next run starts at time zero with a last time
ahead of it, the difference wraps, and a garbage average is filed. This takes a rank maze
that starts the timer and is left without a hit, or aggro that changes while a session is
shown. Assumed: the clock does not go back, although it is the system's
(`Type.h`). The new value of a stat weighs the interval before the change; the property
holds either way. Not covered: the division by a time of zero, and `_realClearTime`.

### Proofs: `PlayerMetaProofs`

Assumed: `MetaAssumption` only, with its word that no true sum reaches. Proved for any
clock, cap and set of values:

* `ElapsedCorrect`: `Spec => []ElapsedIsRunning`.
* `TypeCorrect`: `Spec => []TypeOK`.
* `SumsCorrect`: `Spec => []SumsOfRun`.

The invariant `AddsUp` says that start, suspended time and running time add up to the
present while the timer runs, and to the stamp of the suspension while it is suspended.
With `WordIsLarge`, a word holds any time of the clock, no difference of the timer
wraps, so the elapsed time is the running time.

For the sums, `Sums` adds that each of them fits a run of the present length (`FitsRun`):
the last time a value was weighted is not ahead of the timer and the sum is at most the
cap times it, a condition's time before its last start is at most the stamp of that start, and its time,
whether it was last written at its end or by drawing, at most the present one (`FitsSpan`). So every difference a handler takes is of two times in the right order, and
a product with a capped value stays below the word (`CapTimes`). A session is only shown
with the timer off, which is why a change of aggro behind it, weighed by the session's
time, sets `kept`. Nothing of `PlayerMeta` is only model-checked.

## 11. Locks: `UiLocks`

Each handler and each command or window of the UI is the sequence of its steps on locks and
on what they guard, in each way it can take: `Clear`, `SetHistory`, `PushBack` and the others
are sets of such sequences, composed as the code nests its calls. `Guarded` has those that
take the DAMAGEMETER lock, `Unguarded` those that use the meter without it, and the UI
begins with the load of the save file (`Startup`). Any handler runs against any of them, step
by step. Uses of the meter next to each other under one lock are one step. `std::mutex` is not recursive; `try_lock` on a lock the thread
has itself fails, as the library of the build does.

Run `ui_locks`, with deadlock checked:

* `Ends`: the two threads never wait for each other, nor one for itself.
* `FreesOwn`: no thread frees a lock it does not have.
* `OneAtATime`: a handler or a command that takes the DAMAGEMETER lock has the meter and
  the vector of sessions to itself, although `push_back` goes on when its `try_lock` fails,
  as long as the UI is in none of the places that do not take it. These are real races:
  1. the load at the start, once the receiver runs (`main.cpp:66`);
  2. the buttons of the history tab, which look before they ask (`UtillWindow.cpp:76`);
  3. the refresh of its list, which locks the history only (`UtillWindow.cpp:143`);
  4. the selection in it, with `Clear` and `SetHistory` (`UtillWindow.cpp:207`);
  5. the options: the test values, save and exit, and what they show (`Option.cpp:299`,
     `455`, `472`);
  6. the plot window, which walks the players (`PlotWindow.cpp:176`, `386`);
  7. the combat tab, which asks the meter for names under the lock of the combat log
     (`CombatMeter.cpp:101`, `131`, `157`).

There are no bounds: the programs are finite and repeat. Fairness: a thread that can take
its next step does, and a message box is answered. None is assumed of the locks, so `Ends`
says that of two threads at work one ends, and that one alone ends; a stream of packets
may keep the UI waiting. Left out: the lock of the save file, which the UI alone waits
for, members of the combat log and the plot that are read without a lock of their own, and
destructors.

## 12. What is not covered

* Player statistics: sums per player, monster and skill are added up within one handler,
  and no order of calls can make them disagree.
* Buff meter: single buffs. `Buff::_isActive` is read uninitialised, so no bound on an
  uptime holds, and none is claimed anywhere.
* MD5 cache: a map from paths to stamps and hashes. Its one hazard is a file that changes
  between a stat and a hash.
* Hot keys: a set of pressed keys on one thread. What they run is in `DamageMeter` and
  `HookCommand`.
* Socket hooks and load patch (signature search and code patching), how windows look (what
  drawing writes to the player's times is in `PlayerMeta`, its use of the meter in `UiLocks`),
  theme, the game database, language files, logging, the memory pool, and vendored code,
  which is most of the repository by lines: I/O, or no state a property is about.
* Two meters, or two hooked games, on one capture pipe.
* Liveness stays with TLC: TLAPS has no rule here for fairness and ENABLED. The library's
  theorems on induction take an operator, which the installed provers cannot
  instantiate; where a proof needs what a recursive function computes (`Cost`, `Records`,
  `Pushed`, `Kept`, `ServeRead`) it takes a least counterexample in a set of numbers instead.
* Definitions marked "Slip" are the code with one mistake. No specification uses them;
  replacing the definition after them by a slip must violate a property, which shows
  that the property can fail.
