------------------------------ MODULE SaveData ------------------------------
(***************************************************************************)
(* The history of sessions and the file it is saved in.  A run that ends   *)
(* is appended to the file and then to the history; a session that is      *)
(* evicted or deleted goes from both, by its position.  Every change       *)
(* writes a temporary file next to the save file, removes the save file    *)
(* and renames the temporary one; the process may stop in between.         *)
(*                                                                         *)
(* A file is a sequence of words: the version, and one word for each       *)
(* session.  The option to save is on; it only changes with a restart      *)
(* (Option.cpp:1337).  All operations run under the DAMAGEMETER lock, one  *)
(* at a time.                                                              *)
(***************************************************************************)
EXTENDS Integers, Sequences, SequencesExt

CONSTANTS
  File,         \* names of save files
  Default,      \* SoulMeter.dat
  HistorySize,
  MaxRuns,      \* bound on the runs ever saved
  MaxCrashes    \* bound on the times the process stops

ASSUME FileAssumption == Default \in File
ASSUME SizeAssumption ==
  HistorySize \in Nat \ {0} /\ MaxRuns \in Nat \ {0} /\ MaxCrashes \in Nat

Version == 0
OtherVersion == -1
Word == OtherVersion..MaxRuns
None == [op |-> "none"]

VARIABLES
  disk, tmp,     \* the save files that exist, and the <file>.tmp
  up,            \* the process runs, with _saveFile open and _inited set
  name,          \* _saveFileName
  fileNotExist,  \* _fileNotExist
  vector,        \* _historys, and _curIndex as far as it is compared
  astray,        \* no state of the code: history and file have come apart
  job,           \* the Save or Delete under way
  runs, crashes

vars == <<disk, tmp, up, name, fileNotExist, vector, astray, job, runs, crashes>>

Empty == [history |-> <<>>, curIndex |-> 0]

\* An earlier use may have left files: still empty, with one session, in one place
\* or copied to another, or of another version.
Init ==
  /\ \E F \in SUBSET File : disk \in [F -> {<<>>, <<Version, 1>>, <<OtherVersion>>}]
  /\ tmp = <<>>
  /\ up = FALSE /\ name = Default /\ fileNotExist = FALSE
  /\ vector = Empty /\ astray = FALSE /\ job = None
  /\ runs = 1 /\ crashes = 0

-----------------------------------------------------------------------------
\* What Load can read
Readable(w) ==
  \A i \in DOMAIN w : IF i = 1 THEN w[i] = Version ELSE w[i] \in 1..MaxRuns

\* The sessions of a file, up to the first word that is none, where Load throws
Sessions(w) ==
  IF w = <<>> \/ Head(w) # Version THEN <<>>
  ELSE LET bad == {i \in 2..Len(w) : w[i] = Version}
       IN SubSeq(w, 2, IF bad = {} THEN Len(w)
                       ELSE (CHOOSE i \in bad : \A k \in bad : i <= k) - 1)

\* push_back, without the file.

\* Slip: the oldest session is not evicted.
PushMore(v, r) ==
  [history |-> Append(v.history, r),
   curIndex |-> IF v.curIndex < HistorySize THEN v.curIndex + 1 ELSE v.curIndex]

Full(v) == v.curIndex >= HistorySize /\ v.history # <<>>

Push(v, r) ==
  [history |-> Append(IF Full(v) THEN Tail(v.history) ELSE v.history, r),
   curIndex |-> IF v.curIndex < HistorySize THEN v.curIndex + 1 ELSE v.curIndex]

\* The history v after the sessions s, one after the other
Pushed(v, s) ==
  LET after[n \in 0..Len(s)] == IF n = 0 THEN v ELSE Push(after[n - 1], s[n])
  IN after[Len(s)]

\* Slip: the first record counts as number zero.
KeptFromZero(w, index, clearCount) ==
  LET after[n \in 0..Len(w) - 1] ==
        IF n = 0 THEN <<Version>>
        ELSE IF index # n - 1 /\ n > clearCount THEN Append(after[n - 1], w[n + 1])
        ELSE after[n - 1]
  IN after[Len(w) - 1]

\* What Delete writes to the temporary file, record after record
Kept(w, index, clearCount) ==
  LET after[n \in 0..Len(w) - 1] ==
        IF n = 0 THEN <<Version>>
        ELSE IF index # n /\ n > clearCount THEN Append(after[n - 1], w[n + 1])
        ELSE after[n - 1]
  IN after[Len(w) - 1]

\* A directory with the file f made, or written anew, and with it removed
With(d, f, w) == [g \in DOMAIN d \cup {f} |-> IF g = f THEN w ELSE d[g]]
Without(d, f) == [g \in DOMAIN d \ {f} |-> d[g]]

\* The process ends; it forgets all but its files.
Stop ==
  /\ up' = FALSE /\ name' = Default /\ fileNotExist' = FALSE
  /\ vector' = Empty /\ astray' = FALSE /\ job' = None

\* Delete: nothing to do on a file without sessions.  Where a second version word is
\* taken for a size, the record is beyond any memory and beyond the end of the file:
\* to copy it throws, to skip it ends the loop and with it the file.
Delete(j, index, clearCount) ==
  LET w == disk[name]
      read == <<Version>> \o Sessions(w)
      n == Len(read)  \* the number of the misread record
  IN IF Len(w) <= 1
     THEN /\ job' = [j EXCEPT !.stage = "renamed"]
          /\ UNCHANGED <<tmp, up, name, fileNotExist, vector, astray>>
     ELSE /\ tmp' = With(tmp, name, Kept(read, index, clearCount))
          /\ IF n = Len(w) \/ index = n \/ n <= clearCount
             THEN /\ job' = [j EXCEPT !.stage = "written"]
                  /\ UNCHANGED <<up, name, fileNotExist, vector, astray>>
             ELSE Stop

Job(op, arg) == [op |-> op, arg |-> arg, stage |-> "new"]

\* Init and Load of a file that can be read.  Evictions while it is read leave the
\* file alone (_inited is not set yet); the surplus is deleted at the end.
Open(f, v) ==
  LET w == IF f \in DOMAIN disk THEN disk[f] ELSE <<>>
      clearCount == Len(w) - 1 - HistorySize
  IN /\ Readable(w)
     /\ disk' = With(disk, f, w)
     /\ up' = TRUE /\ name' = f
     /\ fileNotExist' = (w = <<>> \/ fileNotExist)
     /\ vector' = Pushed(v, Sessions(w)) /\ astray' = (v # Empty)
     /\ IF clearCount > 0
        THEN /\ tmp' = With(tmp, f, Kept(w, -1, clearCount))
             /\ job' = [Job("prune", 0) EXCEPT !.stage = "written"]
        ELSE job' = None /\ UNCHANGED tmp

-----------------------------------------------------------------------------
Start == ~up /\ Open(Default, Empty) /\ UNCHANGED <<runs, crashes>>

\* The load dialog.  A file that cannot be read is given up for the default one,
\* which is added to what was read of it; without that the process exits.
LoadFile ==
  /\ up /\ job = None
  /\ \E f \in DOMAIN disk :
       LET read == Pushed(Empty, Sessions(disk[f]))
       IN \/ Open(f, Empty)
          \/ ~Readable(disk[f]) /\ Open(Default, read)
          \/ /\ ~Readable(disk[f]) /\ Default \in DOMAIN disk /\ ~Readable(disk[Default])
             /\ Stop /\ UNCHANGED <<disk, tmp>>
  /\ UNCHANGED <<runs, crashes>>

\* The save dialog.  Copying onto a file that is there throws.
Clone ==
  /\ up /\ job = None /\ vector.history # <<>>
  /\ \E f \in File :
       IF f \in DOMAIN disk
       THEN Stop /\ UNCHANGED disk
       ELSE /\ disk' = With(disk, f, disk[name])
            /\ UNCHANGED <<up, name, fileNotExist, vector, astray, job>>
  /\ UNCHANGED <<tmp, runs, crashes>>

\* Slip: the temporary file starts empty.
SaveNew ==
  /\ up /\ job = None /\ runs < MaxRuns
  /\ runs' = runs + 1
  /\ tmp' = With(tmp, name, <<Version, runs + 1>>)
  /\ fileNotExist' = FALSE
  /\ job' = [Job("save", runs + 1) EXCEPT !.stage = "written"]
  /\ UNCHANGED <<disk, up, name, vector, astray, crashes>>

\* A run ends and is saved, to the end of a copy of the file.
Save ==
  /\ up /\ job = None /\ runs < MaxRuns
  /\ runs' = runs + 1
  /\ LET header == IF fileNotExist THEN <<Version>> ELSE <<>>
     IN tmp' = With(tmp, name, disk[name] \o header \o <<runs + 1>>)
  /\ fileNotExist' = FALSE
  /\ astray' = (astray \/ (fileNotExist /\ disk[name] # <<>>))
  /\ job' = [Job("save", runs + 1) EXCEPT !.stage = "written"]
  /\ UNCHANGED <<disk, up, name, vector, crashes>>

RemoveOld ==
  /\ up /\ job # None /\ job.stage = "written"
  /\ disk' = Without(disk, name)
  /\ job' = [job EXCEPT !.stage = "removed"]
  /\ UNCHANGED <<tmp, up, name, fileNotExist, vector, astray, runs, crashes>>

Rename ==
  /\ up /\ job # None /\ job.stage = "removed"
  /\ disk' = With(disk, name, tmp[name])
  /\ tmp' = Without(tmp, name)
  /\ job' = [job EXCEPT !.stage = "renamed"]
  /\ UNCHANGED <<up, name, fileNotExist, vector, astray, runs, crashes>>

\* push_back of the run that was saved deletes the oldest session from the file
\* first if it is to go.
Evict ==
  /\ up /\ job # None /\ job.stage = "renamed" /\ job.op = "save" /\ Full(vector)
  /\ Delete([job EXCEPT !.op = "evict"], 1, -1)
  /\ UNCHANGED <<disk, runs, crashes>>

DeleteSelected ==
  /\ up /\ job = None
  /\ \E i \in DOMAIN vector.history : Delete(Job("delete", i), i, -1)
  /\ UNCHANGED <<disk, runs, crashes>>

ClearAll ==
  /\ up /\ job = None /\ vector.history # <<>>
  /\ Delete(Job("clear", 0), -1, HistorySize)
  /\ UNCHANGED <<disk, runs, crashes>>

\* With the file done, the history follows.
Finish ==
  /\ up /\ job # None /\ job.stage = "renamed"
  /\ job.op = "save" => ~Full(vector)
  /\ vector' = CASE job.op \in {"save", "evict"} -> Push(vector, job.arg)
                 [] job.op = "delete" -> [vector EXCEPT !.history = RemoveAt(@, job.arg)]
                 [] job.op = "clear" -> Empty
                 [] job.op = "prune" -> vector
  /\ job' = None
  /\ UNCHANGED <<disk, tmp, up, name, fileNotExist, astray, runs, crashes>>

\* Or exit(1) after a rename that failed
Crash ==
  /\ up /\ crashes < MaxCrashes
  /\ crashes' = crashes + 1
  /\ Stop
  /\ UNCHANGED <<disk, tmp, runs>>

Next ==
  \/ Start \/ LoadFile \/ Clone
  \/ Save \/ RemoveOld \/ Rename \/ Evict \/ DeleteSelected \/ ClearAll \/ Finish
  \/ Crash

Spec == Init /\ [][Next]_vars

-----------------------------------------------------------------------------
\* The state is well formed, and the history never outgrows its size.
TypeOK ==
  /\ DOMAIN disk \subseteq File /\ \A f \in DOMAIN disk : disk[f] \in Seq(Word)
  /\ DOMAIN tmp \subseteq File /\ \A f \in DOMAIN tmp : tmp[f] \in Seq(Word)
  /\ {up, fileNotExist, astray} \subseteq BOOLEAN /\ name \in File
  /\ vector.history \in Seq(1..MaxRuns) /\ Len(vector.history) <= HistorySize
  /\ vector.curIndex \in Len(vector.history)..HistorySize
  /\ job = None \/ job.stage \in {"written", "removed", "renamed"}
  /\ runs \in 1..MaxRuns /\ crashes \in 0..MaxCrashes

\* SaveData.h:15, "XOR( [Loop [[History Size]-[History Data]]  ] )": after the
\* version a file is a loop of records, and can be read.
FilesReadable ==
  \A f \in DOMAIN disk : disk[f] # <<OtherVersion>> => Readable(disk[f])

\* The position of a session in the history is its position in the file, whatever
\* was saved, evicted, deleted, loaded, pruned or cut short before: Delete(index)
\* removes the session the user sees there.  From the moment a second version word is
\* written, or a file is added to what was read of another, that is lost; the next
\* file that is loaded restores it.
AgreesWithFile ==
  up /\ job = None /\ ~astray => vector.history = Sessions(disk[name])

\* Wherever the process stops, loading its file again gives every session of the
\* history but those it was deleting.  The one exception is between RemoveOld and
\* Rename: then they are in the temporary file, which nothing loads.
OnDisk ==
  LET doomed == CASE job.op = "evict" -> {Head(vector.history)}
                  [] job.op = "delete" -> {vector.history[job.arg]}
                  [] job.op = "clear" -> Range(vector.history)
                  [] OTHER -> {}
      moving == job # None /\ job.stage = "removed"
  IN up /\ ~astray =>
       Range(vector.history) \ doomed
         \subseteq Range(Sessions(IF moving THEN tmp[name] ELSE disk[name]))
====
