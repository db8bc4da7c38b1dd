-------------------------- MODULE BlockCacheProofs --------------------------
(***************************************************************************)
(* The cache of blocks, for any files, handles, threads, sizes of block    *)
(* and of the tables, and any way the handles hash: with it the game reads *)
(* what it would read without it, and a handle once given up is not served *)
(* again.                                                                  *)
(*                                                                         *)
(* A step is about one handle.  What it does to the table concerns the     *)
(* entries of that handle only (OnlyOf), so that all the others stand      *)
(* where they stood, and what it reads is the file as long as every block  *)
(* holds the bytes it is filed under (Held).                               *)
(***************************************************************************)
EXTENDS BlockCache, TLAPS, SequenceTheorems, WellFoundedInduction

Access == {"read", "overlapped"}

\* A handle as the system has it, while it is open
Opened == [file : File, access : Access, pos : Nat]

\* A file of the cache, a block that holds what its file does at its place, an entry of
\* the table of handles, and the part of a call that is outside the lock
Cached == [name : Archive, size : Nat \cup {Unknown}]
Block(fs, i, k) == [id |-> i, idx |-> k, bytes |-> OS!Bytes(fs[i].name, k * KBlock, KBlock)]
Held(fs) == {NoBlock} \cup {Block(fs, i, k) : i \in DOMAIN fs, k \in Nat}
Tracked(n) ==
  {NoEntry} \cup [live : {TRUE}, h : Handle \cup {Old}, id : NoFile..n, pos : Nat]
Calling ==
  {Idle} \cup [op : {"note"}, file : File, access : Access] \cup [op : {"close"}, pos : Nat]

Cache(fs) == [1..Sets -> [way : [Way -> Held(fs)], last : Way]]

Typed ==
  /\ real \in [Handle -> {OS!Closed} \cup Opened]
  /\ ready \in BOOLEAN
  /\ files \in Seq(Cached) /\ Len(files) <= MaxFiles
  /\ blocks \in Cache(files)
  /\ table \in [Slot -> Tracked(Len(files))]
  /\ call \in [Handle -> Calling]

\* A size that is known is the one of the file.
Sized == \A i \in DOMAIN files : files[i].size \in {Unknown, Len(Contents[files[i].name])}

\* Nothing is tracked before the hooks are there.
Untouched == ready = FALSE => table = [s \in Slot |-> NoEntry]

\* FindHandle and what follows from it, for any table
HasIn(t, s, h) == t[s].live /\ t[s].h = h
At(t, h) == {p \in 1..Probe : HasIn(t, Group[h][p], h)}
Found(t, h) == {Group[h][p] : p \in {p \in At(t, h) : \A q \in At(t, h) : p <= q}}
ServedIn(t, h) == {s \in Found(t, h) : t[s].id # NoFile}
PosIn(o, t, h) ==
  LET at == ServedIn(t, h)
  IN IF at = {} THEN o.pos ELSE t[CHOOSE s \in at : TRUE].pos

\* What the system, the table, the files and the part of a call say of a handle fits: one
\* that is not noted yet has just been opened, one that is being closed is open, and one
\* that is served is for reading, of the file its entry names.
Fit(o, t, fs, c, h) ==
  /\ c.op = "note" => o = [file |-> c.file, access |-> c.access, pos |-> 0]
  /\ c.op = "close" => o # OS!Closed
  /\ c = Idle /\ o # OS!Closed =>
       \A s \in ServedIn(t, h) : o.access = "read" /\ fs[t[s].id].name = o.file

IInv ==
  Typed /\ Sized /\ Untouched /\ \A h \in Handle : Fit(real[h], table, files, call[h], h)

-----------------------------------------------------------------------------
(* The table of handles *)

\* From table t to table u only entries of h come, go or change.
OnlyOf(t, u, h) ==
  \A g \in Handle, s \in Slot :
    g # h => /\ HasIn(u, s, g) <=> HasIn(t, s, g)
             /\ HasIn(t, s, g) => u[s] = t[s]

LEMMA TableIs ==
  ASSUME NEW h \in Handle
  PROVE  /\ FindHandle(h) = Found(table, h)
         /\ ServingSlots(h) = ServedIn(table, h)
         /\ Served(h) <=> ServedIn(table, h) # {}
         /\ Position(h) = PosIn(real[h], table, h)
<1>1. FindHandle(h) = Found(table, h)
  BY Zenon DEF FindHandle, Found, At, Has, HasIn
<1>2. ServingSlots(h) = ServedIn(table, h)
  BY <1>1, Zenon DEF ServingSlots, ServedIn
<1>3. Served(h) <=> ServedIn(table, h) # {}
  BY <1>2, Zenon DEF Served
<1>4. Position(h) = PosIn(real[h], table, h)
  BY Zenon DEF Position, PosIn, ServingSlots, ServedIn, FindHandle, Found, At, Has, HasIn
<1> QED
  BY <1>1, <1>2, <1>3, <1>4

\* The same of the table after a step
LEMMA TableWillBe ==
  ASSUME NEW h \in Handle
  PROVE  /\ FindHandle(h)' = Found(table', h)
         /\ Served(h)' <=> ServedIn(table', h) # {}
         /\ Position(h)' = PosIn(real'[h], table', h)
<1>1. FindHandle(h)' = Found(table', h)
  BY Zenon DEF FindHandle, Found, At, Has, HasIn
<1>2. ServingSlots(h)' = ServedIn(table', h)
  BY <1>1, Zenon DEF ServingSlots, ServedIn
<1>3. Served(h)' <=> ServedIn(table', h) # {}
  BY <1>2, Zenon DEF Served
<1>4. Position(h)' = PosIn(real'[h], table', h)
  BY Zenon DEF Position, PosIn, ServingSlots, ServedIn, FindHandle, Found, At, Has, HasIn
<1> QED
  BY <1>1, <1>3, <1>4

LEMMA LeastOf ==
  ASSUME NEW T, T \subseteq Nat, T # {}
  PROVE  \E x \in T : \A y \in T : x <= y
<1>1. PICK x \in T : \A y \in T : ~ (<<y, x>> \in OpToRel(<, Nat))
  BY NatLessThanWellFounded, WFMin, Zenon
<1>2. \A y \in T : ~(y < x)
  <2> SUFFICES ASSUME NEW y \in T, y < x
               PROVE  FALSE
    OBVIOUS
  <2>1. <<y, x>> \in Nat \X Nat /\ <<y, x>>[1] = y /\ <<y, x>>[2] = x
    OBVIOUS
  <2>2. <<y, x>> \in OpToRel(<, Nat)
    BY <2>1, Zenon DEF OpToRel
  <2> QED
    BY <1>1, <2>2, Zenon
<1> QED
  BY <1>2

LEMMA GroupIs ==
  ASSUME NEW h \in Handle, NEW p \in 1..Probe
  PROVE  Group[h][p] \in Slot
<1>1. HandleSlots \in Nat \ {0} /\ HSlot[h] \in 0..HandleSlots - 1 /\ Probe \in Nat
  BY CacheAssumption
<1>2. (HSlot[h] + p - 1) \in Int
  BY <1>1
<1>3. (HSlot[h] + p - 1) % HandleSlots \in 0..HandleSlots - 1
  BY <1>1, <1>2
<1> QED
  BY <1>3, Zenon DEF Group, Slot

\* What is found is one slot, the first, with an entry of the handle, or there is none.
One(t, h, s) == s \in Slot /\ HasIn(t, s, h) /\ Found(t, h) = {s}
None(t, h) == Found(t, h) = {} /\ \A p \in 1..Probe : ~HasIn(t, Group[h][p], h)

LEMMA FoundIs ==
  ASSUME NEW t, NEW h \in Handle
  PROVE  None(t, h) \/ \E s : One(t, h, s)
<1>1. CASE At(t, h) = {}
  BY <1>1, Zenon DEF None, Found, At
<1>2. CASE At(t, h) # {}
  <2>1. At(t, h) \subseteq Nat
    BY CacheAssumption DEF At
  <2>2. PICK p \in At(t, h) : \A q \in At(t, h) : p <= q
    BY <1>2, <2>1, LeastOf, Zenon
  <2>3. \A r \in At(t, h) : (\A q \in At(t, h) : r <= q) => r = p
    BY <2>1, <2>2
  <2>4. {r \in At(t, h) : \A q \in At(t, h) : r <= q} = {p}
    BY <2>2, <2>3, Zenon
  <2>5. Found(t, h) = {Group[h][p]}
    BY <2>4, Zenon DEF Found
  <2>6. p \in 1..Probe /\ HasIn(t, Group[h][p], h)
    BY <2>2, Zenon DEF At
  <2> QED
    BY <2>5, <2>6, GroupIs, Zenon DEF One
<1> QED
  BY <1>1, <1>2, Zenon

\* Tables with the same entries of a handle are the same to it.
LEMMA SameFound ==
  ASSUME NEW t, NEW u, NEW h \in Handle,
         \A s \in Slot : HasIn(u, s, h) <=> HasIn(t, s, h)
  PROVE  Found(u, h) = Found(t, h)
<1>1. \A p \in 1..Probe : HasIn(u, Group[h][p], h) <=> HasIn(t, Group[h][p], h)
  BY GroupIs, Zenon
<1>2. At(u, h) = At(t, h)
  BY <1>1, Zenon DEF At
<1> QED
  BY <1>2, Zenon DEF Found

LEMMA OthersFound ==
  ASSUME NEW t, NEW u, NEW h, OnlyOf(t, u, h), NEW g \in Handle, g # h
  PROVE  /\ Found(u, g) = Found(t, g)
         /\ ServedIn(u, g) = ServedIn(t, g)
         /\ \A s \in Found(t, g) : u[s] = t[s]
         /\ \A o : PosIn(o, u, g) = PosIn(o, t, g)
<1>1. Found(u, g) = Found(t, g)
  BY SameFound, Zenon DEF OnlyOf
<1>2. \A s \in Found(t, g) : u[s] = t[s]
  <2>1. CASE None(t, g)
    BY <2>1, Zenon DEF None
  <2>2. CASE \E s : One(t, g, s)
    <3>1. PICK s : One(t, g, s)
      BY <2>2, Zenon
    <3>2. u[s] = t[s]
      BY <3>1, Zenon DEF One, OnlyOf
    <3> QED
      BY <3>1, <3>2, Zenon DEF One
  <2> QED
    BY <2>1, <2>2, FoundIs, Zenon
<1>3. ServedIn(u, g) = ServedIn(t, g)
  BY <1>1, <1>2, Zenon DEF ServedIn
<1>4. ASSUME NEW o
      PROVE  PosIn(o, u, g) = PosIn(o, t, g)
  <2> DEFINE at == ServedIn(t, g)
             s == CHOOSE s \in at : TRUE
  <2>1. CASE at = {}
    BY <1>3, <2>1, Zenon DEF PosIn
  <2>2. CASE at # {}
    <3>1. s \in at
      BY <2>2, Zenon
    <3>2. u[s] = t[s]
      BY <1>2, <3>1, Zenon DEF ServedIn
    <3>3. PosIn(o, u, g) = u[s].pos /\ PosIn(o, t, g) = t[s].pos
      BY <1>3, <2>2, Zenon DEF PosIn
    <3> QED
      BY <3>2, <3>3, Zenon
  <2> QED
    BY <2>1, <2>2, Zenon
<1> QED
  BY <1>1, <1>2, <1>3, <1>4, Zenon

LEMMA NoChange ==
  ASSUME NEW t, NEW h
  PROVE  OnlyOf(t, t, h)
BY Zenon DEF OnlyOf

\* An entry of the handle where there was none of another
Entered(h, i, p) == [live |-> TRUE, h |-> h, id |-> i, pos |-> p]

Moved(e, q) == [e EXCEPT !.pos = q]
Reset(e, j, q) == [e EXCEPT !.id = j, !.pos = q]

LEMMA EnteredExcept ==
  ASSUME NEW h, NEW i, NEW p, NEW j, NEW q
  PROVE  /\ Moved(Entered(h, i, p), q) = Entered(h, i, q)
         /\ Reset(Entered(h, i, p), j, q) = Entered(h, j, q)
<1>1. PICK l : l = TRUE
  BY Zenon
<1> DEFINE R(k, x) == [live |-> l, h |-> h, id |-> k, pos |-> x]
<1>2. \A k, x : Entered(h, k, x) = R(k, x)
  BY <1>1, Zenon DEF Entered
<1>3. \A r : [r EXCEPT !.id = j, !.pos = q] = [[r EXCEPT !.id = j] EXCEPT !.pos = q]
  BY Zenon
<1>4. [R(i, p) EXCEPT !.id = j] = R(j, p)
  OBVIOUS
<1>5. [R(j, p) EXCEPT !.pos = q] = R(j, q) /\ [R(i, p) EXCEPT !.pos = q] = R(i, q)
  OBVIOUS
<1> HIDE DEF R
<1> QED
  BY <1>2, <1>3, <1>4, <1>5, Zenon DEF Moved, Reset

EntersAs(n, t, u, s, h, e) ==
  /\ u \in [Slot -> Tracked(n)] /\ OnlyOf(t, u, h)
  /\ u[s] = e /\ HasIn(u, s, h)
  /\ \A r \in Slot : r # s => u[r] = t[r]

LEMMA EnteredIs ==
  ASSUME NEW n \in Nat, NEW t \in [Slot -> Tracked(n)], NEW s \in Slot,
         NEW h \in Handle, t[s].live => t[s].h = h,
         NEW i \in NoFile..n, NEW p \in Nat,
         NEW u, u = [t EXCEPT ![s] = Entered(h, i, p)]
  PROVE  EntersAs(n, t, u, s, h, Entered(h, i, p))
<1> DEFINE e == Entered(h, i, p)
<1>1. e \in Tracked(n) /\ e.live = TRUE /\ e.h = h
  BY DEF Entered, Tracked
<1> HIDE DEF e
<1>2. u[s] = e /\ \A r \in Slot : r # s => u[r] = t[r]
  BY Zenon DEF e
<1>3. u \in [Slot -> Tracked(n)]
  BY <1>1, Zenon DEF e
<1>4. HasIn(u, s, h)
  BY <1>1, <1>2, Zenon DEF HasIn
<1>5. ASSUME NEW g \in Handle, NEW r \in Slot, g # h
      PROVE  /\ HasIn(u, r, g) <=> HasIn(t, r, g)
             /\ HasIn(t, r, g) => u[r] = t[r]
  <2>1. CASE r = s
    BY <1>1, <1>2, <1>5, <2>1, Zenon DEF HasIn
  <2>2. CASE r # s
    BY <1>2, <2>2, Zenon DEF HasIn
  <2> QED
    BY <2>1, <2>2
<1>6. OnlyOf(t, u, h)
  BY <1>5, Zenon DEF OnlyOf
<1> QED
  BY <1>2, <1>3, <1>4, <1>6, Zenon DEF e, EntersAs

\* BindHandle: the entry of the handle is then the first of them, or there is no room
\* and there was none.
Bound(t, u, h, i) ==
  \/ u = t /\ None(t, h)
  \/ \E s \in Slot : /\ t[s].live => t[s].h = h
                     /\ u = [t EXCEPT ![s] = Entered(h, i, 0)]
                     /\ Found(u, h) = {s}

LEMMA BindIs ==
  ASSUME NEW n \in Nat, table \in [Slot -> Tracked(n)], NEW h \in Handle, NEW i \in NoFile..n
  PROVE  Bound(table, BindHandle(h, i), h, i)
<1> DEFINE free == {p \in 1..Probe : table[Group[h][p]].live => table[Group[h][p]].h = h}
           first == CHOOSE p \in free : \A q \in free : p <= q
           u == BindHandle(h, i)
<1>1. /\ free = {} => u = table
      /\ free # {} => u = [table EXCEPT ![Group[h][first]] = Entered(h, i, 0)]
  BY Zenon DEF BindHandle, Entered
<1> HIDE DEF u
<1>2. CASE free = {}
  <2>1. \A p \in 1..Probe : ~HasIn(table, Group[h][p], h)
    BY <1>2, Zenon DEF HasIn
  <2>2. Found(table, h) = {}
    BY <2>1, Zenon DEF Found, At
  <2> QED
    BY <1>1, <1>2, <2>1, <2>2, Zenon DEF Bound, None, u
<1>3. CASE free # {}
  <2> DEFINE s == Group[h][first]
  <2>1. free \subseteq Nat
    BY CacheAssumption
  <2>2. first \in free /\ \A q \in free : first <= q
    <3> HIDE DEF free
    <3>1. \E p \in free : \A q \in free : p <= q
      BY <1>3, <2>1, LeastOf, Zenon
    <3> QED
      BY <3>1, Zenon
  <2>3. first \in 1..Probe /\ s \in Slot /\ (table[s].live => table[s].h = h)
    BY <2>2, GroupIs, Zenon
  <2> HIDE DEF first
  <2>4. u = [table EXCEPT ![s] = Entered(h, i, 0)]
    BY <1>1, <1>3, Zenon
  <2>5. 0 \in Nat
    OBVIOUS
  <2> HIDE DEF s
  <2>6. HasIn(u, s, h) /\ \A r \in Slot : r # s => u[r] = table[r]
    <3>1. EntersAs(n, table, u, s, h, Entered(h, i, 0))
      BY <2>3, <2>4, <2>5, EnteredIs, Zenon
    <3> QED
      BY <3>1, Zenon DEF EntersAs
  <2>7. \A q \in At(u, h) : q \in free
    <3> SUFFICES ASSUME NEW q \in At(u, h)
                 PROVE  q \in free
      OBVIOUS
    <3>1. q \in 1..Probe /\ HasIn(u, Group[h][q], h) /\ Group[h][q] \in Slot
      BY GroupIs, Zenon DEF At
    <3>2. table[Group[h][q]].live => table[Group[h][q]].h = h
      BY <2>3, <2>6, <3>1, Zenon DEF HasIn
    <3> QED
      BY <3>1, <3>2, Zenon
  <2>8. first \in At(u, h)
    BY <2>3, <2>6, Zenon DEF At, s
  <2> HIDE DEF free
  <2>9. \A q \in At(u, h) : first <= q /\ q \in Nat /\ (q <= first => q = first)
    <3> SUFFICES ASSUME NEW q \in At(u, h)
                 PROVE  first <= q /\ q \in Nat /\ (q <= first => q = first)
      OBVIOUS
    <3>1. q \in free /\ first \in free
      BY <2>2, <2>7, Zenon
    <3>2. first <= q /\ q \in Nat /\ first \in Nat
      BY <2>1, <2>2, <3>1, Zenon
    <3> QED
      BY <3>2
  <2>10. \A r \in At(u, h) : (\A q \in At(u, h) : r <= q) <=> r = first
    BY <2>8, <2>9, Zenon
  <2>11. {r \in At(u, h) : \A q \in At(u, h) : r <= q} = {first}
    BY <2>8, <2>10, Zenon
  <2>12. Found(u, h) = {s}
    BY <2>11, Zenon DEF Found, s
  <2> QED
    BY <2>3, <2>4, <2>12, Zenon DEF Bound, u
<1> QED
  BY <1>2, <1>3, Zenon

LEMMA ClosedIs ==
  ASSUME NEW n \in Nat, NEW t \in [Slot -> Tracked(n)], NEW h \in Handle,
         NEW u, u = [s \in Slot |-> IF s \in Found(t, h) THEN NoEntry ELSE t[s]]
  PROVE  u \in [Slot -> Tracked(n)] /\ OnlyOf(t, u, h)
<1>1. NoEntry \in Tracked(n) /\ NoEntry.live = FALSE
  BY DEF NoEntry, Tracked
<1>2. u \in [Slot -> Tracked(n)]
  BY <1>1, Zenon
<1>3. \A s \in Found(t, h) : HasIn(t, s, h)
  BY FoundIs, Zenon DEF None, One
<1>4. ASSUME NEW g \in Handle, NEW s \in Slot, g # h
      PROVE  /\ HasIn(u, s, g) <=> HasIn(t, s, g)
             /\ HasIn(t, s, g) => u[s] = t[s]
  <2>1. CASE s \in Found(t, h)
    <3>1. u[s] = NoEntry /\ t[s].h = h
      BY <1>3, <2>1, Zenon DEF HasIn
    <3>2. ~HasIn(u, s, g) /\ ~HasIn(t, s, g)
      BY <1>1, <1>4, <3>1, Zenon DEF HasIn
    <3> QED
      BY <3>2
  <2>2. CASE s \notin Found(t, h)
    BY <2>2, Zenon DEF HasIn
  <2> QED
    BY <2>1, <2>2
<1> QED
  BY <1>2, <1>4, Zenon DEF OnlyOf

\* An entry that serves its handle
Serves(t, n, h, s) ==
  /\ s \in Slot /\ HasIn(t, s, h) /\ Found(t, h) = {s} /\ ServedIn(t, h) = {s}
  /\ t[s] = Entered(h, t[s].id, t[s].pos)
  /\ t[s].id \in 1..n /\ t[s].pos \in Nat

LEMMA ServedIs ==
  ASSUME NEW n \in Nat, NEW t \in [Slot -> Tracked(n)], NEW h \in Handle,
         NEW s \in ServedIn(t, h)
  PROVE  Serves(t, n, h, s)
<1>0. s \in Found(t, h) /\ t[s].id # NoFile
  BY Zenon DEF ServedIn
<1>1. One(t, h, s)
  <2>1. None(t, h) \/ \E r : One(t, h, r)
    BY FoundIs, Zenon
  <2> QED
    BY <1>0, <2>1, Zenon DEF None, One
<1>2. s \in Slot /\ HasIn(t, s, h) /\ Found(t, h) = {s}
  BY <1>1, Zenon DEF One
<1>4. ServedIn(t, h) = {s}
  BY <1>0, <1>2, Zenon DEF ServedIn
<1>5. t[s] \in Tracked(n) /\ t[s].live /\ t[s].h = h
  BY <1>2, Zenon DEF HasIn
<1>6. /\ t[s] = Entered(h, t[s].id, t[s].pos)
      /\ t[s].id \in NoFile..n /\ t[s].pos \in Nat
  <2>1. t[s] \in [live : {TRUE}, h : Handle \cup {Old}, id : NoFile..n, pos : Nat]
    <3>1. t[s] # NoEntry
      BY <1>5 DEF NoEntry
    <3> QED
      BY <1>5, <3>1, Zenon DEF Tracked
  <2> DEFINE e == t[s]
  <2>2. e.h = h
    BY <1>5, Zenon
  <2> HIDE DEF e
  <2>3. e = Entered(h, e.id, e.pos) /\ e.id \in NoFile..n /\ e.pos \in Nat
    BY <2>1, <2>2 DEF Entered, e
  <2> QED
    BY <2>3, Zenon DEF e
<1>7. t[s].id \in 1..n
  BY <1>0, <1>6 DEF NoFile
<1> QED
  BY <1>2, <1>4, <1>6, <1>7, Zenon DEF Serves

LEMMA ServingIs ==
  ASSUME NEW n \in Nat, table \in [Slot -> Tracked(n)], NEW h \in Handle,
         ServedIn(table, h) # {}
  PROVE  Serves(table, n, h, SlotOf(h))
<1>1. PICK s \in ServedIn(table, h) : TRUE
  OBVIOUS
<1>2. Serves(table, n, h, s)
  BY ServedIs, Zenon
<1>3. FindHandle(h) = {s}
  BY <1>2, TableIs, Zenon DEF Serves
<1>4. SlotOf(h) = s
  BY <1>3, Zenon DEF SlotOf
<1> QED
  BY <1>2, <1>4, Zenon

LEMMA PosIs ==
  ASSUME NEW t, NEW h
  PROVE  /\ ServedIn(t, h) = {} => \A o : PosIn(o, t, h) = o.pos
         /\ \A n, s, o : Serves(t, n, h, s) => PosIn(o, t, h) = t[s].pos
<1>1. ServedIn(t, h) = {} => \A o : PosIn(o, t, h) = o.pos
  BY Zenon DEF PosIn
<1>2. ASSUME NEW n, NEW s, NEW o, Serves(t, n, h, s)
      PROVE  PosIn(o, t, h) = t[s].pos
  <2>1. ServedIn(t, h) = {s}
    BY <1>2, Zenon DEF Serves
  <2> QED
    BY <2>1, Zenon DEF PosIn
<1> QED
  BY <1>1, <1>2, Zenon

\* The position of an entry moves.
MovesTo(t, u, s, p) == u = [t EXCEPT ![s].pos = p]

LEMMA MovedIs ==
  ASSUME NEW n \in Nat, NEW t \in [Slot -> Tracked(n)], NEW h \in Handle, NEW s,
         Serves(t, n, h, s), NEW p \in Nat, NEW u, MovesTo(t, u, s, p)
  PROVE  /\ u \in [Slot -> Tracked(n)] /\ OnlyOf(t, u, h) /\ Serves(u, n, h, s)
         /\ u[s].pos = p /\ u[s].id = t[s].id
<1>1. /\ s \in Slot /\ t[s].h = h /\ t[s].id \in 1..n
      /\ t[s] = Entered(h, t[s].id, t[s].pos)
      /\ HasIn(t, s, h) /\ Found(t, h) = {s} /\ ServedIn(t, h) = {s}
  BY Zenon DEF Serves, HasIn
<1> DEFINE i == t[s].id
<1>2. i \in NoFile..n /\ i \in 1..n /\ i # NoFile
  BY <1>1 DEF NoFile
<1>3. u = [t EXCEPT ![s] = Entered(h, i, p)]
  <2> DEFINE q == t[s].pos
  <2>0. t[s] = Entered(h, i, q)
    BY <1>1, Zenon
  <2> HIDE DEF i, q
  <2>1. [t[s] EXCEPT !.pos = p] = Entered(h, i, p)
    <3>1. Moved(Entered(h, i, q), p) = Entered(h, i, p)
      BY EnteredExcept
    <3>2. Moved(t[s], p) = Entered(h, i, p)
      BY <2>0, <3>1, Zenon
    <3> QED
      BY <3>2, Zenon DEF Moved
  <2> QED
    BY <2>1, Zenon DEF MovesTo
<1> HIDE DEF i
<1>4. /\ u \in [Slot -> Tracked(n)] /\ OnlyOf(t, u, h)
      /\ u[s] = Entered(h, i, p) /\ HasIn(u, s, h)
      /\ \A r \in Slot : r # s => u[r] = t[r]
  <2>1. EntersAs(n, t, u, s, h, Entered(h, i, p))
    BY <1>1, <1>2, <1>3, EnteredIs, Zenon
  <2> QED
    BY <2>1, Zenon DEF EntersAs
<1>5. u[s].id = i /\ u[s].pos = p
  BY <1>4 DEF Entered
<1>6. \A r \in Slot : HasIn(u, r, h) <=> HasIn(t, r, h)
  BY <1>1, <1>4, Zenon DEF HasIn
<1>7. Found(u, h) = {s}
  <2>1. Found(u, h) = Found(t, h)
    BY <1>6, SameFound, Zenon
  <2> QED
    BY <1>1, <2>1, Zenon
<1>8. ServedIn(u, h) = {s}
  BY <1>2, <1>5, <1>7, Zenon DEF ServedIn
<1>9. Serves(u, n, h, s)
  BY <1>1, <1>2, <1>4, <1>5, <1>7, <1>8, Zenon DEF Serves
<1> QED
  BY <1>4, <1>5, <1>9, Zenon DEF i

\* DisableLocked: the entry stays, and does not serve any more.
DropsTo(t, u, s) == u = [t EXCEPT ![s].id = NoFile, ![s].pos = 0]

LEMMA DroppedIs ==
  ASSUME NEW n \in Nat, NEW t \in [Slot -> Tracked(n)], NEW h \in Handle, NEW s,
         Serves(t, n, h, s), NEW u, DropsTo(t, u, s)
  PROVE  u \in [Slot -> Tracked(n)] /\ OnlyOf(t, u, h) /\ ServedIn(u, h) = {}
<1>1. /\ s \in Slot /\ t[s].h = h /\ t[s] = Entered(h, t[s].id, t[s].pos)
      /\ HasIn(t, s, h) /\ Found(t, h) = {s}
  BY Zenon DEF Serves, HasIn
<1>2. NoFile \in NoFile..n /\ 0 \in Nat
  BY DEF NoFile
<1>3. u = [t EXCEPT ![s] = Entered(h, NoFile, 0)]
  <2>1. u[s] = Entered(h, NoFile, 0)
    <3>1. [t[s] EXCEPT !.id = NoFile, !.pos = 0] = Entered(h, NoFile, 0)
      <4>1. PICK i, p : t[s] = Entered(h, i, p)
        BY <1>1, Zenon
      <4>2. Reset(Entered(h, i, p), NoFile, 0) = Entered(h, NoFile, 0)
        BY EnteredExcept
      <4>3. Reset(t[s], NoFile, 0) = Entered(h, NoFile, 0)
        BY <4>1, <4>2, Zenon
      <4> QED
        BY <4>3, Zenon DEF Reset
    <3>2. u[s] = [t[s] EXCEPT !.id = NoFile, !.pos = 0]
      BY <1>1 DEF DropsTo
    <3> QED
      BY <3>1, <3>2, Zenon
  <2>2. DOMAIN u = Slot /\ \A r \in Slot : r # s => u[r] = t[r]
    BY <1>1 DEF DropsTo
  <2>3. u = [r \in Slot |-> u[r]]
    BY <1>1, Zenon DEF DropsTo
  <2> QED
    BY <2>1, <2>2, <2>3
<1>4. /\ u \in [Slot -> Tracked(n)] /\ OnlyOf(t, u, h)
      /\ u[s] = Entered(h, NoFile, 0) /\ HasIn(u, s, h)
      /\ \A r \in Slot : r # s => u[r] = t[r]
  <2>1. EntersAs(n, t, u, s, h, Entered(h, NoFile, 0))
    BY <1>1, <1>2, <1>3, EnteredIs, Zenon
  <2> QED
    BY <2>1, Zenon DEF EntersAs
<1>5. u[s].id = NoFile
  BY <1>4 DEF Entered
<1>6. \A r \in Slot : HasIn(u, r, h) <=> HasIn(t, r, h)
  BY <1>1, <1>4, Zenon DEF HasIn
<1>7. Found(u, h) = {s}
  <2>1. Found(u, h) = Found(t, h)
    BY <1>6, SameFound, Zenon
  <2> QED
    BY <1>1, <2>1, Zenon
<1> QED
  BY <1>4, <1>5, <1>7, Zenon DEF ServedIn

-----------------------------------------------------------------------------
(* The blocks, and a read of several of them *)
Part(s, from, to) == SubSeq(s, from + 1, to)

LEMMA ContentsAre ==
  ASSUME NEW f \in File
  PROVE  Contents[f] \in Seq(Range(Contents[f])) /\ Len(Contents[f]) \in Nat
<1>1. Contents[f] \in Seq(Range(Contents[f]))
  BY GameAssumption, Zenon
<1> QED
  BY <1>1

LEMMA BytesAre ==
  ASSUME NEW f \in File, NEW from \in Nat, NEW n \in Nat
  PROVE  /\ OS!Bytes(f, from, n) \in Seq(Range(Contents[f]))
         /\ Len(OS!Bytes(f, from, n)) \in 0..n
<1> DEFINE C == Contents[f]
           S == Range(C)
           to == OS!Min2(from + n, Len(C))
<1>1. C \in Seq(S) /\ Len(C) \in Nat
  BY ContentsAre, Zenon
<1> HIDE DEF S, C
<1>2. to \in Nat /\ to <= from + n /\ to <= Len(C)
  BY <1>1 DEF OS!Min2
<1> HIDE DEF to
<1>3. \A i \in (from + 1)..to : C[i] \in S
  BY <1>1, <1>2
<1>4. from + 1 \in Int /\ to \in Int
  BY <1>2
<1>5. /\ SubSeq(C, from + 1, to) \in Seq(S)
      /\ Len(SubSeq(C, from + 1, to)) = IF from + 1 <= to THEN to - (from + 1) + 1 ELSE 0
  BY <1>3, <1>4, SubSeqProperties, Zenon
<1>6. (IF from + 1 <= to THEN to - (from + 1) + 1 ELSE 0) \in 0..n
  BY <1>2
<1> QED
  BY <1>5, <1>6, Zenon DEF OS!Bytes, to, C, S

\* A part of a part, and two parts next to each other
LEMMA PartOfPart ==
  ASSUME NEW S, NEW s \in Seq(S), NEW i \in Nat, NEW j \in Nat, i < j, j <= Len(s),
         NEW m \in Nat, NEW n \in Nat, m < n, n <= j - i
  PROVE  Part(Part(s, i, j), m, n) = Part(s, i + m, i + n)
<1> DEFINE a == i + 1
           b == m + 1
<1>1. /\ a \in 1..Len(s) /\ j \in 1..Len(s)
      /\ b \in 1..j - a + 1 /\ n \in 1..j - a + 1
  BY Len(s) \in Nat
<1>2. a + b - 1 = i + m + 1 /\ a + n - 1 = i + n
  OBVIOUS
<1> HIDE DEF a, b
<1>3. SubSeq(SubSeq(s, a, j), b, n) = SubSeq(s, a + b - 1, a + n - 1)
  BY <1>1, SubSeqOfSubSeq, SMT
<1>4. SubSeq(SubSeq(s, a, j), b, n) = SubSeq(s, (i + m) + 1, i + n)
  BY <1>2, <1>3
<1> QED
  BY <1>4, Zenon DEF a, b, Part

LEMMA PartIs ==
  ASSUME NEW S, NEW s \in Seq(S), NEW from \in Nat, NEW to \in Nat, to <= Len(s)
  PROVE  Part(s, from, to) \in Seq(S)
<1>1. \A i \in (from + 1)..to : s[i] \in S
  OBVIOUS
<1> DEFINE a == from + 1
<1>2. a \in Int /\ to \in Int
  OBVIOUS
<1> HIDE DEF a
<1>3. SubSeq(s, a, to) \in Seq(S)
  <2>1. \A i \in a..to : s[i] \in S
    BY <1>1, Zenon DEF a
  <2> QED
    BY <1>2, <2>1, SubSeqProperties, Zenon
<1> QED
  BY <1>3, Zenon DEF Part, a

LEMMA PartLen ==
  ASSUME NEW S, NEW s \in Seq(S), NEW from \in Nat, NEW to \in Nat,
         from <= to, to <= Len(s)
  PROVE  Len(Part(s, from, to)) = to - from
<1>1. \A i \in (from + 1)..to : s[i] \in S
  OBVIOUS
<1> DEFINE a == from + 1
<1>2. a \in Int /\ to \in Int
  OBVIOUS
<1> HIDE DEF a
<1>3. Len(SubSeq(s, a, to)) = IF a <= to THEN to - a + 1 ELSE 0
  <2>1. \A i \in a..to : s[i] \in S
    BY <1>1, Zenon DEF a
  <2> QED
    BY <1>2, <2>1, SubSeqProperties
<1>4. Len(SubSeq(s, a, to)) = to - from
  BY <1>3 DEF a
<1> QED
  BY <1>4, Zenon DEF Part, a

LEMMA PartNone ==
  ASSUME NEW s, NEW from \in Nat, NEW to \in Nat, to <= from
  PROVE  Part(s, from, to) = <<>>
<1>1. from + 1 \in Int /\ to \in Int /\ to < from + 1
  OBVIOUS
<1>2. SubSeq(s, from + 1, to) = <<>>
  BY <1>1, SubSeqEmpty, Zenon
<1> QED
  BY <1>2, Zenon DEF Part

Joined(p, q, r) == r = p \o q

LEMMA PartsJoin ==
  ASSUME NEW S, NEW s \in Seq(S), NEW a \in Nat, NEW b \in Nat, NEW c \in Nat,
         a <= b, b <= c, c <= Len(s)
  PROVE  Joined(Part(s, a, b), Part(s, b, c), Part(s, a, c))
<1>1. a + 1 \in 1..Len(s) + 1 /\ b \in (a + 1) - 1..Len(s) /\ c \in b..Len(s)
  BY Len(s) \in Nat
<1> QED
  BY <1>1, ConcatAdjacentSubSeq, SMT DEF Part, Joined
\* A turn begins at P + k, which is base + off, and takes up to `to' of the block.
Turning(P, n, k, base, off, to) ==
  /\ P \in Nat /\ n \in Nat /\ k \in Nat /\ base \in Nat /\ off \in Nat /\ to \in Nat
  /\ base + off = P + k /\ k < n /\ to <= off + (n - k)
Takes(P, n, k, end, l) == l \in (k + 1)..n /\ P + l = end

LEMMA TakesOf ==
  ASSUME NEW P, NEW n, NEW k, NEW base, NEW off, NEW to, NEW l,
         Turning(P, n, k, base, off, to), off < to, l = (base + to) - P
  PROVE  Takes(P, n, k, base + to, l)
BY DEF Turning, Takes

\* Where the last block of the file ends, or the read in it
Ends(P, n, L, end) == end = OS!Min2(P + n, L)

LEMMA EndsAt ==
  ASSUME NEW P, NEW n, NEW k, NEW base, NEW off, NEW to, NEW L \in Nat,
         Turning(P, n, k, base, off, to),
         to <= L - base, to = off + (n - k) \/ to = L - base
  PROVE  Ends(P, n, L, base + to)
BY DEF Turning, Ends, OS!Min2

\* What a turn adds to what is read: the first k bytes of n from P on are there, and b is
\* the block of the next.
Adds(C, P, n, k, K, b, r) ==
  IF Len(b) < K THEN r = Part(C, P, OS!Min2(P + n, Len(C)))
  ELSE Len(r) \in (k + 1)..n /\ P + Len(r) <= Len(C) /\ r = Part(C, P, P + Len(r))

LEMMA TurnAdds ==
  ASSUME NEW S, NEW C \in Seq(S), NEW P \in Nat, NEW n \in Nat, NEW k \in Nat, k < n,
         NEW K \in Nat \ {0}, k = 0 \/ P + k <= Len(C),
         NEW base \in Nat, NEW off \in 0..(K - 1), base + off = P + k,
         NEW b, b = Part(C, base, OS!Min2(base + K, Len(C))),
         NEW to, to = OS!Min2(off + (n - k), Len(b)),
         NEW r, r = Part(C, P, P + k) \o Part(b, off, to)
  PROVE  Adds(C, P, n, k, K, b, r)
<1> DEFINE L == Len(C)
           e == OS!Min2(base + K, L)
           m == OS!Min2(P + n, L)
<1>1. L \in Nat /\ (k = 0 \/ P + k <= L) /\ off \in Nat /\ off < K
  OBVIOUS
<1>2. /\ e \in Nat /\ e <= L /\ e <= base + K /\ (e = L \/ e = base + K)
      /\ m \in Nat /\ m <= L /\ m <= P + n /\ (m = L \/ m = P + n)
  BY <1>1 DEF OS!Min2
<1> HIDE DEF L, e, m
<1>3. /\ b \in Seq(S) /\ Len(b) \in Nat
      /\ base <= e => Len(b) = e - base
      /\ e <= base => b = <<>> /\ Len(b) = 0
  <2>0. b = Part(C, base, e)
    BY Zenon DEF e, L
  <2>1. b \in Seq(S)
    BY <2>0, <1>2, PartIs, Zenon DEF L
  <2>2. base <= e => Len(b) = e - base
    <3> SUFFICES ASSUME base <= e
                 PROVE  Len(b) = e - base
      OBVIOUS
    <3> QED
      <4>1. e <= Len(C)
        BY <1>2, Zenon DEF L
      <4>2. Len(Part(C, base, e)) = e - base
        BY <1>2, <4>1, PartLen, Zenon
      <4> QED
        BY <2>0, <4>2
  <2>3. e <= base => b = <<>>
    BY <2>0, <1>2, PartNone, Zenon
  <2> QED
    BY <2>1, <2>2, <2>3
<1>4. /\ to = off + (n - k) \/ to = Len(b)
      /\ to <= off + (n - k) /\ to <= Len(b) /\ to \in Nat
  <2>1. Len(b) \in Nat
    BY <1>3
  <2> QED
    BY <2>1 DEF OS!Min2
<1>0. Turning(P, n, k, base, off, to)
  BY <1>1, <1>4, Zenon DEF Turning
<1> DEFINE q == Part(b, off, to)
           p == Part(C, P, P + k)
<1>5. k = 0 => p = <<>>
  <2>1. k = 0 => P + k \in Nat /\ P + k <= P
    OBVIOUS
  <2> QED
    BY <2>1, PartNone, Zenon
<1>6. /\ to <= off => q = <<>>
      /\ off < to => q = Part(C, P + k, base + to) /\ base + to <= e /\ base < e
  <2>1. to <= off => q = <<>>
    BY <1>4, off \in Nat, PartNone, Zenon
  <2>2. ASSUME off < to
        PROVE  q = Part(C, P + k, base + to) /\ base + to <= e /\ base < e
    <3>1. base < e
      BY <1>2, <1>3, <1>4, <2>2
    <3>2. Len(b) = e - base /\ base + to <= e /\ to <= e - base
      BY <1>2, <1>3, <1>4, <3>1
    <3>3. e <= Len(C)
      BY <1>2, Zenon DEF L
    <3>4. Part(Part(C, base, e), off, to) = Part(C, base + off, base + to)
      <4>1. off \in Nat /\ e \in Nat /\ to \in Nat
        BY <1>1, <1>2, <1>4, Zenon
      <4> QED
        BY <2>2, <3>1, <3>2, <3>3, <4>1, PartOfPart, SMTT(30)
    <3>5. b = Part(C, base, e)
      BY Zenon DEF L, e
    <3>6. q = Part(C, P + k, base + to)
      BY <3>4, <3>5, Zenon
    <3> QED
      BY <3>1, <3>2, <3>6, Zenon
  <2> QED
    BY <2>1, <2>2
<1>7. r = p \o q
  BY Zenon
<1> HIDE DEF p, q
<1>8. ASSUME off < to
      PROVE  r = Part(C, P, base + to) /\ P <= P + k /\ P + k < base + to /\ base + to <= L
  <2>0. base + to <= e /\ e <= L /\ e \in Nat /\ L \in Nat /\ to \in Nat /\ off < to
    BY <1>1, <1>2, <1>4, <1>6, <1>8, Zenon
  <2>1. P + k < base + to /\ base + to <= L /\ P <= P + k
    BY <2>0
  <2>2. P \in Nat /\ P + k \in Nat /\ base + to \in Nat /\ P + k <= base + to
    BY <1>4, <2>1
  <2>3. Joined(Part(C, P, P + k), Part(C, P + k, base + to), Part(C, P, base + to))
    <3>1. base + to <= Len(C)
      BY <2>1, Zenon DEF L
    <3> QED
      BY <2>1, <2>2, <3>1, PartsJoin, Zenon
  <2> QED
    <3>1. q = Part(C, P + k, base + to)
      BY <1>6, <1>8, Zenon
    <3>2. r = Part(C, P, base + to)
      BY <1>7, <2>3, <3>1, Zenon DEF Joined, p
    <3> QED
      BY <2>1, <3>2, Zenon
<1>9. CASE Len(b) < K
  <2>1. e = L
    BY <1>1, <1>2, <1>3, <1>9
  <2>2. CASE off < to
    <3>1. base + to = m
      <4>1. base <= e /\ Len(b) = L - base
        <5>1. base < e
          BY <1>6, <2>2, Zenon
        <5>2. base <= e
          BY <1>2, <5>1
        <5> QED
          BY <1>3, <2>1, <5>2, Zenon
      <4>2. (to = off + (n - k) \/ to = L - base) /\ to <= off + (n - k) /\ to <= L - base
        BY <1>4, <4>1, Zenon
      <4> QED
        <5>1. Ends(P, n, L, base + to)
          BY <1>0, <1>1, <4>2, EndsAt, Zenon
        <5> QED
          BY <5>1, Zenon DEF Ends, m
    <3> QED
      BY <1>8, <1>9, <2>2, <3>1, Zenon DEF Adds, m, L
  <2>3. CASE ~(off < to)
    <3>1. q = <<>> /\ to = Len(b)
      BY <1>4, <1>6, <2>3
    <3>2. L <= P + k
      BY <1>1, <1>2, <1>3, <2>1, <2>3, <3>1
    <3>3. m = L
      BY <1>1, <1>2, <3>2
    <3>4. CASE k = 0
      <4>1. r = <<>>
        BY <1>5, <1>7, <3>1, <3>4
      <4>2. Part(C, P, L) = <<>>
        <5>1. L <= P
          BY <3>2, <3>4
        <5> QED
          BY <1>1, <5>1, PartNone, Zenon
      <4> QED
        BY <1>9, <3>3, <4>1, <4>2, Zenon DEF Adds, m, L
    <3>5. CASE k # 0
      <4>1. P + k = L
        BY <3>2, <3>5 DEF L
      <4>2. p \in Seq(S)
        <5>1. P + k \in Nat /\ P + k <= Len(C)
          BY <3>5
        <5> QED
          BY <5>1, PartIs, Zenon DEF p
      <4>3. r = p
        BY <1>7, <3>1, <4>2
      <4> QED
        BY <1>9, <3>3, <4>1, <4>3, Zenon DEF Adds, m, L, p
    <3> QED
      BY <3>4, <3>5
  <2> QED
    BY <2>2, <2>3
<1>10. CASE ~(Len(b) < K)
  <2>1. e = base + K /\ Len(b) = K
    BY <1>1, <1>2, <1>3, <1>10
  <2>2. off < to
    BY <1>4, <2>1
  <2>3. Len(r) = (base + to) - P
    <3>1. base + to \in Nat /\ P <= base + to /\ base + to <= Len(C)
      BY <1>4, <1>8, <2>2 DEF L
    <3>2. Len(Part(C, P, base + to)) = (base + to) - P
      <4>1. \A x \in Nat, y \in Nat : x <= y /\ y <= Len(C) => Len(Part(C, x, y)) = y - x
        BY PartLen, Zenon
      <4> QED
        BY <3>1, <4>1
    <3> QED
      BY <1>8, <2>2, <3>2, Zenon
  <2>4. Len(r) \in (k + 1)..n /\ P + Len(r) <= L /\ P + Len(r) = base + to
    <3>1. P + k < base + to /\ base + to <= L /\ to <= off + (n - k) /\ to \in Nat
      BY <1>4, <1>8, <2>2, Zenon
    <3>2. Len(r) \in (k + 1)..n /\ P + Len(r) = base + to
      <4>1. Takes(P, n, k, base + to, Len(r))
        BY <1>0, <2>2, <2>3, TakesOf, Zenon
      <4> QED
        BY <4>1, Zenon DEF Takes
    <3> QED
      BY <3>1, <3>2, Zenon
  <2> QED
    BY <1>8, <1>10, <2>2, <2>4, Zenon DEF Adds, L
<1> QED
  BY <1>9, <1>10


\* The blocks stay what they are when files are added or their sizes learnt.
Keeps(fs, gs) == \A i \in DOMAIN fs : i \in DOMAIN gs /\ gs[i].name = fs[i].name

LEMMA HeldGrows ==
  ASSUME NEW fs, NEW gs, Keeps(fs, gs)
  PROVE  Cache(fs) \subseteq Cache(gs)
<1>1. \A i \in DOMAIN fs, k \in Nat : i \in DOMAIN gs /\ Block(fs, i, k) = Block(gs, i, k)
  BY Zenon DEF Keeps, Block
<1>2. Held(fs) \subseteq Held(gs)
  BY <1>1 DEF Held
<1> DEFINE A == Held(fs)
           B == Held(gs)
<1> HIDE DEF A, B
<1>3. [Way -> A] \subseteq [Way -> B]
  BY <1>2, Zenon DEF A, B
<1> DEFINE AW == [Way -> A]
           BW == [Way -> B]
<1> HIDE DEF AW, BW
<1>4. [way : AW, last : Way] \subseteq [way : BW, last : Way]
  BY <1>3 DEF AW, BW
<1> DEFINE R == [way : AW, last : Way]
           Q == [way : BW, last : Way]
<1>5. R \subseteq Q
  BY <1>4
<1> HIDE DEF R, Q
<1>6. [1..Sets -> R] \subseteq [1..Sets -> Q]
  BY <1>5, Zenon
<1> QED
  BY <1>6, Zenon DEF Cache, R, Q, AW, BW, A, B

\* A set of the cache with another last way, or other ways
LEMMA SetIs ==
  ASSUME NEW H, NEW b \in [way : [Way -> H], last : Way], NEW w \in Way, NEW W \in [Way -> H]
  PROVE  /\ [b EXCEPT !.last = w] \in [way : [Way -> H], last : Way]
         /\ [b EXCEPT !.way = W] \in [way : [Way -> H], last : Way]
         /\ [b EXCEPT !.way = W].way = W
         /\ [b EXCEPT !.way = W].last = b.last
<1> DEFINE X == [Way -> H]
<1>1. b \in [way : X, last : Way] /\ W \in X
  OBVIOUS
<1> HIDE DEF X
<1>2. /\ [b EXCEPT !.last = w] \in [way : X, last : Way]
      /\ [b EXCEPT !.way = W] \in [way : X, last : Way]
      /\ [b EXCEPT !.way = W].way = W
      /\ [b EXCEPT !.way = W].last = b.last
  BY <1>1
<1> QED
  BY <1>2 DEF X

LEMMA InvalidatedIs ==
  ASSUME NEW fs, blocks \in Cache(fs), NEW id
  PROVE  Invalidated(id) \in Cache(fs)
<1> DEFINE H == Held(fs)
           V(s) == [w \in Way |->
                      IF blocks[s].way[w].id = id THEN NoBlock ELSE blocks[s].way[w]]
<1>1. NoBlock \in H
  BY DEF Held
<1>2. blocks \in [1..Sets -> [way : [Way -> H], last : Way]]
  BY Zenon DEF Cache
<1> HIDE DEF H
<1>3. ASSUME NEW s \in 1..Sets
      PROVE  [blocks[s] EXCEPT !.way = V(s)] \in [way : [Way -> H], last : Way]
  <2>1. blocks[s] \in [way : [Way -> H], last : Way]
    BY <1>2, Zenon
  <2>2. blocks[s].way \in [Way -> H]
    BY <2>1
  <2>3. V(s) \in [Way -> H]
    BY <1>1, <2>2, Zenon
  <2>4. 1 \in Way
    BY DEF Way
  <2> HIDE DEF V
  <2> QED
    BY <2>1, <2>3, <2>4, SetIs, Zenon
<1>4. Invalidated(id) = [s \in 1..Sets |-> [blocks[s] EXCEPT !.way = V(s)]]
  BY Zenon DEF Invalidated
<1> HIDE DEF V
<1>5. Invalidated(id) \in [1..Sets -> [way : [Way -> H], last : Way]]
  BY <1>3, <1>4, Zenon
<1> QED
  BY <1>5, Zenon DEF Cache, H

\* What GetBlock gives back: the blocks as they should be, and the block asked for or none
Got(g, fs, id, idx) ==
  /\ g.blocks \in Cache(fs) /\ g.moved \in BOOLEAN
  /\ g.block = NoBlock \/ g.block = Block(fs, id, idx)

LEMMA SetOfIs ==
  ASSUME NEW id \in Nat, NEW idx \in Nat
  PROVE  SetOf(id, idx) \in 1..Sets
<1>1. Sets \in Nat \ {0} /\ id + idx \in Int
  BY CacheAssumption
<1>2. (id + idx) % Sets \in 0..Sets - 1
  BY <1>1
<1> QED
  BY <1>1, <1>2 DEF SetOf

\* One set or one way of the blocks changes.
LEMMA CacheExcept ==
  ASSUME NEW fs, NEW b \in Cache(fs), NEW s \in 1..Sets, NEW w \in Way, NEW v \in Way,
         NEW x \in Held(fs)
  PROVE  /\ [b EXCEPT ![s].last = w] \in Cache(fs)
         /\ [b EXCEPT ![s].way[v] = x] \in Cache(fs)
         /\ [b EXCEPT ![s].way[v] = x, ![s].last = w] \in Cache(fs)
<1> DEFINE H == Held(fs)
<1>1. b \in [1..Sets -> [way : [Way -> H], last : Way]] /\ x \in H
  BY Zenon DEF Cache
<1> HIDE DEF H
<1> DEFINE R == [way : [Way -> H], last : Way]
           W == [b[s].way EXCEPT ![v] = x]
           c == [b EXCEPT ![s].way[v] = x]
<1>2. b[s] \in R /\ b \in [1..Sets -> R]
  BY <1>1, Zenon
<1>3. b[s].way \in [Way -> H]
  BY <1>2
<1>4. W \in [Way -> H]
  BY <1>1, <1>3, Zenon
<1> HIDE DEF W
<1>5. [b[s] EXCEPT !.last = w] \in R /\ [b[s] EXCEPT !.way = W] \in R
  BY <1>2, <1>4, SetIs, Zenon
<1> HIDE DEF R
<1>6. [b EXCEPT ![s].last = w] \in [1..Sets -> R]
  BY <1>2, <1>5, Zenon
<1>7. c = [b EXCEPT ![s] = [b[s] EXCEPT !.way = W]]
  BY Zenon DEF W
<1> HIDE DEF c
<1>8. c \in [1..Sets -> R] /\ c[s] = [b[s] EXCEPT !.way = W]
  BY <1>2, <1>5, <1>7, Zenon
<1>9. [c[s] EXCEPT !.last = w] \in R
  BY <1>8, <1>5, SetIs, Zenon DEF R
<1>10. [c EXCEPT ![s].last = w] \in [1..Sets -> R]
  BY <1>8, <1>9, Zenon
<1>11. [b EXCEPT ![s].way[v] = x, ![s].last = w] = [c EXCEPT ![s].last = w]
  BY Zenon DEF c
<1> QED
  BY <1>6, <1>8, <1>10, <1>11, Zenon DEF c, R, H, Cache

LEMMA GetBlockIs ==
  ASSUME NEW fs, NEW b \in Cache(fs), NEW h \in Handle, NEW id \in DOMAIN fs, NEW idx \in Nat,
         NEW bad, id \in Nat \ {NoFile}, fs[id].name = real[h].file
  PROVE  Got(GetBlock(b, h, id, idx, bad), fs, id, idx)
<1> DEFINE s == SetOf(id, idx)
           hit == Hits(b[s], id, idx)
           victim == Victim(b[s])
           f == [id |-> id, idx |-> idx,
                 bytes |-> OS!Bytes(real[h].file, idx * KBlock, KBlock)]
           w == CHOOSE w \in hit : \A v \in hit : w <= v
           g == GetBlock(b, h, id, idx, bad)
<1>1. s \in 1..Sets
  BY SetOfIs, Zenon
<1>2. f = Block(fs, id, idx)
  BY Zenon DEF Block
<1>3. f \in Held(fs) /\ NoBlock \in Held(fs)
  BY <1>2 DEF Held
<1>4. victim \in Way /\ 1 \in Way
  BY DEF Victim, Way
<1>5. /\ hit # {} => g = [blocks |-> [b EXCEPT ![s].last = w], block |-> b[s].way[w],
                          moved |-> FALSE]
      /\ hit = {} /\ idx = bad => g = [blocks |-> [b EXCEPT ![s].way[victim] = NoBlock],
                                      block |-> NoBlock, moved |-> FALSE]
      /\ hit = {} /\ idx # bad =>
           g = [blocks |-> [b EXCEPT ![s].way[victim] = f, ![s].last = victim],
                block |-> f, moved |-> TRUE]
  BY Zenon DEF GetBlock
<1> HIDE DEF s, victim, f, g
<1>6. CASE hit # {}
  <2>1. hit \subseteq Nat /\ hit \subseteq Way
    BY DEF Hits, Way
  <2>2. w \in hit
    <3> HIDE DEF hit
    <3>1. \E x \in hit : \A v \in hit : x <= v
      BY <1>6, <2>1, LeastOf, Zenon
    <3> QED
      BY <3>1, Zenon
  <2> HIDE DEF w
  <2>3. w \in Way /\ b[s].way[w].id = id /\ b[s].way[w].idx = idx
    BY <2>2, Zenon DEF Hits
  <2>4. b[s].way[w] \in Held(fs)
    <3> DEFINE H == Held(fs)
    <3>1. b \in [1..Sets -> [way : [Way -> H], last : Way]]
      BY Zenon DEF Cache
    <3> HIDE DEF H
    <3>2. b[s].way \in [Way -> H]
      BY <1>1, <3>1
    <3> QED
      BY <2>3, <3>2, Zenon DEF H
  <2>5. b[s].way[w] = Block(fs, id, idx)
    <3>1. b[s].way[w] # NoBlock
      BY <2>3 DEF NoBlock
    <3>2. PICK i \in DOMAIN fs, k \in Nat : b[s].way[w] = Block(fs, i, k)
      BY <2>4, <3>1 DEF Held
    <3>3. Block(fs, i, k).id = i /\ Block(fs, i, k).idx = k
      BY DEF Block
    <3> QED
      BY <2>3, <3>2, <3>3, Zenon
  <2>6. [b EXCEPT ![s].last = w] \in Cache(fs)
    BY <1>1, <1>3, <2>3, CacheExcept, Zenon
  <2>7. /\ g.blocks = [b EXCEPT ![s].last = w] /\ g.block = b[s].way[w] /\ g.moved = FALSE
    BY <1>5, <1>6
  <2> QED
    BY <2>5, <2>6, <2>7, Zenon DEF Got, g
<1>7. CASE hit = {} /\ idx = bad
  <2>1. [b EXCEPT ![s].way[victim] = NoBlock] \in Cache(fs)
    BY <1>1, <1>3, <1>4, CacheExcept, Zenon
  <2>2. /\ g.blocks = [b EXCEPT ![s].way[victim] = NoBlock] /\ g.block = NoBlock
        /\ g.moved = FALSE
    BY <1>5, <1>7
  <2> QED
    BY <2>1, <2>2, Zenon DEF Got, g
<1>8. CASE hit = {} /\ idx # bad
  <2>1. [b EXCEPT ![s].way[victim] = f, ![s].last = victim] \in Cache(fs)
    BY <1>1, <1>3, <1>4, CacheExcept, Zenon
  <2>2. /\ g.blocks = [b EXCEPT ![s].way[victim] = f, ![s].last = victim] /\ g.block = f
        /\ g.moved = TRUE
    BY <1>5, <1>8
  <2> QED
    BY <1>2, <2>1, <2>2, Zenon DEF Got, g
<1> QED
  BY <1>6, <1>7, <1>8

-----------------------------------------------------------------------------
(* A read *)

LEMMA DivIs ==
  ASSUME NEW a \in Nat, NEW K \in Nat \ {0}
  PROVE  a \div K \in Nat /\ a % K \in 0..(K - 1) /\ ((a \div K) * K) + (a % K) = a
OBVIOUS

\* The reads of n bytes of C from P on, with the blocks of the files fs: i turns that went
\* on have read i bytes at least.
Reading(fs, S) ==
  [blocks : Cache(fs), ptr : Nat, bytes : Seq(S), state : {"go", "end", "failed"}]
Progress(acc, C, P, n, i) ==
  /\ acc.state = "go" =>
       /\ Len(acc.bytes) \in i..n
       /\ Len(acc.bytes) = 0 \/ P + Len(acc.bytes) <= Len(C)
       /\ acc.bytes = Part(C, P, P + Len(acc.bytes))
  /\ acc.state = "end" => acc.bytes = Part(C, P, OS!Min2(P + n, Len(C)))

LEMMA ReadingIs ==
  ASSUME NEW fs, NEW S, NEW b \in Cache(fs), NEW p \in Nat, NEW q \in Seq(S),
         NEW s \in {"go", "end", "failed"}
  PROVE  [blocks |-> b, ptr |-> p, bytes |-> q, state |-> s] \in Reading(fs, S)
<1> DEFINE B == Cache(fs)
           Q == Seq(S)
<1>1. b \in B /\ q \in Q
  OBVIOUS
<1> HIDE DEF B, Q
<1>2. [blocks |-> b, ptr |-> p, bytes |-> q, state |-> s] \in
        [blocks : B, ptr : Nat, bytes : Q, state : {"go", "end", "failed"}]
  BY <1>1
<1> QED
  BY <1>2, Zenon DEF Reading, B, Q

LEMMA ReadingOf ==
  ASSUME NEW fs, NEW S, NEW acc \in Reading(fs, S)
  PROVE  /\ acc = [blocks |-> acc.blocks, ptr |-> acc.ptr, bytes |-> acc.bytes,
                   state |-> acc.state]
         /\ acc.blocks \in Cache(fs) /\ acc.ptr \in Nat /\ acc.bytes \in Seq(S)
         /\ acc.state \in {"go", "end", "failed"}
<1> DEFINE B == Cache(fs)
           Q == Seq(S)
<1> HIDE DEF B, Q
<1>1. acc \in [blocks : B, ptr : Nat, bytes : Q, state : {"go", "end", "failed"}]
  BY Zenon DEF Reading, B, Q
<1>2. /\ acc = [blocks |-> acc.blocks, ptr |-> acc.ptr, bytes |-> acc.bytes,
                state |-> acc.state]
      /\ acc.blocks \in B /\ acc.ptr \in Nat /\ acc.bytes \in Q
      /\ acc.state \in {"go", "end", "failed"}
  BY <1>1
<1> QED
  BY <1>2, Zenon DEF B, Q

\* What is known of a handle a read is served from: the file and its id, and the position
Reader(h, f) ==
  /\ f \in File /\ f = real[h].file
  /\ table[SlotOf(h)].id \in DOMAIN files /\ table[SlotOf(h)].id \in Nat \ {NoFile}
  /\ files[table[SlotOf(h)].id].name = f
  /\ table[SlotOf(h)].pos \in Nat

TurnMakes(acc, C, P, n, i, h, bad, S) ==
  Turn(acc, h, n, bad) \in Reading(files, S) /\ Progress(Turn(acc, h, n, bad), C, P, n, i)

LEMMA TurnIs ==
  ASSUME NEW h \in Handle, NEW f, Reader(h, f), NEW n \in Nat, NEW bad, NEW i \in 1..n,
         NEW C, C = Contents[f], NEW S, S = Range(C), NEW P, P = table[SlotOf(h)].pos,
         NEW acc \in Reading(files, S), Progress(acc, C, P, n, i - 1)
  PROVE  TurnMakes(acc, C, P, n, i, h, bad, S)
<1> DEFINE id == table[SlotOf(h)].id
           k == Len(acc.bytes)
           at == P + k
           off == at % KBlock
           idx == at \div KBlock
           g == GetBlock(acc.blocks, h, id, idx, bad)
           v == Len(g.block.bytes)
           to == OS!Min2(off + (n - k), v)
           r == acc.bytes \o SubSeq(g.block.bytes, off + 1, to)
           tu == Turn(acc, h, n, bad)
<1>1. /\ f \in File /\ f = real[h].file /\ id \in DOMAIN files /\ id \in Nat \ {NoFile}
      /\ files[id].name = f /\ P \in Nat
  BY Zenon DEF Reader
<1>2. C \in Seq(S) /\ Len(C) \in Nat
  BY <1>1, ContentsAre, Zenon
<1>3. /\ acc.state # "go" \/ k = n => tu = acc
      /\ ~(acc.state # "go" \/ k = n) /\ g.block = NoBlock =>
           tu = [acc EXCEPT !.blocks = g.blocks, !.state = "failed"]
      /\ ~(acc.state # "go" \/ k = n) /\ g.block # NoBlock =>
           tu = [blocks |-> g.blocks, ptr |-> IF g.moved THEN (at - off) + v ELSE acc.ptr,
                 bytes |-> r, state |-> IF v < KBlock THEN "end" ELSE "go"]
  BY Zenon DEF Turn
<1>4. /\ acc = [blocks |-> acc.blocks, ptr |-> acc.ptr, bytes |-> acc.bytes,
                state |-> acc.state]
      /\ acc.blocks \in Cache(files) /\ acc.ptr \in Nat /\ acc.bytes \in Seq(S)
      /\ acc.state \in {"go", "end", "failed"}
  BY ReadingOf, Zenon
<1>5. k \in Nat
  BY <1>4
<1>6. KBlock \in Nat \ {0}
  BY CacheAssumption
<1> HIDE DEF tu, k
<1>7. CASE acc.state # "go" \/ k = n
  <2>1. tu = acc
    BY <1>3, <1>7, Zenon
  <2>2. Progress(acc, C, P, n, i)
    <3>1. acc.state = "go" => k \in (i - 1)..n /\ (k = 0 \/ P + k <= Len(C))
                              /\ acc.bytes = Part(C, P, P + k)
      BY Zenon DEF Progress, k
    <3>2. acc.state = "go" => k \in i..n
      BY <1>7, <3>1
    <3> QED
      BY <3>1, <3>2, Zenon DEF Progress, k
  <2> QED
    BY <2>1, <2>2, Zenon DEF TurnMakes, tu
<1>8. CASE ~(acc.state # "go" \/ k = n)
  <2>1. /\ k \in (i - 1)..n /\ (k = 0 \/ P + k <= Len(C)) /\ acc.bytes = Part(C, P, P + k)
    BY <1>8, Zenon DEF Progress, k
  <2>2. at \in Nat /\ k < n
    BY <1>1, <1>5, <1>8, <2>1
  <2>3. idx \in Nat /\ off \in 0..(KBlock - 1) /\ (idx * KBlock) + off = at
    BY <1>6, <2>2, DivIs, Zenon
  <2> HIDE DEF at, idx, off, id
  <2>4. Got(g, files, id, idx)
    BY <1>1, <1>4, <2>3, GetBlockIs, Zenon
  <2> HIDE DEF g
  <2>5. g.blocks \in Cache(files) /\ g.moved \in BOOLEAN
    BY <2>4, Zenon DEF Got
  <2>6. CASE g.block = NoBlock
    <3> DEFINE u == [blocks |-> g.blocks, ptr |-> acc.ptr, bytes |-> acc.bytes,
                     state |-> "failed"]
    <3>1. u \in Reading(files, S)
      BY <1>4, <2>5, ReadingIs, Zenon
    <3>2. tu = u
      <4>1. tu = [acc EXCEPT !.blocks = g.blocks, !.state = "failed"]
        BY <1>3, <1>8, <2>6, Zenon
      <4>2. [acc EXCEPT !.blocks = g.blocks, !.state = "failed"] = u
        <5> DEFINE R(c, p, q, s) == [blocks |-> c, ptr |-> p, bytes |-> q, state |-> s]
        <5>1. PICK c, p, q, s : acc = R(c, p, q, s)
          BY <1>4, Zenon
        <5>2. acc.ptr = p /\ acc.bytes = q
          BY <5>1
        <5>3. [R(c, p, q, s) EXCEPT !.blocks = g.blocks] = R(g.blocks, p, q, s)
          OBVIOUS
        <5>4. [R(g.blocks, p, q, s) EXCEPT !.state = "failed"] = R(g.blocks, p, q, "failed")
          OBVIOUS
        <5>5. [R(c, p, q, s) EXCEPT !.blocks = g.blocks, !.state = "failed"]
                = [[R(c, p, q, s) EXCEPT !.blocks = g.blocks] EXCEPT !.state = "failed"]
          BY Zenon
        <5> QED
          BY <5>1, <5>2, <5>3, <5>4, <5>5, Zenon
      <4> QED
        BY <4>1, <4>2, Zenon
    <3>3. Progress(u, C, P, n, i)
      BY DEF Progress
    <3> QED
      BY <3>1, <3>2, <3>3, Zenon DEF TurnMakes, tu
  <2>7. CASE g.block # NoBlock
    <3> DEFINE b == g.block.bytes
               base == idx * KBlock
               e == OS!Min2(base + KBlock, Len(C))
               st == IF v < KBlock THEN "end" ELSE "go"
               pt == IF g.moved THEN (at - off) + v ELSE acc.ptr
               u == [blocks |-> g.blocks, ptr |-> pt, bytes |-> r, state |-> st]
    <3>1. b = Part(C, base, e)
      <4>1. g.block = Block(files, id, idx)
        BY <2>4, <2>7, Zenon DEF Got
      <4>2. b = OS!Bytes(f, base, KBlock)
        BY <1>1, <4>1 DEF Block
      <4> QED
        BY <4>2, Zenon DEF OS!Bytes, Part
    <3>2. base \in Nat
      BY <1>6, <2>3
    <3>3. base + off = P + k
      BY <2>3, Zenon DEF at
    <3>4. r = Part(C, P, P + k) \o Part(b, off, to)
      BY <2>1 DEF Part
    <3>5. b \in Seq(S)
      <4>1. e \in Nat /\ e <= Len(C)
        BY <1>2, <1>6, <3>2 DEF OS!Min2
      <4> HIDE DEF e, base
      <4> QED
        BY <1>2, <3>1, <3>2, <4>1, PartIs, Zenon
    <3> HIDE DEF base, b
    <3>6. v \in Nat
      <4>1. Len(b) \in Nat
        BY <3>5
      <4> QED
        BY <4>1, Zenon DEF b
    <3>7. r \in Seq(S)
      <4>1. to \in Nat /\ to <= Len(b)
        <5>1. v = Len(b)
          BY Zenon DEF b
        <5>2. off + (n - k) \in Nat
          BY <1>5, <2>2, <2>3
        <5> HIDE DEF v
        <5> QED
          BY <3>6, <5>1, <5>2 DEF OS!Min2
      <4>2. off \in Nat
        BY <2>3
      <4> HIDE DEF to
      <4>3. Part(b, off, to) \in Seq(S)
        BY <3>5, <4>1, <4>2, PartIs, Zenon
      <4>4. acc.bytes \o Part(b, off, to) \in Seq(S)
        BY <1>4, <4>3
      <4> QED
        BY <4>4, Zenon DEF Part, b
    <3> HIDE DEF r, u
    <3>8. Adds(C, P, n, k, KBlock, b, r)
      BY <1>1, <1>2, <1>5, <1>6, <2>1, <2>2, <2>3, <3>1, <3>2, <3>3, <3>4, TurnAdds, Zenon
      DEF e, b
    <3>9. tu = u
      BY <1>3, <1>8, <2>7, Zenon DEF u
    <3>10. st \in {"go", "end", "failed"}
      BY Zenon
    <3>11. pt \in Nat
      <4>1. base + off = at
        BY <2>3, Zenon DEF base
      <4>2. off \in Nat /\ v \in Nat
        BY <2>3, <3>6
      <4> HIDE DEF v
      <4>3. at - off = base /\ base + v \in Nat
        BY <2>2, <3>2, <4>1, <4>2
      <4>4. (at - off) + v \in Nat
        BY <4>3, Zenon
      <4> QED
        BY <1>4, <4>4, Zenon
    <3> HIDE DEF st, pt
    <3>12. u \in Reading(files, S)
      BY <2>5, <3>7, <3>10, <3>11, ReadingIs, Zenon DEF u
    <3>13. u.bytes = r /\ u.state = st
      BY DEF u
    <3>14. Progress(u, C, P, n, i)
      <4>1. CASE Len(b) < KBlock
        <5>1. st = "end"
          BY <4>1, Zenon DEF st, b
        <5>2. r = Part(C, P, OS!Min2(P + n, Len(C)))
          BY <3>8, <4>1, Zenon DEF Adds
        <5>3. u.state # "go"
          BY <3>13, <5>1
        <5> QED
          BY <3>13, <5>2, <5>3, Zenon DEF Progress
      <4>2. CASE ~(Len(b) < KBlock)
        <5>1. st = "go"
          BY <4>2, Zenon DEF st, b
        <5>2. Len(r) \in (k + 1)..n /\ P + Len(r) <= Len(C) /\ r = Part(C, P, P + Len(r))
          BY <3>8, <4>2, Zenon DEF Adds
        <5>3. Len(r) \in i..n
          BY <1>5, <2>1, <5>2
        <5>4. u.state # "end"
          BY <3>13, <5>1
        <5> QED
          BY <3>13, <5>2, <5>3, <5>4, Zenon DEF Progress
      <4> QED
        BY <4>1, <4>2
    <3> QED
      BY <3>9, <3>12, <3>14, Zenon DEF TurnMakes, tu
  <2> QED
    BY <2>6, <2>7
<1> QED
  BY <1>7, <1>8

-----------------------------------------------------------------------------
(* All turns of a read *)

LEMMA Induction ==
  ASSUME NEW N \in Nat, NEW T, 0 \in T, \A n \in 1..N : n - 1 \in T => n \in T
  PROVE  \A n \in 0..N : n \in T
<1> DEFINE B == {n \in 0..N : n \notin T}
<1> SUFFICES ASSUME B # {}
             PROVE  FALSE
  OBVIOUS
<1>1. B \subseteq Nat
  OBVIOUS
<1> HIDE DEF B
<1>2. PICK x \in B : \A y \in B : x <= y
  BY <1>1, LeastOf, Zenon
<1>3. x \in 0..N /\ x \notin T
  BY Zenon DEF B
<1>4. x # 0
  BY <1>3, Zenon
<1>5. x \in 1..N /\ x - 1 \in 0..N
  BY <1>3, <1>4
<1>6. x - 1 \notin B
  BY <1>2, <1>5
<1>7. x - 1 \in T
  BY <1>5, <1>6, Zenon DEF B
<1> QED
  BY <1>3, <1>5, <1>7, Zenon

Turns(f, a, m, h, n, bad) ==
  /\ f = [i \in 0..m |-> f[i]] /\ f[0] = a
  /\ \A i \in 1..m : f[i] = Turn(f[i - 1], h, n, bad)

LEMMA TurnsAre ==
  ASSUME NEW a, NEW h, NEW n \in Nat, NEW bad
  PROVE  \E f : Turns(f, a, n, h, n, bad)
<1> DEFINE P(m, f) == Turns(f, a, m, h, n, bad)
           T == {m \in 0..n : \E f : P(m, f)}
<1>1. 0 \in T
  <2> DEFINE f == [i \in 0..0 |-> a]
  <2>1. f[0] = a /\ f = [i \in 0..0 |-> f[i]]
    OBVIOUS
  <2>2. \A i \in 1..0 : FALSE
    OBVIOUS
  <2> HIDE DEF f
  <2>3. P(0, f)
    BY <2>1, <2>2, Zenon DEF Turns
  <2> HIDE DEF P
  <2>4. 0 \in 0..n
    OBVIOUS
  <2> QED
    BY <2>3, <2>4, Zenon
<1>2. ASSUME NEW m \in 1..n, m - 1 \in T
      PROVE  m \in T
  <2>1. PICK f : P(m - 1, f)
    BY <1>2, Zenon
  <2> DEFINE next == Turn(f[m - 1], h, n, bad)
             g == [i \in 0..m |-> IF i = m THEN next ELSE f[i]]
  <2> HIDE DEF next
  <2>2. 0 \in 0..m /\ 0 # m /\ m \in 0..m /\ m \in 0..n
    OBVIOUS
  <2>3. g = [i \in 0..m |-> g[i]] /\ g[0] = a
    BY <2>1, <2>2, Zenon DEF Turns
  <2>4. ASSUME NEW i \in 1..m
        PROVE  g[i] = Turn(g[i - 1], h, n, bad)
    <3>1. i \in 0..m /\ i - 1 \in 0..m /\ i - 1 # m
      OBVIOUS
    <3>2. g[i - 1] = f[i - 1]
      BY <3>1, Zenon
    <3>3. CASE i = m
      BY <3>1, <3>2, <3>3, Zenon DEF next
    <3>4. CASE i # m
      <4>1. i \in 1..(m - 1)
        BY <3>4
      <4>2. g[i] = f[i] /\ f[i] = Turn(f[i - 1], h, n, bad)
        BY <2>1, <3>1, <3>4, <4>1, Zenon DEF Turns
      <4> QED
        BY <3>2, <4>2, Zenon
    <3> QED
      BY <3>3, <3>4
  <2> HIDE DEF g
  <2>5. P(m, g)
    BY <2>3, <2>4, Zenon DEF Turns
  <2> HIDE DEF P
  <2> QED
    BY <2>2, <2>5, Zenon
<1> HIDE DEF T
<1>3. n \in T
  <2>1. n \in 0..n
    OBVIOUS
  <2> QED
    BY <1>1, <1>2, <2>1, Induction, Zenon
<1> QED
  BY <1>3, Zenon DEF T

LEMMA ServeReadFollows ==
  ASSUME NEW h, NEW n \in Nat, NEW bad
  PROVE  \E f : /\ Turns(f, [blocks |-> blocks, ptr |-> real[h].pos, bytes |-> <<>>,
                             state |-> "go"], n, h, n, bad)
                /\ ServeRead(h, n, bad) = f[n]
<1> DEFINE a == [blocks |-> blocks, ptr |-> real[h].pos, bytes |-> <<>>, state |-> "go"]
           R(f) == [i \in 0..n |-> IF i = 0 THEN a ELSE Turn(f[i - 1], h, n, bad)]
<1> HIDE DEF a
<1>1. PICK f : Turns(f, a, n, h, n, bad)
  BY TurnsAre, Zenon
<1>2. \A i \in 0..n : i = 0 \/ i \in 1..n
  OBVIOUS
<1>3. \A i \in 0..n : f[i] = R(f)[i]
  BY <1>1, <1>2, Zenon DEF Turns
<1>4. f = R(f)
  BY <1>1, <1>3, Zenon DEF Turns
<1> DEFINE c == CHOOSE g : g = R(g)
<1>5. ServeRead(h, n, bad) = c[n]
  BY Zenon DEF ServeRead, a
<1> HIDE DEF R
<1>6. c = R(c)
  BY <1>4, Zenon
<1> HIDE DEF c
<1>7. \A i \in 0..n : c[i] = IF i = 0 THEN a ELSE Turn(c[i - 1], h, n, bad)
  BY <1>6, Zenon DEF R
<1>8. 0 \in 0..n /\ \A i \in 1..n : i \in 0..n /\ i # 0
  OBVIOUS
<1>9. c = [i \in 0..n |-> c[i]]
  BY <1>6, Zenon DEF R
<1>10. Turns(c, a, n, h, n, bad)
  BY <1>7, <1>8, <1>9, Zenon DEF Turns
<1> QED
  BY <1>5, <1>10, Zenon DEF a

\* What the game is given by a read that did not fail, and the blocks after it
Serving(r, f, P, n) ==
  /\ r.blocks \in Cache(files) /\ r.ptr \in Nat
  /\ r.state # "failed" => r.bytes = OS!Bytes(f, P, n)

LEMMA ServeReadIs ==
  ASSUME NEW h \in Handle, NEW f, Reader(h, f), NEW n \in Nat, NEW bad,
         blocks \in Cache(files), real[h].pos \in Nat
  PROVE  Serving(ServeRead(h, n, bad), f, table[SlotOf(h)].pos, n)
<1> DEFINE C == Contents[f]
           S == Range(C)
           P == table[SlotOf(h)].pos
           a == [blocks |-> blocks, ptr |-> real[h].pos, bytes |-> <<>>, state |-> "go"]
           G(x, i) == x \in Reading(files, S) /\ Progress(x, C, P, n, i)
<1>1. PICK t : Turns(t, a, n, h, n, bad) /\ ServeRead(h, n, bad) = t[n]
  BY ServeReadFollows, Zenon
<1>2. f \in File /\ P \in Nat
  BY Zenon DEF Reader
<1>3. C \in Seq(S) /\ Len(C) \in Nat
  BY <1>2, ContentsAre, Zenon
<1> HIDE DEF C, S, P
<1>4. G(a, 0)
  <2>1. <<>> \in Seq(S) /\ Len(<<>>) = 0
    OBVIOUS
  <2>2. a \in Reading(files, S)
    BY <2>1, ReadingIs, Zenon
  <2>3. 0 \in 0..n /\ P + 0 \in Nat /\ P + 0 <= P
    BY <1>2
  <2>4. Part(C, P, P + 0) = <<>>
    BY <1>2, <2>3, PartNone, Zenon
  <2>5. a.bytes = <<>> /\ a.state = "go"
    OBVIOUS
  <2>6. a.state # "end"
    BY <2>5
  <2> HIDE DEF a
  <2>7. Progress(a, C, P, n, 0)
    BY <2>1, <2>3, <2>4, <2>5, <2>6, Zenon DEF Progress
  <2> QED
    BY <2>2, <2>7, Zenon
<1> HIDE DEF a
<1> DEFINE T == {i \in 0..n : G(t[i], i)}
<1>5. 0 \in T
  <2>1. 0 \in 0..n
    OBVIOUS
  <2> HIDE DEF G
  <2> QED
    BY <1>1, <1>4, <2>1, Zenon DEF Turns
<1>6. ASSUME NEW i \in 1..n, i - 1 \in T
      PROVE  i \in T
  <2>1. t[i - 1] \in Reading(files, S) /\ Progress(t[i - 1], C, P, n, i - 1)
    BY <1>6, Zenon
  <2>2. TurnMakes(t[i - 1], C, P, n, i, h, bad, S)
    BY <1>2, <2>1, TurnIs, Zenon DEF C, S, P
  <2>3. t[i] = Turn(t[i - 1], h, n, bad)
    BY <1>1, Zenon DEF Turns
  <2>4. G(t[i], i)
    BY <2>2, <2>3, Zenon DEF TurnMakes
  <2>5. i \in 0..n
    OBVIOUS
  <2> HIDE DEF G
  <2> QED
    BY <2>4, <2>5, Zenon
<1> HIDE DEF T
<1>7. n \in T
  <2>1. n \in 0..n
    OBVIOUS
  <2> QED
    BY <1>5, <1>6, <2>1, Induction, Zenon
<1> DEFINE r == t[n]
<1>8. r \in Reading(files, S) /\ Progress(r, C, P, n, n)
  BY <1>7, Zenon DEF T
<1> HIDE DEF r
<1>9. r.blocks \in Cache(files) /\ r.ptr \in Nat /\ r.state \in {"go", "end", "failed"}
  BY <1>8, ReadingOf, Zenon
<1>10. r.state = "go" => r.bytes = Part(C, P, OS!Min2(P + n, Len(C)))
  <2> SUFFICES ASSUME r.state = "go"
               PROVE  r.bytes = Part(C, P, OS!Min2(P + n, Len(C)))
    OBVIOUS
  <2>1. /\ Len(r.bytes) \in n..n /\ (Len(r.bytes) = 0 \/ P + Len(r.bytes) <= Len(C))
        /\ r.bytes = Part(C, P, P + Len(r.bytes))
    BY <1>8, Zenon DEF Progress
  <2> DEFINE k == Len(r.bytes)
             e == OS!Min2(P + n, Len(C))
  <2> HIDE DEF k
  <2>2. k = n /\ (k = 0 \/ P + k <= Len(C)) /\ r.bytes = Part(C, P, P + k)
    BY <2>1 DEF k
  <2>3. CASE n = 0
    <3>1. P + k \in Nat /\ P + k <= P /\ e \in Nat /\ e <= P
      BY <1>2, <1>3, <2>2, <2>3 DEF OS!Min2
    <3> HIDE DEF e
    <3>2. Part(C, P, P + k) = <<>> /\ Part(C, P, e) = <<>>
      BY <1>2, <3>1, PartNone, Zenon
    <3> QED
      BY <2>2, <3>2, Zenon DEF e
  <2>4. CASE n # 0
    <3>1. P + k = e
      BY <1>2, <1>3, <2>2, <2>4 DEF OS!Min2
    <3> QED
      BY <2>2, <3>1, Zenon
  <2> QED
    BY <2>3, <2>4
<1>11. r.state = "end" => r.bytes = Part(C, P, OS!Min2(P + n, Len(C)))
  BY <1>8, Zenon DEF Progress
<1>12. r.state # "failed" => r.bytes = OS!Bytes(f, P, n)
  BY <1>9, <1>10, <1>11, Zenon DEF OS!Bytes, Part, C
<1> QED
  BY <1>1, <1>9, <1>12, Zenon DEF Serving, r, P

-----------------------------------------------------------------------------
(* A step of one handle *)

OneStep(h) ==
  /\ OnlyOf(table, table', h) /\ Keeps(files, files')
  /\ \A g \in Handle : g # h => real'[g] = real[g] /\ call'[g] = call[g]
  /\ Typed' /\ Sized' /\ Untouched'
  /\ Fit(real'[h], table', files', call'[h], h)

LEMMA OthersFit ==
  ASSUME NEW t, NEW u, NEW fs, Len(fs) \in Nat, t \in [Slot -> Tracked(Len(fs))],
         DOMAIN fs = 1..Len(fs), NEW gs, Keeps(fs, gs),
         NEW h, OnlyOf(t, u, h), NEW g \in Handle, g # h,
         NEW o, NEW c, Fit(o, t, fs, c, g)
  PROVE  Fit(o, u, gs, c, g)
<1>1. /\ ServedIn(u, g) = ServedIn(t, g)
      /\ \A s \in Found(t, g) : u[s] = t[s]
  <2>1. ServedIn(u, g) = ServedIn(t, g)
    BY OthersFound
  <2>2. \A s \in Found(t, g) : u[s] = t[s]
    BY OthersFound
  <2> QED
    BY <2>1, <2>2
<1>2. ASSUME NEW s \in ServedIn(u, g)
      PROVE  /\ s \in ServedIn(t, g) /\ u[s].id = t[s].id
             /\ gs[t[s].id].name = fs[t[s].id].name
  <2>1. s \in ServedIn(t, g) /\ s \in Found(t, g)
    BY <1>1, <1>2, Zenon DEF ServedIn
  <2>2. u[s].id = t[s].id
    BY <1>1, <2>1, Zenon
  <2>3. Serves(t, Len(fs), g, s)
    BY <2>1, ServedIs, Zenon
  <2>4. t[s].id \in DOMAIN fs
    BY <2>3, Zenon DEF Serves
  <2> QED
    BY <2>1, <2>2, <2>4, Zenon DEF Keeps
<1> QED
  BY <1>2, Zenon DEF Fit

LEMMA FilesAre ==
  ASSUME Typed
  PROVE  /\ files \in Seq(Cached) /\ Len(files) \in Nat /\ DOMAIN files = 1..Len(files)
         /\ table \in [Slot -> Tracked(Len(files))]
         /\ \A i \in DOMAIN files : files[i] \in Cached
<1> DEFINE C == Cached
<1>1. files \in Seq(C) /\ table \in [Slot -> Tracked(Len(files))]
  BY Zenon DEF Typed
<1> HIDE DEF C
<1>2. /\ Len(files) \in Nat /\ DOMAIN files = 1..Len(files)
      /\ \A i \in DOMAIN files : files[i] \in C
  BY <1>1
<1> QED
  BY <1>1, <1>2, Zenon DEF C

LEMMA OneStepKeeps ==
  ASSUME IInv, NEW h \in Handle, OneStep(h)
  PROVE  IInv'
<1>1. Typed' /\ Sized' /\ Untouched'
  BY Zenon DEF OneStep
<1>2. ASSUME NEW g \in Handle
      PROVE  Fit(real'[g], table', files', call'[g], g)
  <2>1. CASE g = h
    BY <2>1, Zenon DEF OneStep
  <2>2. CASE g # h
    <3>1. real'[g] = real[g] /\ call'[g] = call[g]
      BY <2>2, Zenon DEF OneStep
    <3>2. Fit(real[g], table, files, call[g], g)
      BY Zenon DEF IInv
    <3>3. /\ Len(files) \in Nat /\ DOMAIN files = 1..Len(files)
          /\ table \in [Slot -> Tracked(Len(files))]
      BY FilesAre, Zenon DEF IInv
    <3>4. OnlyOf(table, table', h) /\ Keeps(files, files')
      BY Zenon DEF OneStep
    <3>5. Fit(real[g], table', files', call[g], g)
      BY <2>2, <3>2, <3>3, <3>4, OthersFit, Zenon
    <3> QED
      BY <3>1, <3>5, Zenon
  <2> QED
    BY <2>1, <2>2
<1>3. (\A g \in Handle : Fit(real[g], table, files, call[g], g))'
  BY <1>2, Zenon
<1> QED
  BY <1>1, <1>3, Zenon DEF IInv

-----------------------------------------------------------------------------
(* The original calls *)

\* What a call does to a handle that is opened: its result, by the file and the access
\* alone
Outcome(f, a, pos, c) ==
  LET move == a # "overlapped"
  IN CASE c.op = "read" ->
            LET got == IF move THEN OS!Bytes(f, pos, c.n) ELSE OS!Failed
            IN [out |-> got, pos |-> IF move THEN pos + Len(got) ELSE pos]
       [] c.op = "readAt" ->
            LET got == OS!Bytes(f, 0, c.n)
            IN [out |-> got, pos |-> IF move THEN Len(got) ELSE pos]
       [] c.op = "seek" /\ move ->
            LET base == [begin |-> 0, current |-> pos, end |-> Len(Contents[f])]
                p == IF c.to[1] \in DOMAIN base THEN base[c.to[1]] + c.to[2] ELSE -1
            IN [out |-> IF p < 0 THEN OS!Failed ELSE <<>>, pos |-> IF p < 0 THEN pos ELSE p]
       [] OTHER -> [out |-> OS!Failed, pos |-> pos]

LEMMA ResultIs ==
  ASSUME NEW h, NEW pos, NEW c
  PROVE  OS!Result(h, pos, c) = Outcome(real[h].file, real[h].access, pos, c)
BY Zenon DEF OS!Result, Outcome, OS!Bytes, OS!Failed, OS!Min2

LEMMA GameResultIs ==
  ASSUME NEW h, NEW pos, NEW c
  PROVE  Unhooked!Result(h, pos, c) = Outcome(Seen[h].file, Seen[h].access, pos, c)
BY Zenon DEF Unhooked!Result, Outcome, OS!Bytes, OS!Failed, OS!Min2, Unhooked!Bytes,
   Unhooked!Failed, Unhooked!Min2

LEMMA CallsAre ==
  ASSUME NEW c \in OS!Calls
  PROVE  /\ c.op \in {"read", "readAt", "seek", "write"}
         /\ c.op \in {"read", "readAt"} => c.n \in Nat
         /\ c.op = "seek" => c.to[1] \in STRING /\ c.to[2] \in Int
<1>1. Reads \subseteq Nat /\ Moves \subseteq STRING \X Int
  BY GameAssumption
<1>2. \/ c \in [op : {"read"}, n : Reads] \/ c \in [op : {"readAt"}, n : Reads]
      \/ c \in [op : {"seek"}, to : Moves] \/ c \in [op : {"write"}]
  BY Zenon DEF OS!Calls
<1>3. c \in [op : {"read"}, n : Reads] => c.op = "read" /\ c.n \in Reads
  OBVIOUS
<1>4. c \in [op : {"readAt"}, n : Reads] => c.op = "readAt" /\ c.n \in Reads
  OBVIOUS
<1>5. c \in [op : {"seek"}, to : Moves] => c.op = "seek" /\ c.to \in Moves
  OBVIOUS
<1>6. c \in [op : {"write"}] => c.op = "write"
  OBVIOUS
<1>7. \A m \in Moves : m[1] \in STRING /\ m[2] \in Int
  BY <1>1
<1> QED
  BY <1>1, <1>2, <1>3, <1>4, <1>5, <1>6, <1>7

\* Where a seek comes to
To(pos, n, to) ==
  CASE to[1] = "begin" -> to[2]
    [] to[1] = "current" -> pos + to[2]
    [] to[1] = "end" -> n + to[2]
    [] OTHER -> -1

LEMMA SeekIs ==
  ASSUME NEW c, c.op = "seek", c.to[2] \in Int, NEW f, NEW a, a # "overlapped",
         NEW pos
  PROVE  LET p == To(pos, Len(Contents[f]), c.to)
         IN Outcome(f, a, pos, c) =
              [out |-> IF p < 0 THEN OS!Failed ELSE <<>>, pos |-> IF p < 0 THEN pos ELSE p]
<1> DEFINE m == c.to[1]
           d == c.to[2]
           n == Len(Contents[f])
           base == [begin |-> 0, current |-> pos, end |-> n]
           p == IF m \in DOMAIN base THEN base[m] + d ELSE -1
<1>1. Outcome(f, a, pos, c) =
        [out |-> IF p < 0 THEN OS!Failed ELSE <<>>, pos |-> IF p < 0 THEN pos ELSE p]
  <2>1. c.op # "read" /\ c.op # "readAt"
    OBVIOUS
  <2> QED
    BY <2>1, Zenon DEF Outcome
<1>2. To(pos, n, c.to) = p
  <2> HIDE DEF n
  <2>1. DOMAIN base = {"begin", "current", "end"}
    OBVIOUS
  <2>2. base["begin"] = 0 /\ base["current"] = pos /\ base["end"] = n
    OBVIOUS
  <2> HIDE DEF base
  <2> DEFINE q == To(pos, n, c.to)
  <2>3. CASE m = "begin"
    <3>1. q = d /\ p = 0 + d
      BY <2>1, <2>2, <2>3, Zenon DEF To
    <3> QED
      BY <3>1
  <2>4. CASE m = "current"
    <3>1. m # "begin"
      BY <2>4
    <3>2. q = pos + d /\ p = pos + d
      BY <2>1, <2>2, <2>4, <3>1, Zenon DEF To
    <3> QED
      BY <3>2, Zenon
  <2>5. CASE m = "end"
    <3>1. m # "begin" /\ m # "current"
      BY <2>5
    <3>2. q = n + d /\ p = n + d
      BY <2>1, <2>2, <2>5, <3>1, Zenon DEF To
    <3> QED
      BY <3>2, Zenon
  <2>6. CASE m \notin {"begin", "current", "end"}
    <3>1. m # "begin" /\ m # "current" /\ m # "end"
      BY <2>6
    <3>2. q = -1 /\ p = -1
      BY <2>1, <2>6, <3>1, Zenon DEF To
    <3> QED
      BY <3>2, Zenon
  <2> QED
    BY <2>3, <2>4, <2>5, <2>6
<1> QED
  BY <1>1, <1>2, Zenon

LEMMA ToIs ==
  ASSUME NEW pos \in Nat, NEW n \in Nat, NEW to, to[2] \in Int
  PROVE  To(pos, n, to) \in Int
BY DEF To

LEMMA OutcomePos ==
  ASSUME NEW f \in File, NEW a, NEW pos \in Nat, NEW c \in OS!Calls
  PROVE  Outcome(f, a, pos, c).pos \in Nat
<1>1. CASE c.op = "read"
  <2> DEFINE got == OS!Bytes(f, pos, c.n)
             g == IF a # "overlapped" THEN got ELSE OS!Failed
  <2>1. Len(got) \in Nat
    BY <1>1, BytesAre, CallsAre
  <2>2. Outcome(f, a, pos, c)
          = [out |-> g, pos |-> IF a # "overlapped" THEN pos + Len(g) ELSE pos]
    BY <1>1, Zenon DEF Outcome
  <2> HIDE DEF got
  <2>3. (IF a # "overlapped" THEN pos + Len(g) ELSE pos) \in Nat
    BY <2>1
  <2> HIDE DEF g
  <2> QED
    BY <2>2, <2>3
<1>2. CASE c.op = "readAt"
  <2> DEFINE got == OS!Bytes(f, 0, c.n)
  <2>1. Len(got) \in Nat
    BY <1>2, BytesAre, CallsAre
  <2>2. c.op # "read"
    BY <1>2
  <2>3. Outcome(f, a, pos, c)
          = [out |-> got, pos |-> IF a # "overlapped" THEN Len(got) ELSE pos]
    BY <1>2, <2>2, Zenon DEF Outcome
  <2> HIDE DEF got
  <2> QED
    BY <2>1, <2>3
<1>3. CASE c.op = "seek" /\ a # "overlapped"
  <2> DEFINE p == To(pos, Len(Contents[f]), c.to)
  <2>1. c.to[2] \in Int /\ Len(Contents[f]) \in Nat
    BY <1>3, CallsAre, ContentsAre
  <2>2. Outcome(f, a, pos, c) =
          [out |-> IF p < 0 THEN OS!Failed ELSE <<>>, pos |-> IF p < 0 THEN pos ELSE p]
    BY <1>3, <2>1, SeekIs, Zenon
  <2>3. p \in Int
    BY <2>1, ToIs, Zenon
  <2> HIDE DEF p
  <2>4. (IF p < 0 THEN pos ELSE p) \in Nat
    BY <2>3
  <2> QED
    BY <2>2, <2>4
<1>4. CASE c.op \notin {"read", "readAt"} /\ ~(c.op = "seek" /\ a # "overlapped")
  <2>1. Outcome(f, a, pos, c) = [out |-> OS!Failed, pos |-> pos]
    BY <1>4, Zenon DEF Outcome
  <2> QED
    BY <2>1
<1> QED
  BY <1>1, <1>2, <1>3, <1>4

\* A handle that stands elsewhere, and what a call may answer
Stood(o, p) == [o EXCEPT !.pos = p]
Answers(f, a, pos, c, o, p) ==
  \/ o = Outcome(f, a, pos, c).out /\ p = Outcome(f, a, pos, c).pos
  \/ c.op = "read" /\ o = OS!Failed /\ p = pos
Called(h, pos, c) ==
  /\ real[h] \in Opened /\ real[h] # OS!Closed
  /\ \E p \in Nat : /\ real' = [real EXCEPT ![h] = Stood(real[h], p)]
                    /\ Answers(real[h].file, real[h].access, pos, c, out', p)

LEMMA OpenedAre ==
  ASSUME NEW o \in Opened
  PROVE  /\ o # OS!Closed /\ o.file \in File /\ o.access \in Access /\ o.pos \in Nat
         /\ o = [file |-> o.file, access |-> o.access, pos |-> o.pos]
BY DEF Opened, OS!Closed

LEMMA StoodIs ==
  ASSUME NEW o \in Opened, NEW p \in Nat
  PROVE  /\ Stood(o, p) \in Opened /\ Stood(o, p) # OS!Closed
         /\ Stood(o, p).file = o.file /\ Stood(o, p).access = o.access
         /\ Stood(o, p).pos = p
<1>1. /\ Stood(o, p) \in Opened /\ Stood(o, p).file = o.file /\ Stood(o, p).access = o.access
      /\ Stood(o, p).pos = p
  BY DEF Stood, Opened
<1> QED
  BY <1>1, OpenedAre, Zenon

LEMMA CallIs ==
  ASSUME Typed, NEW h \in Handle, NEW pos \in Nat, NEW c \in OS!Calls, OS!Call(h, pos, c)
  PROVE  Called(h, pos, c)
<1> DEFINE r == OS!Result(h, pos, c)
<1>1. /\ real[h] # OS!Closed
      /\ \/ out' = r.out /\ real' = [real EXCEPT ![h].pos = r.pos]
         \/ c.op = "read" /\ out' = OS!Failed /\ real' = [real EXCEPT ![h].pos = pos]
  BY Zenon DEF OS!Call, OS!IsOpen
<1>2. real[h] \in Opened
  BY <1>1, Zenon DEF Typed
<1>3. r = Outcome(real[h].file, real[h].access, pos, c)
  BY ResultIs, Zenon
<1>4. real[h].file \in File
  BY <1>2, OpenedAre, Zenon
<1>5. r.pos \in Nat
  BY <1>3, <1>4, OutcomePos, Zenon
<1>6. \A p : [real EXCEPT ![h].pos = p] = [real EXCEPT ![h] = Stood(real[h], p)]
  BY Zenon DEF Stood
<1> HIDE DEF r
<1>7. CASE out' = r.out /\ real' = [real EXCEPT ![h].pos = r.pos]
  <2>1. real' = [real EXCEPT ![h] = Stood(real[h], r.pos)]
    BY <1>6, <1>7, Zenon
  <2>2. Answers(real[h].file, real[h].access, pos, c, out', r.pos)
    BY <1>3, <1>7, Zenon DEF Answers
  <2> QED
    BY <1>1, <1>2, <1>5, <2>1, <2>2, Zenon DEF Called
<1>8. CASE c.op = "read" /\ out' = OS!Failed /\ real' = [real EXCEPT ![h].pos = pos]
  <2>1. real' = [real EXCEPT ![h] = Stood(real[h], pos)]
    BY <1>6, <1>8, Zenon
  <2>2. Answers(real[h].file, real[h].access, pos, c, out', pos)
    BY <1>8, Zenon DEF Answers
  <2> QED
    BY <1>1, <1>2, <2>1, <2>2, Zenon DEF Called
<1> QED
  BY <1>1, <1>7, <1>8

-----------------------------------------------------------------------------
(* The actions *)

LEMMA SameFiles ==
  ASSUME NEW fs
  PROVE  Keeps(fs, fs)
BY Zenon DEF Keeps

LEMMA SameExcept ==
  ASSUME NEW D, NEW R, NEW f \in [D -> R], NEW x \in D
  PROVE  [f EXCEPT ![x] = f[x]] = f
OBVIOUS

\* What changes of one handle, with the files as they are
Alone(h, v, k) ==
  /\ real' = [real EXCEPT ![h] = v] /\ v \in {OS!Closed} \cup Opened
  /\ call' = [call EXCEPT ![h] = k] /\ k \in Calling

LEMMA AloneIs ==
  ASSUME Typed, NEW h \in Handle, NEW v, NEW k, Alone(h, v, k)
  PROVE  /\ real' \in [Handle -> {OS!Closed} \cup Opened] /\ real'[h] = v
         /\ call' \in [Handle -> Calling] /\ call'[h] = k
         /\ \A g \in Handle : g # h => real'[g] = real[g] /\ call'[g] = call[g]
<1> DEFINE R == {OS!Closed} \cup Opened
<1>1. real \in [Handle -> R] /\ call \in [Handle -> Calling]
  BY Zenon DEF Typed
<1>2. /\ real' = [real EXCEPT ![h] = v] /\ v \in R
      /\ call' = [call EXCEPT ![h] = k] /\ k \in Calling
  BY Zenon DEF Alone
<1> HIDE DEF R
<1>3. /\ real' \in [Handle -> R] /\ real'[h] = v
      /\ call' \in [Handle -> Calling] /\ call'[h] = k
      /\ \A g \in Handle : g # h => real'[g] = real[g] /\ call'[g] = call[g]
  BY <1>1, <1>2, Zenon
<1> QED
  BY <1>3, Zenon DEF R

LEMMA Single ==
  ASSUME IInv, NEW h \in Handle, NEW v, NEW k, Alone(h, v, k),
         files' \in Seq(Cached), Len(files') <= MaxFiles, Keeps(files, files'), Sized',
         table' \in [Slot -> Tracked(Len(files'))], OnlyOf(table, table', h),
         blocks' \in Cache(files'), ready' = ready, ready = FALSE => table' = table,
         Fit(v, table', files', k, h)
  PROVE  OneStep(h)
<1>0. Typed /\ Untouched
  BY Zenon DEF IInv
<1>1. /\ real' \in [Handle -> {OS!Closed} \cup Opened] /\ real'[h] = v
      /\ call' \in [Handle -> Calling] /\ call'[h] = k
      /\ \A g \in Handle : g # h => real'[g] = real[g] /\ call'[g] = call[g]
  BY <1>0, AloneIs, Zenon
<1>2. ready' \in BOOLEAN
  BY <1>0, Zenon DEF Typed
<1>3. Typed'
  BY <1>1, <1>2, Zenon DEF Typed
<1>4. Untouched'
  BY <1>0, Zenon DEF Untouched
<1>5. Fit(real'[h], table', files', call'[h], h)
  BY <1>1, Zenon
<1> QED
  BY <1>1, <1>3, <1>4, <1>5, Zenon DEF OneStep

\* The same with the files, the blocks and the table as they were
LEMMA SingleQuiet ==
  ASSUME IInv, NEW h \in Handle, NEW v, NEW k, Alone(h, v, k),
         UNCHANGED cacheVars, Fit(v, table, files, k, h)
  PROVE  OneStep(h)
<1>1. Typed /\ Sized
  BY Zenon DEF IInv
<1>2. ready' = ready /\ files' = files /\ blocks' = blocks /\ table' = table
  BY Zenon DEF cacheVars
<1>3. /\ files' \in Seq(Cached) /\ Len(files') <= MaxFiles /\ blocks' \in Cache(files')
      /\ table' \in [Slot -> Tracked(Len(files'))]
  BY <1>1, <1>2, Zenon DEF Typed
<1>4. Sized'
  BY <1>1, <1>2, Zenon DEF Sized
<1>5. Keeps(files, files') /\ OnlyOf(table, table', h)
  BY <1>2, SameFiles, NoChange, Zenon
<1>6. Fit(v, table', files', k, h)
  BY <1>2, Zenon
<1> QED
  BY <1>2, <1>3, <1>4, <1>5, <1>6, Single, Zenon

LEMMA CallingIs ==
  /\ Idle \in Calling /\ Idle.op = "idle"
  /\ \A f \in File, a \in Access :
       /\ [op |-> "note", file |-> f, access |-> a] \in Calling
       /\ [op |-> "note", file |-> f, access |-> a] # Idle
  /\ \A p \in Nat : /\ [op |-> "close", pos |-> p] \in Calling
                    /\ [op |-> "close", pos |-> p] # Idle
  /\ \A c \in Calling :
       /\ c.op = "note" => c.file \in File /\ c.access \in Access
       /\ c.op = "close" => c.pos \in Nat
       /\ c # Idle => c.op \in {"note", "close"}
<1>1. Idle \in Calling /\ Idle.op = "idle"
  BY DEF Idle, Calling
<1>2. ASSUME NEW f \in File, NEW a \in Access
      PROVE  /\ [op |-> "note", file |-> f, access |-> a] \in Calling
             /\ [op |-> "note", file |-> f, access |-> a] # Idle
  BY DEF Calling, Idle
<1>3. ASSUME NEW p \in Nat
      PROVE  [op |-> "close", pos |-> p] \in Calling /\ [op |-> "close", pos |-> p] # Idle
  BY DEF Calling, Idle
<1>4. ASSUME NEW c \in Calling
      PROVE  /\ c.op = "note" => c.file \in File /\ c.access \in Access
             /\ c.op = "close" => c.pos \in Nat
             /\ c # Idle => c.op \in {"note", "close"}
  BY DEF Calling, Idle
<1> QED
  BY <1>1, <1>2, <1>3, <1>4

LEMMA InstallStep ==
  ASSUME IInv, Install
  PROVE  IInv'
<1>1. ready' = TRUE /\ UNCHANGED <<real, files, blocks, table, call>>
  BY Zenon DEF Install
<1>2. Typed /\ Sized
  BY Zenon DEF IInv
<1>3. Typed'
  BY <1>1, <1>2, Zenon DEF Typed
<1>4. Sized'
  BY <1>1, <1>2, Zenon DEF Sized
<1>5. Untouched'
  BY <1>1, Zenon DEF Untouched
<1>6. (\A h \in Handle : Fit(real[h], table, files, call[h], h))'
  BY <1>1, Zenon DEF IInv
<1> QED
  BY <1>3, <1>4, <1>5, <1>6, Zenon DEF IInv

LEMMA CreateStep ==
  ASSUME IInv, NEW h \in Handle, NEW o \in Opens, HookCreateFile(h, o[1], o[2])
  PROVE  OneStep(h)
<1> DEFINE f == o[1]
           a == o[2]
           v == [file |-> f, access |-> a, pos |-> 0]
           k == [op |-> "note", file |-> f, access |-> a]
<1>1. f \in File /\ a \in Access
  BY GameAssumption DEF Access
<1> HIDE DEF f, a
<1>2. real' = [real EXCEPT ![h] = v] /\ call' = [call EXCEPT ![h] = k] /\ UNCHANGED cacheVars
  BY Zenon DEF HookCreateFile, OS!Open, Leave, f, a
<1>3. v \in Opened
  BY <1>1 DEF Opened
<1>4. k \in Calling /\ k # Idle
  BY <1>1, CallingIs, Zenon
<1>5. Fit(v, table, files, k, h)
  <2>1. k.op # "close" /\ k.file = f /\ k.access = a
    OBVIOUS
  <2> HIDE DEF k
  <2> QED
    BY <1>4, <2>1, Zenon DEF Fit
<1> HIDE DEF v, k
<1>6. Alone(h, v, k)
  BY <1>2, <1>3, <1>4, Zenon DEF Alone
<1> QED
  BY <1>2, <1>5, <1>6, SingleQuiet, Zenon

\* A handle that is closed, with the call to do so or behind the cache's back
LEMMA ShutStep ==
  ASSUME IInv, NEW h \in Handle, OrigCloseHandle(h) \/ CloseUnseen(h)
  PROVE  OneStep(h)
<1>1. call \in [Handle -> Calling]
  BY Zenon DEF IInv, Typed
<1>2. real' = [real EXCEPT ![h] = OS!Closed] /\ UNCHANGED cacheVars
  BY Zenon DEF OrigCloseHandle, CloseUnseen, OS!Close, cacheVars
<1>3. call' = [call EXCEPT ![h] = Idle]
  <2>1. CASE OrigCloseHandle(h)
    BY <2>1, Zenon DEF OrigCloseHandle, Leave
  <2>2. CASE CloseUnseen(h)
    <3>1. call[h] = Idle /\ call' = call
      BY <2>2, Zenon DEF CloseUnseen, Usable
    <3> QED
      BY <1>1, <3>1, SameExcept
  <2> QED
    BY <2>1, <2>2
<1>4. Alone(h, OS!Closed, Idle)
  BY <1>2, <1>3, CallingIs, Zenon DEF Alone
<1>5. Idle.op # "note" /\ Idle.op # "close"
  BY DEF Idle
<1>6. Fit(OS!Closed, table, files, Idle, h)
  BY <1>5, Zenon DEF Fit
<1> QED
  BY <1>2, <1>4, <1>6, SingleQuiet, Zenon

\* A usable handle, and what there is of one that is served
LEMMA UsableIs ==
  ASSUME Typed, NEW h \in Handle, Usable(h)
  PROVE  /\ call[h] = Idle /\ [call EXCEPT ![h] = Idle] = call
         /\ real[h] \in Opened /\ real[h] # OS!Closed
<1>1. call \in [Handle -> Calling] /\ real \in [Handle -> {OS!Closed} \cup Opened]
  BY Zenon DEF Typed
<1>2. call[h] = Idle /\ real[h] # OS!Closed
  BY Zenon DEF Usable, OS!IsOpen
<1>3. [call EXCEPT ![h] = Idle] = call
  BY <1>1, <1>2, SameExcept
<1>4. real[h] \in Opened
  BY <1>1, <1>2, Zenon
<1> QED
  BY <1>2, <1>3, <1>4

\* The handle has no entry it is served by.
LEMMA Bare ==
  ASSUME NEW t, NEW fs, NEW h, ServedIn(t, h) = {}, NEW o
  PROVE  Fit(o, t, fs, Idle, h)
<1>1. Idle.op # "note" /\ Idle.op # "close"
  BY DEF Idle
<1> QED
  BY <1>1, Zenon DEF Fit

LEMMA NotServed ==
  ASSUME IInv, NEW h \in Handle, ready => ~Served(h)
  PROVE  ServedIn(table, h) = {}
<1>1. CASE ready
  BY <1>1, TableIs, Zenon
<1>2. CASE ~ready
  <2>1. table = [s \in Slot |-> NoEntry]
    BY <1>2, Zenon DEF IInv, Typed, Untouched
  <2>2. \A p \in 1..Probe : ~HasIn(table, Group[h][p], h)
    BY <2>1, GroupIs DEF HasIn, NoEntry
  <2>3. Found(table, h) = {}
    BY <2>2, Zenon DEF Found, At
  <2> QED
    BY <2>3, Zenon DEF ServedIn
<1> QED
  BY <1>1, <1>2

LEMMA UnservedStep ==
  ASSUME IInv, NEW h \in Handle, NEW c \in OS!Calls, Unserved(h, c)
  PROVE  OneStep(h) /\ Called(h, real[h].pos, c) /\ ServedIn(table, h) = {}
<1>1. /\ Usable(h) /\ (ready => ~Served(h)) /\ OS!Call(h, real[h].pos, c)
      /\ UNCHANGED cacheVars /\ call' = call
  BY Zenon DEF Unserved
<1>2. Typed
  BY Zenon DEF IInv
<1>3. call[h] = Idle /\ [call EXCEPT ![h] = Idle] = call /\ real[h] \in Opened
  BY <1>1, <1>2, UsableIs, Zenon
<1>4. real[h].pos \in Nat
  BY <1>3, OpenedAre, Zenon
<1>5. Called(h, real[h].pos, c)
  BY <1>1, <1>2, <1>4, CallIs, Zenon
<1>6. ServedIn(table, h) = {}
  BY <1>1, NotServed, Zenon
<1>7. PICK p \in Nat : real' = [real EXCEPT ![h] = Stood(real[h], p)]
  BY <1>5, Zenon DEF Called
<1>8. Stood(real[h], p) \in Opened
  BY <1>3, StoodIs, Zenon
<1>9. Alone(h, Stood(real[h], p), Idle)
  BY <1>1, <1>3, <1>7, <1>8, CallingIs, Zenon DEF Alone
<1>10. Fit(Stood(real[h], p), table, files, Idle, h)
  BY <1>6, Bare, Zenon
<1>11. OneStep(h)
  BY <1>1, <1>9, <1>10, SingleQuiet, Zenon
<1> QED
  BY <1>5, <1>6, <1>11

-----------------------------------------------------------------------------
(* The calls on a handle that is served *)

Serving1(h) ==
  /\ Serves(table, Len(files), h, SlotOf(h)) /\ ServedIn(table, h) = {SlotOf(h)}
  /\ Reader(h, real[h].file) /\ real[h].access = "read" /\ real[h] \in Opened
  /\ call[h] = Idle /\ [call EXCEPT ![h] = Idle] = call
  /\ table[SlotOf(h)].pos \in Nat

LEMMA ServedReads ==
  ASSUME IInv, NEW h \in Handle, Usable(h), Served(h)
  PROVE  Serving1(h)
<1> DEFINE s == SlotOf(h)
           n == Len(files)
<1>1. Typed /\ Fit(real[h], table, files, call[h], h)
  BY Zenon DEF IInv
<1>2. /\ n \in Nat /\ DOMAIN files = 1..n /\ table \in [Slot -> Tracked(n)]
  BY <1>1, FilesAre, Zenon
<1>3. /\ call[h] = Idle /\ [call EXCEPT ![h] = Idle] = call
      /\ real[h] \in Opened /\ real[h] # OS!Closed
  BY <1>1, UsableIs, Zenon
<1>4. ServedIn(table, h) # {}
  BY TableIs, Zenon
<1>5. Serves(table, n, h, s)
  BY <1>2, <1>4, ServingIs, Zenon
<1> HIDE DEF s
<1>6. ServedIn(table, h) = {s} /\ table[s].id \in 1..n /\ table[s].pos \in Nat
  BY <1>5, Zenon DEF Serves
<1>7. real[h].access = "read" /\ files[table[s].id].name = real[h].file
  BY <1>1, <1>3, <1>6, Zenon DEF Fit
<1>8. table[s].id \in Nat \ {NoFile} /\ table[s].id \in DOMAIN files
  BY <1>2, <1>6 DEF NoFile
<1>9. real[h].file \in File
  BY <1>3, OpenedAre, Zenon
<1>10. Reader(h, real[h].file)
  BY <1>6, <1>7, <1>8, <1>9, Zenon DEF Reader, s
<1> QED
  BY <1>3, <1>5, <1>6, <1>7, <1>10, Zenon DEF Serving1, s

\* What a call does to the files
Growing ==
  /\ files' \in Seq(Cached) /\ Len(files') <= MaxFiles /\ Len(files') = Len(files)
  /\ Keeps(files, files') /\ Sized'

LEMMA SameGrowing ==
  ASSUME IInv, files' = files
  PROVE  Growing
<1>1. files \in Seq(Cached) /\ Len(files) <= MaxFiles /\ Sized
  BY Zenon DEF IInv, Typed
<1>2. Sized'
  BY <1>1, Zenon DEF Sized
<1> QED
  BY <1>1, <1>2, SameFiles, Zenon DEF Growing

LEMMA GiveUpStep ==
  ASSUME IInv, NEW h \in Handle, ready, Serving1(h), NEW c \in OS!Calls, GiveUp(h, c),
         Growing, blocks' \in Cache(files'), ready' = ready, call' = call
  PROVE  OneStep(h) /\ Called(h, Restored(h), c) /\ ServedIn(table', h) = {}
<1> DEFINE s == SlotOf(h)
           n == Len(files)
<1>1. Typed
  BY Zenon DEF IInv
<1>2. n \in Nat /\ table \in [Slot -> Tracked(n)]
  BY <1>1, FilesAre, Zenon
<1>3. /\ Serves(table, n, h, s) /\ real[h] \in Opened
      /\ call[h] = Idle /\ [call EXCEPT ![h] = Idle] = call
      /\ table[s].pos \in Nat
  BY Zenon DEF Serving1
<1>4. table' = Dropped(h) /\ OS!Call(h, Restored(h), c)
  BY Zenon DEF GiveUp
<1>5. DropsTo(table, table', s)
  BY <1>4, Zenon DEF Dropped, DropsTo
<1>6. Restored(h) \in Nat
  BY <1>3, Zenon DEF Restored
<1> HIDE DEF s
<1>7. table' \in [Slot -> Tracked(n)] /\ OnlyOf(table, table', h) /\ ServedIn(table', h) = {}
  BY <1>2, <1>3, <1>5, DroppedIs, Zenon
<1>8. Called(h, Restored(h), c)
  BY <1>1, <1>4, <1>6, CallIs, Zenon
<1>9. PICK p \in Nat : real' = [real EXCEPT ![h] = Stood(real[h], p)]
  BY <1>8, Zenon DEF Called
<1>10. Stood(real[h], p) \in Opened
  BY <1>3, StoodIs, Zenon
<1>11. Alone(h, Stood(real[h], p), Idle)
  BY <1>3, <1>9, <1>10, CallingIs, Zenon DEF Alone
<1>12. Fit(Stood(real[h], p), table', files', Idle, h)
  BY <1>7, Bare, Zenon
<1>13. /\ files' \in Seq(Cached) /\ Len(files') <= MaxFiles /\ Len(files') = n
       /\ Keeps(files, files') /\ Sized'
  BY Zenon DEF Growing
<1>14. table' \in [Slot -> Tracked(Len(files'))]
  BY <1>7, <1>13, Zenon
<1>15. OneStep(h)
  BY <1>7, <1>11, <1>12, <1>13, <1>14, Single, Zenon
<1> QED
  BY <1>7, <1>8, <1>15

LEMMA OtherStep ==
  ASSUME IInv, NEW h \in Handle, NEW c \in OS!Calls, HookOther(h, c)
  PROVE  /\ OneStep(h) /\ Called(h, Restored(h), c) /\ ServedIn(table', h) = {}
         /\ Serving1(h)
<1>1. /\ Usable(h) /\ ready /\ Served(h) /\ GiveUp(h, c)
      /\ ready' = ready /\ files' = files /\ call' = call
      /\ blocks' = blocks \/ blocks' = Invalidated(table[SlotOf(h)].id)
  BY Zenon DEF HookOther
<1>2. Serving1(h)
  BY <1>1, ServedReads, Zenon
<1>3. Growing
  BY <1>1, SameGrowing, Zenon
<1>4. blocks \in Cache(files)
  BY Zenon DEF IInv, Typed
<1>5. blocks' \in Cache(files')
  BY <1>1, <1>4, InvalidatedIs, Zenon
<1> QED
  BY <1>1, <1>2, <1>3, <1>5, GiveUpStep, Zenon

\* A handle that stays served: where it stands, and where the last fetch left the handle
\* of the system
Served1(h, p) ==
  /\ Serves(table', Len(files'), h, SlotOf(h)) /\ table'[SlotOf(h)].pos = p
  /\ \E q \in Nat : real' = [real EXCEPT ![h] = Stood(real[h], q)]
  /\ p \in Nat /\ call' = call

LEMMA MovedStep ==
  ASSUME IInv, NEW h \in Handle, Serving1(h), Growing, blocks' \in Cache(files'),
         ready' = ready, ready, call' = call, NEW p \in Nat,
         MovesTo(table, table', SlotOf(h), p),
         NEW q \in Nat, real' = [real EXCEPT ![h] = Stood(real[h], q)]
  PROVE  OneStep(h) /\ Served1(h, p)
<1> DEFINE s == SlotOf(h)
           n == Len(files)
           v == Stood(real[h], q)
<1>1. Typed /\ Fit(real[h], table, files, call[h], h)
  BY Zenon DEF IInv
<1>2. /\ n \in Nat /\ DOMAIN files = 1..n /\ table \in [Slot -> Tracked(n)]
  BY <1>1, FilesAre, Zenon
<1>3. /\ Serves(table, n, h, s) /\ real[h] \in Opened /\ real[h].access = "read"
      /\ call[h] = Idle /\ [call EXCEPT ![h] = Idle] = call
      /\ Reader(h, real[h].file)
  BY Zenon DEF Serving1
<1>4. /\ table[s].id \in DOMAIN files /\ files[table[s].id].name = real[h].file
  BY <1>3, Zenon DEF Reader
<1> HIDE DEF s
<1>5. /\ table' \in [Slot -> Tracked(n)] /\ OnlyOf(table, table', h)
      /\ Serves(table', n, h, s) /\ table'[s].pos = p /\ table'[s].id = table[s].id
  <2>1. MovesTo(table, table', s, p)
    BY Zenon DEF s
  <2>2. table' \in [Slot -> Tracked(n)] /\ OnlyOf(table, table', h) /\ Serves(table', n, h, s)
    BY <1>2, <1>3, <2>1, MovedIs, Zenon
  <2>3. table'[s].pos = p /\ table'[s].id = table[s].id
    BY <1>2, <1>3, <2>1, MovedIs
  <2> QED
    BY <2>2, <2>3
<1>6. /\ files' \in Seq(Cached) /\ Len(files') <= MaxFiles /\ Len(files') = n
      /\ Keeps(files, files') /\ Sized'
  BY Zenon DEF Growing
<1>7. /\ v \in Opened /\ v.file = real[h].file /\ v.access = real[h].access
  BY <1>3, StoodIs, Zenon
<1> HIDE DEF v
<1>8. Fit(v, table', files', Idle, h)
  <2>1. Idle.op # "note" /\ Idle.op # "close"
    BY DEF Idle
  <2>2. ServedIn(table', h) = {s}
    BY <1>5, Zenon DEF Serves
  <2>3. files'[table'[s].id].name = real[h].file
    BY <1>4, <1>5, <1>6, Zenon DEF Keeps
  <2> QED
    BY <1>3, <1>7, <2>1, <2>2, <2>3, Zenon DEF Fit
<1>9. Alone(h, v, Idle)
  BY <1>3, <1>7, CallingIs, Zenon DEF Alone, v
<1>10. table' \in [Slot -> Tracked(Len(files'))] /\ Serves(table', Len(files'), h, s)
  BY <1>5, <1>6, Zenon
<1>11. OneStep(h)
  BY <1>5, <1>6, <1>8, <1>9, <1>10, Single, Zenon
<1> QED
  BY <1>5, <1>10, <1>11, Zenon DEF Served1, s

\* A call that the cache gives up on, and one that it serves
Dropping(h, c) == Called(h, Restored(h), c) /\ ServedIn(table', h) = {}
Keeping(h, p) == Served1(h, p)

LEMMA ReadStep ==
  ASSUME IInv, NEW h \in Handle, NEW c \in OS!Calls, NEW bad, HookReadFile(h, c, bad)
  PROVE  /\ OneStep(h) /\ Serving1(h)
         /\ \/ Dropping(h, c)
            \/ /\ c.op = "read" /\ out' = OS!Bytes(real[h].file, table[SlotOf(h)].pos, c.n)
               /\ Keeping(h, table[SlotOf(h)].pos + Len(out'))
<1> DEFINE r == ServeRead(h, c.n, bad)
           s == SlotOf(h)
           f == real[h].file
<1>1. /\ c.op = "read" /\ Usable(h) /\ ready /\ Served(h)
      /\ blocks' = r.blocks /\ ready' = ready /\ files' = files /\ call' = call
      /\ r.state = "failed" => GiveUp(h, c)
      /\ r.state # "failed" => /\ table' = [table EXCEPT ![s].pos = @ + Len(r.bytes)]
                               /\ real' = [real EXCEPT ![h].pos = r.ptr]
                               /\ out' = r.bytes
  BY Zenon DEF HookReadFile
<1>2. Serving1(h) /\ Growing
  BY <1>1, ServedReads, SameGrowing, Zenon
<1>3. Reader(h, f) /\ real[h] \in Opened /\ table[s].pos \in Nat
  BY <1>2, Zenon DEF Serving1
<1>4. c.n \in Nat
  BY <1>1, CallsAre
<1>5. blocks \in Cache(files)
  BY Zenon DEF IInv, Typed
<1>6. real[h].pos \in Nat /\ f \in File
  BY <1>3, OpenedAre, Zenon
<1>7. Serving(r, f, table[s].pos, c.n)
  BY <1>3, <1>4, <1>5, <1>6, ServeReadIs, Zenon
<1> HIDE DEF r, s, f
<1>8. /\ r.blocks \in Cache(files) /\ r.ptr \in Nat
      /\ r.state # "failed" => r.bytes = OS!Bytes(f, table[s].pos, c.n)
  BY <1>7, Zenon DEF Serving
<1>9. blocks' \in Cache(files')
  BY <1>1, <1>8, Zenon
<1>10. CASE r.state = "failed"
  <2>1. OneStep(h) /\ Called(h, Restored(h), c) /\ ServedIn(table', h) = {}
    BY <1>1, <1>2, <1>9, <1>10, GiveUpStep, Zenon
  <2> QED
    BY <1>2, <2>1, Zenon DEF Dropping
<1>11. CASE r.state # "failed"
  <2> DEFINE p == table[s].pos + Len(r.bytes)
  <2>1. r.bytes = OS!Bytes(f, table[s].pos, c.n) /\ out' = r.bytes
    BY <1>1, <1>8, <1>11, Zenon
  <2>2. Len(OS!Bytes(f, table[s].pos, c.n)) \in Nat
    BY <1>3, <1>4, <1>6, BytesAre
  <2>3. p \in Nat
    BY <1>3, <2>1, <2>2
  <2>4. MovesTo(table, table', s, p)
    BY <1>1, <1>11, Zenon DEF MovesTo
  <2>5. real' = [real EXCEPT ![h] = Stood(real[h], r.ptr)]
    BY <1>1, <1>11, Zenon DEF Stood
  <2>6. OneStep(h) /\ Served1(h, p)
    <3> HIDE DEF p
    <3> QED
      BY <1>1, <1>2, <1>8, <1>9, <2>3, <2>4, <2>5, MovedStep, Zenon DEF s
  <2> QED
    BY <1>1, <1>2, <2>1, <2>6, Zenon DEF s, f, Keeping
<1> QED
  BY <1>10, <1>11

LEMMA SizeIs ==
  ASSUME IInv, NEW h \in Handle, Serving1(h), NEW sized
  PROVE  SizeOf(h, sized) \in {Unknown, Len(Contents[real[h].file])}
<1> DEFINE i == table[SlotOf(h)].id
<1>1. i \in DOMAIN files /\ files[i].name = real[h].file
  BY Zenon DEF Serving1, Reader
<1>2. files[i].size \in {Unknown, Len(Contents[real[h].file])}
  BY <1>1, Zenon DEF IInv, Sized
<1> QED
  BY <1>2, Zenon DEF SizeOf

LEMMA SizedIs ==
  ASSUME IInv, NEW i \in DOMAIN files, NEW x \in {Unknown, Len(Contents[files[i].name])},
         files' = [files EXCEPT ![i].size = x]
  PROVE  Growing
<1>1. /\ files \in Seq(Cached) /\ Len(files) \in Nat /\ DOMAIN files = 1..Len(files)
      /\ \A j \in DOMAIN files : files[j] \in Cached
  BY FilesAre, Zenon DEF IInv
<1>2. Len(files) <= MaxFiles /\ Sized /\ Archive \subseteq File
  BY CacheAssumption, Zenon DEF IInv, Typed
<1>3. files[i] \in Cached
  BY <1>1, Zenon
<1>4. files[i].name \in File
  BY <1>2, <1>3 DEF Cached
<1>5. Len(Contents[files[i].name]) \in Nat
  BY <1>4, ContentsAre, Zenon
<1> DEFINE e == [files[i] EXCEPT !.size = x]
<1>6. e \in Cached /\ e.name = files[i].name /\ e.size = x
  BY <1>3, <1>5 DEF Cached
<1>7. files' = [files EXCEPT ![i] = e]
  BY Zenon
<1> DEFINE C == Cached
<1> HIDE DEF e, C
<1>8. /\ files' \in Seq(C) /\ Len(files') = Len(files) /\ DOMAIN files' = DOMAIN files
      /\ files'[i] = e /\ \A j \in DOMAIN files : j # i => files'[j] = files[j]
  BY <1>1, <1>6, <1>7 DEF C
<1>9. Keeps(files, files')
  BY <1>6, <1>8, Zenon DEF Keeps
<1>10. \A j \in DOMAIN files' : files'[j].size \in {Unknown, Len(Contents[files'[j].name])}
  BY <1>2, <1>6, <1>8, Zenon DEF Sized
<1> QED
  BY <1>2, <1>8, <1>9, <1>10, Zenon DEF Growing, Sized, C

LEMMA SeekStep ==
  ASSUME IInv, NEW h \in Handle, NEW c \in OS!Calls, NEW sized, HookSetFilePointer(h, c, sized)
  PROVE  /\ OneStep(h) /\ Serving1(h)
         /\ \/ Dropping(h, c)
            \/ LET p == To(table[SlotOf(h)].pos, Len(Contents[real[h].file]), c.to)
               IN c.op = "seek" /\ out' = <<>> /\ ~(p < 0) /\ Keeping(h, p)
<1> DEFINE s == SlotOf(h)
           size == SizeOf(h, sized)
           p == Reposition(h, c.to, sized)
           n == Len(Contents[real[h].file])
           i == table[s].id
<1>1. /\ c.op = "seek" /\ Usable(h) /\ ready /\ Served(h)
      /\ files' = IF c.to[1] = "end" THEN [files EXCEPT ![i].size = size] ELSE files
      /\ p < 0 => GiveUp(h, c)
      /\ ~(p < 0) => /\ table' = [table EXCEPT ![s].pos = p] /\ out' = <<>> /\ real' = real
      /\ ready' = ready /\ blocks' = blocks /\ call' = call
  BY Zenon DEF HookSetFilePointer, Silent
<1>2. Serving1(h)
  BY <1>1, ServedReads, Zenon
<1>3. Reader(h, real[h].file) /\ real[h] \in Opened /\ table[s].pos \in Nat
  BY <1>2, Zenon DEF Serving1
<1>4. i \in DOMAIN files /\ files[i].name = real[h].file /\ real[h].file \in File
  BY <1>3, Zenon DEF Reader
<1>5. size \in {Unknown, n} /\ n \in Nat
  BY <1>2, <1>4, SizeIs, ContentsAre, Zenon
<1> HIDE DEF size, i
<1>6. Growing
  <2>1. CASE c.to[1] = "end"
    <3>1. files' = [files EXCEPT ![i].size = size]
      BY <1>1, <2>1, Zenon
    <3>2. size \in {Unknown, Len(Contents[files[i].name])}
      BY <1>4, <1>5, Zenon
    <3> QED
      BY <1>4, <3>1, <3>2, SizedIs, Zenon
  <2>2. CASE c.to[1] # "end"
    BY <1>1, <2>2, SameGrowing, Zenon
  <2> QED
    BY <2>1, <2>2
<1>7. blocks' \in Cache(files')
  <2>1. blocks \in Cache(files)
    BY Zenon DEF IInv, Typed
  <2>2. Keeps(files, files')
    BY <1>6, Zenon DEF Growing
  <2>3. Cache(files) \subseteq Cache(files')
    BY <2>2, HeldGrows, Zenon
  <2> QED
    BY <1>1, <2>1, <2>3, Zenon
<1>8. c.to[2] \in Int
  BY <1>1, CallsAre
<1>9. CASE p < 0
  <2>1. OneStep(h) /\ Called(h, Restored(h), c) /\ ServedIn(table', h) = {}
    BY <1>1, <1>2, <1>6, <1>7, <1>9, GiveUpStep, Zenon
  <2> QED
    BY <1>2, <2>1, Zenon DEF Dropping
<1>10. CASE ~(p < 0)
  <2> DEFINE q == To(table[s].pos, n, c.to)
             m == c.to[1]
  <2> HIDE DEF n
  <2>1. q = p
    <3>1. CASE m = "begin"
      BY <3>1, Zenon DEF Reposition, To
    <3>2. CASE m = "current"
      <4>1. m # "begin"
        BY <3>2
      <4> QED
        BY <3>2, <4>1, Zenon DEF Reposition, To, s
    <3>3. CASE m = "end" /\ size # Unknown
      <4>1. m # "begin" /\ m # "current"
        BY <3>3
      <4>2. p = size + c.to[2] /\ q = n + c.to[2]
        BY <3>3, <4>1, Zenon DEF Reposition, To, size
      <4>3. size = n
        BY <1>5, <3>3, Zenon
      <4> QED
        BY <4>2, <4>3, Zenon
    <3>4. CASE m \notin {"begin", "current"} /\ ~(m = "end" /\ size # Unknown)
      <4>1. p = -1
        BY <3>4, Zenon DEF Reposition, size
      <4> QED
        BY <1>10, <4>1
    <3> QED
      BY <3>1, <3>2, <3>3, <3>4
  <2>2. q \in Int
    BY <1>3, <1>5, <1>8, ToIs, Zenon
  <2> HIDE DEF q
  <2>3. p \in Nat
    BY <1>10, <2>1, <2>2
  <2>4. MovesTo(table, table', s, p)
    BY <1>1, <1>10, Zenon DEF MovesTo
  <2>5. real' = [real EXCEPT ![h] = Stood(real[h], real[h].pos)] /\ real[h].pos \in Nat
    <3>1. Stood(real[h], real[h].pos) = real[h]
      BY <1>3 DEF Stood, Opened
    <3>2. real \in [Handle -> {OS!Closed} \cup Opened]
      BY Zenon DEF IInv, Typed
    <3>3. [real EXCEPT ![h] = real[h]] = real
      BY <3>2, SameExcept
    <3>4. real' = real
      BY <1>1, <1>10, Zenon
    <3> QED
      BY <1>3, <3>1, <3>3, <3>4, OpenedAre, Zenon
  <2> HIDE DEF p
  <2>6. OneStep(h) /\ Served1(h, p)
    BY <1>1, <1>2, <1>6, <1>7, <2>3, <2>4, <2>5, MovedStep, Zenon DEF s
  <2>7. out' = <<>>
    BY <1>1, <1>10, Zenon DEF p
  <2>8. ~(p < 0)
    BY <2>3
  <2> QED
    BY <1>1, <1>2, <2>1, <2>6, <2>7, <2>8, Zenon DEF q, s, n, Keeping
<1> QED
  BY <1>9, <1>10

-----------------------------------------------------------------------------
(* The note of a handle that is opened, and the call to close one *)

\* FindOrAddFile
Adding(fs, gs, f, i) ==
  /\ gs \in Seq(Cached) /\ Len(gs) <= MaxFiles /\ Keeps(fs, gs) /\ Len(fs) <= Len(gs)
  /\ \A j \in DOMAIN gs : gs[j].size \in {Unknown, Len(Contents[gs[j].name])}
  /\ i \in NoFile..Len(gs) /\ (i # NoFile => gs[i].name = f)

LEMMA FilesIs ==
  ASSUME Typed, Sized, NEW f \in Archive
  PROVE  Adding(files, Files(f), f, IdOf(f))
<1> DEFINE gs == Files(f)
           i == IdOf(f)
           C == Cached
           e == [name |-> f, size |-> Unknown]
           n == Len(files)
<1>1. /\ files \in Seq(C) /\ n \in Nat /\ DOMAIN files = 1..n
  BY FilesAre, Zenon
<1>2. /\ n <= MaxFiles /\ MaxFiles \in Nat
      /\ \A j \in DOMAIN files : files[j].size \in {Unknown, Len(Contents[files[j].name])}
  BY CacheAssumption, Zenon DEF Typed, Sized
<1>3. e \in C /\ e.name = f /\ e.size = Unknown
  BY DEF Cached
<1>4. CASE Known(f) # {}
  <2>1. gs = files
    BY <1>4, Zenon DEF Files
  <2>2. i \in Known(f)
    BY <1>4, Zenon DEF IdOf
  <2>3. i \in DOMAIN files /\ files[i].name = f
    BY <2>2, Zenon DEF Known
  <2> HIDE DEF i, gs
  <2>4. i \in NoFile..n /\ n <= n
    BY <1>1, <2>3 DEF NoFile
  <2>5. Adding(files, files, f, i)
    BY <1>1, <1>2, <2>3, <2>4, SameFiles, Zenon DEF Adding
  <2> QED
    BY <2>1, <2>5, Zenon DEF gs, i
<1>5. CASE Known(f) = {} /\ n >= MaxFiles
  <2>1. gs = files /\ i = NoFile
    BY <1>5, Zenon DEF Files, IdOf
  <2> HIDE DEF i, gs
  <2>2. NoFile \in NoFile..n /\ n <= n
    BY <1>1 DEF NoFile
  <2>3. Adding(files, files, f, NoFile)
    BY <1>1, <1>2, <2>2, SameFiles, Zenon DEF Adding
  <2> QED
    BY <2>1, <2>3, Zenon DEF gs, i
<1>6. CASE Known(f) = {} /\ ~(n >= MaxFiles)
  <2>1. gs = Append(files, e) /\ i = n + 1
    BY <1>6, Zenon DEF Files, IdOf
  <2> HIDE DEF i, gs, e, C
  <2>2. /\ gs \in Seq(C) /\ Len(gs) = n + 1 /\ DOMAIN gs = 1..(n + 1) /\ gs[n + 1] = e
        /\ \A j \in 1..n : gs[j] = files[j]
    BY <1>1, <1>3, <2>1
  <2>3. /\ Len(gs) <= MaxFiles /\ n <= Len(gs) /\ i \in NoFile..Len(gs) /\ i = n + 1
        /\ \A j \in DOMAIN gs : j \in 1..n \/ j = n + 1
        /\ \A j \in 1..n : j \in DOMAIN gs
    BY <1>1, <1>2, <1>6, <2>1, <2>2 DEF NoFile
  <2>4. Keeps(files, gs)
    BY <1>1, <2>2, <2>3, Zenon DEF Keeps
  <2>5. \A j \in DOMAIN gs : gs[j].size \in {Unknown, Len(Contents[gs[j].name])}
    BY <1>1, <1>2, <1>3, <2>2, <2>3, Zenon
  <2>6. gs[i].name = f
    BY <1>3, <2>2, <2>3, Zenon
  <2> QED
    BY <2>2, <2>3, <2>4, <2>5, <2>6, Zenon DEF Adding, C, gs, i
<1> QED
  BY <1>4, <1>5, <1>6

LEMMA TrackedGrows ==
  ASSUME NEW n \in Nat, NEW m \in Nat, n <= m, NEW t \in [Slot -> Tracked(n)]
  PROVE  t \in [Slot -> Tracked(m)]
<1>1. NoFile..n \subseteq NoFile..m
  BY DEF NoFile
<1>2. Tracked(n) \subseteq Tracked(m)
  BY <1>1 DEF Tracked
<1> QED
  BY <1>2, Zenon

Binds(n, t, u, h, i) ==
  /\ u \in [Slot -> Tracked(n)] /\ OnlyOf(t, u, h)
  /\ \A s \in ServedIn(u, h) : u[s].id = i /\ i # NoFile /\ u[s].pos = 0

LEMMA BindsAs ==
  ASSUME NEW n \in Nat, NEW t \in [Slot -> Tracked(n)], NEW h \in Handle, NEW i \in NoFile..n,
         NEW u, Bound(t, u, h, i)
  PROVE  Binds(n, t, u, h, i)
<1>1. CASE u = t /\ None(t, h)
  <2>1. ServedIn(t, h) = {}
    BY <1>1, Zenon DEF None, ServedIn
  <2>2. OnlyOf(t, t, h)
    BY NoChange, Zenon
  <2>3. Binds(n, t, t, h, i)
    BY <2>1, <2>2, Zenon DEF Binds
  <2> QED
    BY <1>1, <2>3, Zenon
<1>2. ASSUME NEW s \in Slot, t[s].live => t[s].h = h,
             u = [t EXCEPT ![s] = Entered(h, i, 0)], Found(u, h) = {s}
      PROVE  Binds(n, t, u, h, i)
  <2> DEFINE e == Entered(h, i, 0)
  <2>1. 0 \in Nat
    OBVIOUS
  <2>2. EntersAs(n, t, u, s, h, e)
    BY <1>2, <2>1, EnteredIs, Zenon
  <2>3. e.id = i /\ e.pos = 0
    BY DEF Entered
  <2> HIDE DEF e
  <2>4. u \in [Slot -> Tracked(n)] /\ OnlyOf(t, u, h) /\ u[s] = e
    BY <2>2, Zenon DEF EntersAs
  <2>5. \A r \in ServedIn(u, h) : r = s /\ u[r].id # NoFile
    BY <1>2, Zenon DEF ServedIn
  <2>6. \A r \in ServedIn(u, h) : u[r].id = i /\ i # NoFile /\ u[r].pos = 0
    BY <2>3, <2>4, <2>5, Zenon
  <2> QED
    BY <2>4, <2>6, Zenon DEF Binds
<1> QED
  BY <1>1, <1>2, Zenon DEF Bound

LEMMA NoteStep ==
  ASSUME IInv, NEW h \in Handle, NoteOpen(h)
  PROVE  /\ OneStep(h) /\ real' = real /\ call[h].op = "note" /\ call'[h] = Idle
         /\ real[h] # OS!Closed => real[h].pos = PosIn(real[h], table', h)
<1> DEFINE c == call[h]
           f == c.file
           yes == Cacheable(f, c.access)
           i == IF yes THEN IdOf(f) ELSE NoFile
           v == real[h]
           n == Len(files)
<1>1. /\ c.op = "note"
      /\ table' = IF ready THEN BindHandle(h, i) ELSE table
      /\ files' = IF ready /\ yes THEN Files(f) ELSE files
      /\ call' = [call EXCEPT ![h] = Idle] /\ UNCHANGED <<real, ready, blocks>>
  BY Zenon DEF NoteOpen, Leave
<1>2. Typed /\ Sized /\ Fit(v, table, files, c, h)
  BY Zenon DEF IInv
<1>3. n \in Nat /\ table \in [Slot -> Tracked(n)]
  BY <1>2, FilesAre, Zenon
<1>4. /\ real \in [Handle -> {OS!Closed} \cup Opened] /\ call \in [Handle -> Calling]
      /\ blocks \in Cache(files) /\ ready \in BOOLEAN
      /\ files \in Seq(Cached) /\ n <= MaxFiles
  BY <1>2, Zenon DEF Typed
<1>5. v \in {OS!Closed} \cup Opened /\ [real EXCEPT ![h] = v] = real
  BY <1>4, SameExcept
<1>6. v = [file |-> f, access |-> c.access, pos |-> 0]
  BY <1>1, <1>2, Zenon DEF Fit
<1>7. v.file = f /\ v.access = c.access /\ v.pos = 0
  BY <1>6
<1> HIDE DEF v, c, i
<1>8. Alone(h, v, Idle)
  BY <1>1, <1>5, CallingIs, Zenon DEF Alone
<1>9. ready' = ready /\ (ready = FALSE => table' = table)
  BY <1>1, <1>4, Zenon
<1>10. real' = real /\ call[h].op = "note" /\ call'[h] = Idle
  BY <1>1, <1>4, Zenon DEF c
<1>11. CASE ~ready
  <2>1. UNCHANGED cacheVars
    BY <1>1, <1>11, Zenon DEF cacheVars
  <2>2. Fit(v, table, files, Idle, h)
    BY <1>11, NotServed, Bare, Zenon
  <2>3. OneStep(h)
    BY <1>8, <2>1, <2>2, SingleQuiet, Zenon
  <2>4. ServedIn(table', h) = {}
    <3>1. ServedIn(table, h) = {}
      BY <1>11, NotServed, Zenon
    <3> QED
      BY <1>1, <1>11, <3>1, Zenon
  <2>5. PosIn(v, table', h) = v.pos
    BY <2>4, PosIs
  <2> QED
    BY <1>10, <2>3, <2>5, Zenon DEF v
<1>12. CASE ready
  <2>1. Adding(files, files', f, i) /\ (i # NoFile => yes)
    <3>1. CASE yes
      <4>1. f \in Archive
        BY <3>1, Zenon DEF Cacheable
      <4>2. files' = Files(f) /\ i = IdOf(f)
        BY <1>1, <1>12, <3>1, Zenon DEF i
      <4> QED
        BY <1>2, <3>1, <4>1, <4>2, FilesIs, Zenon
    <3>2. CASE ~yes
      <4>1. files' = files /\ i = NoFile
        BY <1>1, <3>2, Zenon DEF i
      <4>2. NoFile \in NoFile..n /\ n <= n
        BY <1>3 DEF NoFile
      <4>3. Adding(files, files, f, NoFile)
        BY <1>2, <1>4, <4>2, SameFiles, Zenon DEF Adding, Sized
      <4> QED
        BY <4>1, <4>3, Zenon
    <3> QED
      BY <3>1, <3>2
  <2> DEFINE m == Len(files')
  <2>2. /\ files' \in Seq(Cached) /\ m <= MaxFiles /\ Keeps(files, files') /\ n <= m
        /\ i \in NoFile..m /\ (i # NoFile => files'[i].name = f)
    BY <2>1, Zenon DEF Adding
  <2>3. Sized'
    BY <2>1, Zenon DEF Adding, Sized
  <2>4. m \in Nat
    BY <2>2
  <2>5. table \in [Slot -> Tracked(m)]
    BY <1>3, <2>2, <2>4, TrackedGrows, Zenon
  <2>6. Bound(table, BindHandle(h, i), h, i)
    BY <2>2, <2>4, <2>5, BindIs, Zenon
  <2>7. Binds(m, table, BindHandle(h, i), h, i)
    BY <2>2, <2>4, <2>5, <2>6, BindsAs, Zenon
  <2>8. table' = BindHandle(h, i)
    BY <1>1, <1>12, Zenon
  <2>9. /\ table' \in [Slot -> Tracked(m)] /\ OnlyOf(table, table', h)
        /\ \A s \in ServedIn(table', h) :
             table'[s].id = i /\ i # NoFile /\ table'[s].pos = 0
    BY <2>7, <2>8, Zenon DEF Binds
  <2>10. blocks' \in Cache(files')
    <3>1. Cache(files) \subseteq Cache(files')
      BY <2>2, HeldGrows, Zenon
    <3> QED
      BY <1>1, <1>4, <3>1, Zenon
  <2>11. Fit(v, table', files', Idle, h)
    <3>1. Idle.op # "note" /\ Idle.op # "close"
      BY DEF Idle
    <3>2. i # NoFile => c.access = "read"
      BY <2>1, Zenon DEF Cacheable
    <3> QED
      BY <1>7, <2>2, <2>9, <3>1, <3>2, Zenon DEF Fit
  <2>12. OneStep(h)
    BY <1>8, <1>9, <2>2, <2>3, <2>9, <2>10, <2>11, Single, Zenon
  <2>13. PosIn(v, table', h) = 0
    <3>1. CASE ServedIn(table', h) = {}
      <4>1. PosIn(v, table', h) = v.pos
        BY <3>1, PosIs
      <4> QED
        BY <1>7, <4>1, Zenon
    <3>2. CASE ServedIn(table', h) # {}
      <4>1. PICK s \in ServedIn(table', h) : TRUE
        BY <3>2
      <4>2. Serves(table', m, h, s)
        BY <2>4, <2>9, ServedIs, Zenon
      <4>3. PosIn(v, table', h) = table'[s].pos
        BY <4>2, PosIs
      <4> QED
        BY <2>9, <4>1, <4>3, Zenon
    <3> QED
      BY <3>1, <3>2
  <2> QED
    BY <1>7, <1>10, <2>12, <2>13, Zenon DEF v
<1> QED
  BY <1>11, <1>12

LEMMA PosNat ==
  ASSUME Typed, NEW h \in Handle, NEW o \in Opened
  PROVE  PosIn(o, table, h) \in Nat
<1>1. Len(files) \in Nat /\ table \in [Slot -> Tracked(Len(files))]
  BY FilesAre, Zenon
<1>2. CASE ServedIn(table, h) = {}
  <2>1. PosIn(o, table, h) = o.pos
    BY <1>2, PosIs
  <2> QED
    BY <2>1, OpenedAre, Zenon
<1>3. CASE ServedIn(table, h) # {}
  <2>1. PICK s \in ServedIn(table, h) : TRUE
    BY <1>3
  <2>2. Serves(table, Len(files), h, s)
    BY <1>1, ServedIs, Zenon
  <2>3. PosIn(o, table, h) = table[s].pos
    BY <2>2, PosIs
  <2> QED
    BY <2>2, <2>3, Zenon DEF Serves
<1> QED
  BY <1>2, <1>3

LEMMA CloseStep ==
  ASSUME IInv, NEW h \in Handle, HookCloseHandle(h)
  PROVE  /\ OneStep(h) /\ real' = real /\ real[h] \in Opened /\ call[h] = Idle
         /\ call'[h] = [op |-> "close", pos |-> PosIn(real[h], table, h)]
<1> DEFINE v == real[h]
           p == PosIn(v, table, h)
           k == [op |-> "close", pos |-> p]
           n == Len(files)
           cleared == [s \in Slot |-> IF s \in Found(table, h) THEN NoEntry ELSE table[s]]
<1>1. /\ Usable(h) /\ UNCHANGED <<real, ready, files, blocks>>
      /\ table' = IF ready THEN [s \in Slot |-> IF s \in FindHandle(h) THEN NoEntry
                                                ELSE table[s]]
                  ELSE table
      /\ call' = [call EXCEPT ![h] = [op |-> "close", pos |-> Position(h)]]
  BY Zenon DEF HookCloseHandle, Leave
<1>2. Typed /\ Sized
  BY Zenon DEF IInv
<1>3. n \in Nat /\ table \in [Slot -> Tracked(n)]
  BY <1>2, FilesAre, Zenon
<1>4. /\ real \in [Handle -> {OS!Closed} \cup Opened] /\ call \in [Handle -> Calling]
      /\ blocks \in Cache(files) /\ ready \in BOOLEAN
      /\ files \in Seq(Cached) /\ n <= MaxFiles
  BY <1>2, Zenon DEF Typed
<1>5. v \in Opened /\ v # OS!Closed /\ call[h] = Idle
  BY <1>1, <1>2, UsableIs, Zenon
<1>6. [real EXCEPT ![h] = v] = real
  BY <1>4, SameExcept
<1>7. FindHandle(h) = Found(table, h) /\ Position(h) = p
  BY TableIs, Zenon
<1>8. p \in Nat
  BY <1>2, <1>5, PosNat, Zenon
<1> HIDE DEF p, v
<1>9. k \in Calling /\ k # Idle /\ k.op # "note"
  BY <1>8, CallingIs
<1>10. call' = [call EXCEPT ![h] = k]
  BY <1>1, <1>7, Zenon
<1>11. call'[h] = k
  BY <1>4, <1>10, Zenon
<1>12. table' = IF ready THEN cleared ELSE table
  BY <1>1, <1>7, Zenon
<1> HIDE DEF k, cleared
<1>13. cleared \in [Slot -> Tracked(n)] /\ OnlyOf(table, cleared, h)
  BY <1>3, ClosedIs, Zenon DEF cleared
<1>14. table' \in [Slot -> Tracked(Len(files'))] /\ OnlyOf(table, table', h)
  BY <1>1, <1>3, <1>12, <1>13, NoChange, Zenon
<1>15. /\ files' \in Seq(Cached) /\ Len(files') <= MaxFiles /\ Keeps(files, files')
       /\ blocks' \in Cache(files') /\ ready' = ready /\ (ready = FALSE => table' = table)
  BY <1>1, <1>4, <1>12, SameFiles, Zenon
<1>16. Sized'
  BY <1>1, <1>2, Zenon DEF Sized
<1>17. Fit(v, table', files', k, h)
  BY <1>5, <1>9, Zenon DEF Fit
<1>18. Alone(h, v, k)
  BY <1>1, <1>5, <1>6, <1>9, <1>10, Zenon DEF Alone
<1>19. OneStep(h)
  BY <1>14, <1>15, <1>16, <1>17, <1>18, Single, Zenon
<1> QED
  BY <1>1, <1>5, <1>11, <1>19, Zenon DEF k, p, v

-----------------------------------------------------------------------------
(* The invariant *)

LEMMA Initial ==
  Init => IInv
<1> SUFFICES ASSUME Init
             PROVE  IInv
  OBVIOUS
<1>1. /\ real = [h \in Handle |-> OS!Closed] /\ files = <<>>
      /\ blocks = [s \in 1..Sets |-> [way |-> [w \in Way |-> NoBlock], last |-> 1]]
      /\ call = [h \in Handle |-> Idle]
      /\ \/ ready = FALSE /\ table = [s \in Slot |-> NoEntry]
         \/ ready = TRUE /\ \E o \in {Group[h][Probe] : h \in Handle} :
              table = [s \in Slot |-> IF s = o THEN OldEntry ELSE NoEntry]
  BY Zenon DEF Init, OS!PlainInit
<1>2. files \in Seq(Cached) /\ Len(files) = 0 /\ DOMAIN files = {} /\ Len(files) <= MaxFiles
  BY <1>1, CacheAssumption
<1>3. blocks \in Cache(files)
  <2>1. NoBlock \in Held(files) /\ 1 \in Way
    BY DEF Held, Way
  <2> DEFINE H == Held(files)
             b == [way |-> [w \in Way |-> NoBlock], last |-> 1]
  <2> HIDE DEF H
  <2>2. [w \in Way |-> NoBlock] \in [Way -> H]
    BY <2>1, Zenon DEF H
  <2>3. b \in [way : [Way -> H], last : Way]
    BY <2>1, <2>2
  <2> HIDE DEF b
  <2>4. blocks \in [1..Sets -> [way : [Way -> H], last : Way]]
    BY <1>1, <2>3, Zenon DEF b
  <2> QED
    BY <2>4, Zenon DEF Cache, H
<1>4. NoEntry \in Tracked(0) /\ OldEntry \in Tracked(0) /\ OldEntry.id = NoFile
  BY DEF NoEntry, OldEntry, Tracked, NoFile
<1>5. table \in [Slot -> Tracked(0)] /\ \A s \in Slot : table[s] \in {NoEntry, OldEntry}
  BY <1>1, <1>4, Zenon
<1>6. call \in [Handle -> Calling] /\ real \in [Handle -> {OS!Closed} \cup Opened]
  BY <1>1, CallingIs, Zenon
<1>7. Typed
  BY <1>1, <1>2, <1>3, <1>5, <1>6, Zenon DEF Typed
<1>8. Sized
  BY <1>2, Zenon DEF Sized
<1>9. Untouched
  <2>1. TRUE # FALSE
    OBVIOUS
  <2> QED
    BY <1>1, <2>1, Zenon DEF Untouched
<1>10. \A h \in Handle : Fit(real[h], table, files, call[h], h)
  <2>1. Idle.op # "note" /\ Idle.op # "close"
    BY DEF Idle
  <2> QED
    BY <1>1, <2>1, Zenon DEF Fit
<1> QED
  BY <1>7, <1>8, <1>9, <1>10, Zenon DEF IInv

\* A handle that was given up is not served after the step.
Stops(h) ==
  ServedIn(table', h) # {} /\ real'[h] # OS!Closed /\ call'[h].op # "close" =>
    ~(call[h].op # "note" /\ ready /\ real[h] # OS!Closed /\ ServedIn(table, h) = {})

\* Every step but the one that installs the hooks is about one handle.
LEMMA StepsOfOne ==
  ASSUME IInv, Next
  PROVE  Install \/ \E h \in Handle : OneStep(h) /\ Stops(h)
<1>1. CASE Install
  BY <1>1
<1>2. ASSUME NEW h \in Handle, NEW o \in Opens, HookCreateFile(h, o[1], o[2])
      PROVE  OneStep(h) /\ Stops(h)
  <2>1. real[h] = OS!Closed
    BY <1>2, Zenon DEF HookCreateFile, OS!Open, OS!IsOpen
  <2> QED
    BY <1>2, <2>1, CreateStep, Zenon DEF Stops
<1>3. ASSUME NEW h \in Handle,
             NoteOpen(h) \/ HookCloseHandle(h) \/ OrigCloseHandle(h) \/ CloseUnseen(h)
      PROVE  OneStep(h) /\ Stops(h)
  <2>1. CASE NoteOpen(h)
    <3>1. call[h].op = "note"
      BY <2>1, Zenon DEF NoteOpen
    <3> QED
      BY <2>1, <3>1, NoteStep, Zenon DEF Stops
  <2>2. CASE HookCloseHandle(h)
    <3>1. OneStep(h) /\ call'[h] = [op |-> "close", pos |-> PosIn(real[h], table, h)]
      BY <2>2, CloseStep, Zenon
    <3>2. call'[h].op = "close"
      BY <3>1
    <3> QED
      BY <3>1, <3>2, Zenon DEF Stops
  <2>3. CASE OrigCloseHandle(h) \/ CloseUnseen(h)
    <3>1. real' = [real EXCEPT ![h] = OS!Closed]
      BY <2>3, Zenon DEF OrigCloseHandle, CloseUnseen, OS!Close
    <3>2. real \in [Handle -> {OS!Closed} \cup Opened]
      BY Zenon DEF IInv, Typed
    <3>3. real'[h] = OS!Closed
      BY <3>1, <3>2, Zenon
    <3> QED
      BY <2>3, <3>3, ShutStep, Zenon DEF Stops
  <2> QED
    BY <1>3, <2>1, <2>2, <2>3
<1>4. ASSUME NEW h \in Handle, NEW c \in OS!Calls,
             \/ Unserved(h, c) \/ HookOther(h, c)
             \/ \E bad \in 0..BadMax : HookReadFile(h, c, bad)
             \/ \E sized \in BOOLEAN : HookSetFilePointer(h, c, sized)
      PROVE  OneStep(h) /\ Stops(h)
  <2>1. CASE Unserved(h, c)
    <3>1. OneStep(h) /\ ServedIn(table, h) = {}
      BY <2>1, UnservedStep, Zenon
    <3>2. table' = table
      BY <2>1, Zenon DEF Unserved, cacheVars
    <3>3. ServedIn(table', h) = {}
      BY <3>1, <3>2, Zenon
    <3> QED
      BY <3>1, <3>3, Zenon DEF Stops
  <2>2. CASE HookOther(h, c)
    BY <2>2, OtherStep, Zenon DEF Stops
  <2>3. ASSUME NEW bad \in 0..BadMax, HookReadFile(h, c, bad)
        PROVE  OneStep(h) /\ Stops(h)
    <3>1. OneStep(h) /\ Serving1(h)
      BY <2>3, ReadStep, Zenon
    <3> QED
      BY <3>1, Zenon DEF Stops, Serving1
  <2>4. ASSUME NEW sized \in BOOLEAN, HookSetFilePointer(h, c, sized)
        PROVE  OneStep(h) /\ Stops(h)
    <3>1. OneStep(h) /\ Serving1(h)
      BY <2>4, SeekStep, Zenon
    <3> QED
      BY <3>1, Zenon DEF Stops, Serving1
  <2> QED
    BY <1>4, <2>1, <2>2, <2>3, <2>4, Zenon
<1> QED
  BY <1>1, <1>2, <1>3, <1>4, Zenon DEF Next

LEMMA Inductive ==
  IInv /\ [Next]_vars => IInv'
<1> SUFFICES ASSUME IInv, [Next]_vars
             PROVE  IInv'
  OBVIOUS
<1>1. CASE Next
  BY <1>1, StepsOfOne, InstallStep, OneStepKeeps, Zenon
<1>2. CASE UNCHANGED vars
  <2>1. /\ real' = real /\ ready' = ready /\ files' = files /\ blocks' = blocks
        /\ table' = table /\ call' = call
    BY <1>2, Zenon DEF vars
  <2>2. Typed' /\ Sized' /\ Untouched'
    <3>1. Typed /\ Sized /\ Untouched
      BY Zenon DEF IInv
    <3>2. Typed'
      BY <2>1, <3>1, Zenon DEF Typed
    <3>3. Sized'
      BY <2>1, <3>1, Zenon DEF Sized
    <3>4. Untouched'
      BY <2>1, <3>1, Zenon DEF Untouched
    <3> QED
      BY <3>2, <3>3, <3>4
  <2>3. (\A h \in Handle : Fit(real[h], table, files, call[h], h))'
    BY <2>1, Zenon DEF IInv
  <2> QED
    BY <2>2, <2>3, Zenon DEF IInv
<1> QED
  BY <1>1, <1>2

\* Whatever the threads call and in which order, the files, the blocks, the table of handles
\* and the calls between lock and system fit each other: what blockcache.cpp keeps
\* under g_cs, and why ServeRead may trust it.
THEOREM Invariant ==
  Spec => []IInv
<1> QED
  BY Initial, Inductive, PTL DEF Spec

\* Every variable keeps its type, and a block misses bytes only at the end of its file.
THEOREM TypeCorrect ==
  Spec => []TypeOK
<1>1. IInv => TypeOK
  <2> SUFFICES ASSUME IInv
               PROVE  TypeOK
    OBVIOUS
  <2>1. Typed
    BY Zenon DEF IInv
  <2>2. /\ files \in Seq(Cached) /\ Len(files) \in Nat /\ DOMAIN files = 1..Len(files)
        /\ table \in [Slot -> Tracked(Len(files))]
        /\ \A i \in DOMAIN files : files[i] \in Cached
    BY <2>1, FilesAre, Zenon
  <2>3. Len(files) <= MaxFiles /\ MaxFiles \in Nat /\ Archive \subseteq File
    BY <2>1, CacheAssumption, Zenon DEF Typed
  <2>4. \A h \in Handle : OS!IsOpen(h) => real[h].file \in File /\ real[h].pos \in Nat
    <3> SUFFICES ASSUME NEW h \in Handle, real[h] # OS!Closed
                 PROVE  real[h].file \in File /\ real[h].pos \in Nat
      BY Zenon DEF OS!IsOpen
    <3>1. real[h] \in Opened
      BY <2>1, Zenon DEF Typed
    <3> QED
      BY <3>1, OpenedAre, Zenon
  <2>5. \A i \in DOMAIN files :
           files[i].name \in Archive /\ files[i].size \in Nat \cup {Unknown}
    BY <2>2 DEF Cached
  <2>6. ASSUME NEW s \in 1..Sets, NEW w \in Way, blocks[s].way[w] # NoBlock
        PROVE  /\ Len(blocks[s].way[w].bytes) \in 0..KBlock
               /\ blocks[s].way[w].id \in DOMAIN files
    <3> DEFINE H == Held(files)
               b == blocks[s].way[w]
    <3>1. blocks \in [1..Sets -> [way : [Way -> H], last : Way]]
      BY <2>1, Zenon DEF Typed, Cache
    <3> HIDE DEF H
    <3>2. blocks[s].way \in [Way -> H]
      BY <3>1
    <3>3. b \in Held(files)
      BY <3>2, Zenon DEF H
    <3> HIDE DEF b
    <3>4. PICK i \in DOMAIN files, k \in Nat : b = Block(files, i, k)
      BY <2>6, <3>3 DEF Held, b
    <3>5. b.id = i /\ b.bytes = OS!Bytes(files[i].name, k * KBlock, KBlock)
      BY <3>4 DEF Block
    <3>6. files[i].name \in File
      BY <2>2, <2>3 DEF Cached
    <3>7. KBlock \in Nat /\ k * KBlock \in Nat
      BY CacheAssumption
    <3>8. Len(OS!Bytes(files[i].name, k * KBlock, KBlock)) \in 0..KBlock
      BY <3>6, <3>7, BytesAre, Zenon
    <3> QED
      BY <3>5, <3>8, Zenon DEF b
  <2>7. table \in [Slot -> Entry]
    <3>1. NoFile..Len(files) \subseteq NoFile..MaxFiles
      BY <2>2, <2>3 DEF NoFile
    <3>2. Tracked(Len(files)) \subseteq Entry
      BY <3>1 DEF Tracked, Entry
    <3> QED
      BY <2>2, <3>2, Zenon
  <2> QED
    BY <2>3, <2>4, <2>5, <2>6, <2>7, Zenon DEF TypeOK
<1> QED
  BY <1>1, Invariant, PTL

LEMMA StopsStep ==
  ASSUME IInv, Next, NEW g \in Handle
  PROVE  Stops(g)
<1>1. CASE Install
  <2>1. table' = table /\ call' = call /\ real' = real
    BY <1>1, Zenon DEF Install
  <2> QED
    BY <2>1, Zenon DEF Stops
<1>2. ASSUME NEW h \in Handle, OneStep(h), Stops(h)
      PROVE  Stops(g)
  <2>1. CASE g = h
    BY <1>2, <2>1, Zenon
  <2>2. CASE g # h
    <3>1. OnlyOf(table, table', h)
      BY <1>2, Zenon DEF OneStep
    <3>2. ServedIn(table', g) = ServedIn(table, g)
      BY <2>2, <3>1, OthersFound
    <3> QED
      BY <3>2, Zenon DEF Stops
  <2> QED
    BY <2>1, <2>2
<1> QED
  BY <1>1, <1>2, StepsOfOne, Zenon

\* A handle the cache gave up on, with a call it does not serve or a fetch that failed, is
\* not served again before it is closed (DisableLocked, FindHandle).
THEOREM StopsCorrect ==
  Spec => StopsForGood
<1>1. IInv /\ [Next]_vars =>
        [\A h \in Handle :
           Served(h)' /\ OS!IsOpen(h)' /\ call'[h].op # "close" => ~GaveUp(h)]_vars
  <2> SUFFICES ASSUME IInv, Next, NEW h \in Handle,
                      Served(h)', OS!IsOpen(h)', call'[h].op # "close", GaveUp(h)
               PROVE  FALSE
    OBVIOUS
  <2>1. Stops(h)
    BY StopsStep, Zenon
  <2>2. ServedIn(table', h) # {}
    BY TableWillBe, Zenon
  <2>3. real'[h] # OS!Closed
    BY Zenon DEF OS!IsOpen
  <2>4. call[h].op # "note" /\ ready /\ real[h] # OS!Closed /\ ~Served(h)
    BY Zenon DEF GaveUp, OS!IsOpen
  <2>5. ServedIn(table, h) = {}
    BY <2>4, TableIs, Zenon
  <2> QED
    BY <2>1, <2>2, <2>3, <2>4, <2>5, Zenon DEF Stops
<1> QED
  BY <1>1, Invariant, PTL DEF Spec, StopsForGood

-----------------------------------------------------------------------------
(* What the game sees *)

Standing(o, t, c, h) ==
  IF o = OS!Closed THEN OS!Closed
  ELSE Stood(o, IF c.op = "close" THEN c.pos
                ELSE IF c.op = "note" THEN o.pos ELSE PosIn(o, t, h))

LEMMA SeenIs ==
  /\ Seen = [h \in Handle |-> Standing(real[h], table, call[h], h)]
  /\ Seen' = [h \in Handle |-> Standing(real'[h], table', call'[h], h)]
<1>1. ASSUME NEW h \in Handle
      PROVE  (IF ~OS!IsOpen(h) THEN OS!Closed
              ELSE [real[h] EXCEPT !.pos =
                      IF call[h].op = "close" THEN call[h].pos
                      ELSE IF call[h].op = "note" THEN real[h].pos ELSE Position(h)])
                = Standing(real[h], table, call[h], h)
  <2>1. Position(h) = PosIn(real[h], table, h)
    BY TableIs, Zenon
  <2> QED
    BY <2>1, Zenon DEF OS!IsOpen, Standing, Stood
<1>2. Seen = [h \in Handle |-> Standing(real[h], table, call[h], h)]
  BY <1>1, Zenon DEF Seen
<1>3. ASSUME NEW h \in Handle
      PROVE  (IF ~OS!IsOpen(h) THEN OS!Closed
              ELSE [real[h] EXCEPT !.pos =
                      IF call[h].op = "close" THEN call[h].pos
                      ELSE IF call[h].op = "note" THEN real[h].pos ELSE Position(h)])'
                = Standing(real'[h], table', call'[h], h)
  <2>1. Position(h)' = PosIn(real'[h], table', h)
    BY TableWillBe, Zenon
  <2> QED
    BY <2>1, Zenon DEF OS!IsOpen, Standing, Stood
<1>4. Seen' = [h \in Handle |-> Standing(real'[h], table', call'[h], h)]
  BY <1>3, Zenon DEF Seen
<1> QED
  BY <1>2, <1>4

LEMMA StandsNoted ==
  ASSUME NEW h, NEW o \in Opened, NEW t, NEW c, c.op = "note"
  PROVE  Standing(o, t, c, h) = Stood(o, o.pos)
<1>1. o # OS!Closed /\ "close" # "note"
  BY OpenedAre
<1> QED
  BY <1>1, Zenon DEF Standing

LEMMA StandsIdle ==
  ASSUME NEW h, NEW o \in Opened, NEW t
  PROVE  Standing(o, t, Idle, h) = Stood(o, PosIn(o, t, h))
<1>1. o # OS!Closed
  BY OpenedAre, Zenon
<1>2. Idle.op # "close" /\ Idle.op # "note"
  BY DEF Idle
<1> QED
  BY <1>1, <1>2, Zenon DEF Standing

LEMMA StandsClosing ==
  ASSUME NEW h, NEW o \in Opened, NEW t, NEW p
  PROVE  Standing(o, t, [op |-> "close", pos |-> p], h) = Stood(o, p)
<1> DEFINE k == [op |-> "close", pos |-> p]
<1>1. k.op = "close" /\ k.pos = p
  OBVIOUS
<1>2. o # OS!Closed
  BY OpenedAre, Zenon
<1> HIDE DEF k
<1>3. Standing(o, t, k, h) = Stood(o, p)
  BY <1>1, <1>2, Zenon DEF Standing
<1> QED
  BY <1>3, Zenon DEF k

\* A step of one handle changes what the game sees of that one only.
SeesOnly(h, v) == Seen' = [Seen EXCEPT ![h] = v]

LEMMA SeenStep ==
  ASSUME NEW h \in Handle, OneStep(h)
  PROVE  SeesOnly(h, Standing(real'[h], table', call'[h], h))
<1>1. OnlyOf(table, table', h)
  BY Zenon DEF OneStep
<1>2. ASSUME NEW g \in Handle, g # h
      PROVE  Standing(real'[g], table', call'[g], g) = Standing(real[g], table, call[g], g)
  <2>1. real'[g] = real[g] /\ call'[g] = call[g]
    BY <1>2, Zenon DEF OneStep
  <2>2. PosIn(real[g], table', g) = PosIn(real[g], table, g)
    BY <1>1, <1>2, OthersFound
  <2> QED
    BY <2>1, <2>2, Zenon DEF Standing
<1> DEFINE S == [g \in Handle |-> Standing(real[g], table, call[g], g)]
           T == [g \in Handle |-> Standing(real'[g], table', call'[g], g)]
           v == Standing(real'[h], table', call'[h], h)
<1>3. Seen = S /\ Seen' = T
  BY SeenIs
<1>4. T = [S EXCEPT ![h] = v]
  <2>1. \A g \in Handle : T[g] = IF g = h THEN v ELSE S[g]
    BY <1>2, Zenon
  <2> HIDE DEF v
  <2>2. \A g \in Handle : [S EXCEPT ![h] = v][g] = IF g = h THEN v ELSE S[g]
    BY Zenon
  <2>3. \A g \in Handle : T[g] = [S EXCEPT ![h] = v][g]
    BY <2>1, <2>2, Zenon
  <2>4. DOMAIN T = Handle /\ DOMAIN [S EXCEPT ![h] = v] = Handle
    BY Zenon
  <2>5. T = [g \in Handle |-> T[g]]
        /\ [S EXCEPT ![h] = v] = [g \in Handle |-> [S EXCEPT ![h] = v][g]]
    BY Zenon
  <2> HIDE DEF T, S
  <2> QED
    BY <2>3, <2>5, Zenon
<1> QED
  BY <1>3, <1>4, Zenon DEF SeesOnly

\* Nothing changes: the caller has its answer.
LEMMA SeenSame ==
  ASSUME NEW h \in Handle, OneStep(h), out' = <<>>,
         Standing(real'[h], table', call'[h], h) = Standing(real[h], table, call[h], h)
  PROVE  Unhooked!PlainNext
<1> DEFINE v == Standing(real'[h], table', call'[h], h)
<1>1. SeesOnly(h, v)
  BY SeenStep, Zenon
<1>2. Seen[h] = v
  BY SeenIs
<1>3. DOMAIN Seen = Handle /\ Seen = [g \in Handle |-> Seen[g]]
  BY SeenIs, Zenon
<1> HIDE DEF v
<1>4. Seen' = Seen
  <2>1. Seen' = [Seen EXCEPT ![h] = v]
    BY <1>1, Zenon DEF SeesOnly
  <2>2. [Seen EXCEPT ![h] = v] = Seen
    BY <1>2, <1>3
  <2> QED
    BY <2>1, <2>2, Zenon
<1> QED
  BY <1>4, Zenon DEF Unhooked!PlainNext, Unhooked!Taken

\* The handle is called: it stands at pos for the game, and after the call at p.
LEMMA SeenCall ==
  ASSUME NEW h \in Handle, OneStep(h), NEW c \in OS!Calls, NEW pos \in Nat, NEW p \in Nat,
         real[h] \in Opened, call[h] = Idle, pos = PosIn(real[h], table, h),
         NEW q \in Nat, real'[h] = Stood(real[h], q), call'[h] = Idle,
         p = PosIn(Stood(real[h], q), table', h),
         Answers(real[h].file, real[h].access, pos, c, out', p)
  PROVE  Unhooked!PlainNext
<1> DEFINE o == real[h]
           v == Stood(o, p)
           r == Unhooked!Result(h, pos, c)
<1>1. Stood(o, q) \in Opened
  BY StoodIs, Zenon
<1>2. Standing(real'[h], table', call'[h], h) = v
  <2>1. Standing(Stood(o, q), table', Idle, h) = Stood(Stood(o, q), p)
    BY <1>1, StandsIdle, Zenon
  <2>2. Stood(Stood(o, q), p) = Stood(o, p)
    BY DEF Stood, Opened
  <2> QED
    BY <2>1, <2>2, Zenon
<1>3. Seen[h] = Stood(o, pos)
  <2>1. Seen[h] = Standing(o, table, call[h], h)
    BY SeenIs, Zenon
  <2>2. Standing(o, table, Idle, h) = Stood(o, pos)
    BY StandsIdle, Zenon
  <2> QED
    BY <2>1, <2>2, Zenon
<1>4. SeesOnly(h, v)
  BY <1>2, SeenStep, Zenon
<1>5. /\ Seen[h].file = o.file /\ Seen[h].access = o.access /\ Seen[h].pos = pos
      /\ Seen[h] # OS!Closed
  <2> DEFINE w == Stood(o, pos)
  <2>1. w.file = o.file /\ w.access = o.access /\ w.pos = pos
    BY StoodIs
  <2>2. w # OS!Closed
    BY StoodIs, Zenon
  <2>3. Seen[h] = w
    BY <1>3, Zenon
  <2> HIDE DEF w
  <2> QED
    BY <2>1, <2>2, <2>3, Zenon
<1>6. r = Outcome(o.file, o.access, pos, c)
  BY <1>5, GameResultIs, Zenon
<1>7. [Seen EXCEPT ![h].pos = p] = [Seen EXCEPT ![h] = v]
  <2>1. [Seen[h] EXCEPT !.pos = p] = v
    BY <1>3 DEF Stood, Opened
  <2> HIDE DEF v
  <2> QED
    BY <2>1, Zenon
<1>8. Seen' = [Seen EXCEPT ![h].pos = p]
  BY <1>4, <1>7, Zenon DEF SeesOnly
<1> HIDE DEF v, r
<1>9. \/ out' = r.out /\ Seen' = [Seen EXCEPT ![h].pos = r.pos]
      \/ c.op = "read" /\ out' = OS!Failed /\ Seen' = [Seen EXCEPT ![h].pos = pos]
  BY <1>6, <1>8, Zenon DEF Answers
<1>10. Unhooked!Call(h, Seen[h].pos, c)
  <2>1. OS!Failed = Unhooked!Failed /\ OS!Closed = Unhooked!Closed
    BY Zenon DEF OS!Failed, Unhooked!Failed, OS!Closed, Unhooked!Closed
  <2> QED
    BY <1>5, <1>9, <2>1, Zenon DEF Unhooked!Call, Unhooked!IsOpen, r
<1>11. Unhooked!IsOpen(h) /\ c \in Unhooked!Calls
  BY <1>5, Zenon DEF Unhooked!IsOpen, Unhooked!Closed, OS!Closed, OS!Calls, Unhooked!Calls
<1> QED
  BY <1>10, <1>11, Zenon DEF Unhooked!PlainNext

LEMMA OpenSeen ==
  ASSUME IInv, NEW h \in Handle, NEW o \in Opens, HookCreateFile(h, o[1], o[2])
  PROVE  Unhooked!PlainNext
<1> DEFINE f == o[1]
           a == o[2]
           v == [file |-> f, access |-> a, pos |-> 0]
           k == [op |-> "note", file |-> f, access |-> a]
<1>1. OneStep(h)
  BY CreateStep, Zenon
<1>2. f \in File /\ a \in Access
  BY GameAssumption DEF Access
<1>3. /\ out' = <<>> /\ real[h] = OS!Closed
      /\ real' = [real EXCEPT ![h] = v] /\ call' = [call EXCEPT ![h] = k]
  BY Zenon DEF HookCreateFile, OS!Open, OS!IsOpen, Leave
<1>4. v \in Opened /\ Stood(v, v.pos) = v /\ k.op = "note"
  BY <1>2 DEF Opened, Stood
<1> HIDE DEF v, k
<1>5. real'[h] = v /\ call'[h] = k
  <2>1. real \in [Handle -> {OS!Closed} \cup Opened] /\ call \in [Handle -> Calling]
    BY Zenon DEF IInv, Typed
  <2> QED
    BY <1>3, <2>1, Zenon
<1>6. Standing(real'[h], table', call'[h], h) = v
  <2>1. Standing(v, table', k, h) = Stood(v, v.pos)
    <3>1. v \in Opened /\ k.op = "note"
      BY <1>4, Zenon
    <3> QED
      BY <3>1, StandsNoted, Zenon
  <2> QED
    BY <1>4, <1>5, <2>1, Zenon
<1>7. SeesOnly(h, v)
  BY <1>1, <1>6, SeenStep, Zenon
<1>8. Seen[h] = OS!Closed
  <2>1. Seen[h] = Standing(real[h], table, call[h], h)
    BY SeenIs, Zenon
  <2> QED
    BY <1>3, <2>1, Zenon DEF Standing
<1>9. Unhooked!Open(h, f, a)
  <2>1. Seen' = [Seen EXCEPT ![h] = v]
    BY <1>7, Zenon DEF SeesOnly
  <2>2. ~Unhooked!IsOpen(h)
    BY <1>8, Zenon DEF Unhooked!IsOpen, Unhooked!Closed, OS!Closed
  <2> QED
    BY <1>3, <2>1, <2>2, Zenon DEF Unhooked!Open, v
<1> QED
  BY <1>9, Zenon DEF Unhooked!PlainNext

LEMMA ShutSeen ==
  ASSUME IInv, NEW h \in Handle, OrigCloseHandle(h) \/ CloseUnseen(h)
  PROVE  Unhooked!PlainNext
<1>1. OneStep(h)
  BY ShutStep, Zenon
<1>2. out' = <<>> /\ real[h] # OS!Closed /\ real' = [real EXCEPT ![h] = OS!Closed]
  BY Zenon DEF OrigCloseHandle, CloseUnseen, OS!Close, OS!IsOpen
<1>3. real \in [Handle -> {OS!Closed} \cup Opened]
  BY Zenon DEF IInv, Typed
<1>4. real'[h] = OS!Closed
  BY <1>2, <1>3, Zenon
<1>5. Standing(real'[h], table', call'[h], h) = OS!Closed
  BY <1>4, Zenon DEF Standing
<1>6. SeesOnly(h, OS!Closed)
  BY <1>1, <1>5, SeenStep, Zenon
<1>7. Seen[h] # OS!Closed
  <2> DEFINE p == IF call[h].op = "close" THEN call[h].pos
                  ELSE IF call[h].op = "note" THEN real[h].pos ELSE PosIn(real[h], table, h)
  <2>1. Seen[h] = Stood(real[h], p)
    <3>1. Seen[h] = Standing(real[h], table, call[h], h)
      BY SeenIs, Zenon
    <3> QED
      BY <1>2, <3>1, Zenon DEF Standing
  <2>2. real[h] \in Opened
    BY <1>2, <1>3, Zenon
  <2> HIDE DEF p
  <2>3. Stood(real[h], p) # OS!Closed
    BY <2>2 DEF Stood, Opened, OS!Closed
  <2> QED
    BY <2>1, <2>3, Zenon
<1>8. Unhooked!Close(h)
  BY <1>2, <1>6, <1>7, Zenon
  DEF Unhooked!Close, Unhooked!IsOpen, Unhooked!Closed, OS!Closed, SeesOnly
<1> QED
  BY <1>8, Zenon DEF Unhooked!PlainNext

LEMMA NoteSeen ==
  ASSUME IInv, NEW h \in Handle, NoteOpen(h)
  PROVE  Unhooked!PlainNext
<1> DEFINE o == real[h]
<1>1. /\ OneStep(h) /\ real' = real /\ call[h].op = "note" /\ call'[h] = Idle
      /\ o # OS!Closed => o.pos = PosIn(o, table', h)
  BY NoteStep, Zenon
<1>2. out' = <<>>
  BY Zenon DEF NoteOpen, Silent
<1>3. Standing(o, table', Idle, h) = Standing(o, table, call[h], h)
  <2>1. CASE o = OS!Closed
    BY <2>1, Zenon DEF Standing
  <2>2. CASE o # OS!Closed
    <3>1. o \in Opened
      BY <2>2, Zenon DEF IInv, Typed
    <3>2. Standing(o, table', Idle, h) = Stood(o, PosIn(o, table', h))
      BY <3>1, StandsIdle, Zenon
    <3>3. Standing(o, table, call[h], h) = Stood(o, o.pos)
      <4>1. call[h].op = "note"
        BY <1>1, Zenon
      <4> HIDE DEF o
      <4> QED
        BY <3>1, <4>1, StandsNoted, Zenon
    <3> QED
      BY <1>1, <2>2, <3>2, <3>3, Zenon
  <2> QED
    BY <2>1, <2>2
<1>4. Standing(real'[h], table', call'[h], h) = Standing(real[h], table, call[h], h)
  BY <1>1, <1>3, Zenon
<1> QED
  BY <1>1, <1>2, <1>4, SeenSame, Zenon

LEMMA CloseSeen ==
  ASSUME IInv, NEW h \in Handle, HookCloseHandle(h)
  PROVE  Unhooked!PlainNext
<1> DEFINE o == real[h]
           p == PosIn(o, table, h)
           k == [op |-> "close", pos |-> p]
<1>1. OneStep(h) /\ real' = real /\ o \in Opened /\ call[h] = Idle /\ call'[h] = k
  BY CloseStep, Zenon
<1>2. out' = <<>>
  BY Zenon DEF HookCloseHandle, Silent
<1>3. Standing(o, table', k, h) = Stood(o, p)
  <2>1. o \in Opened
    BY <1>1, Zenon
  <2> HIDE DEF o, p
  <2> QED
    BY <2>1, StandsClosing, Zenon
<1>4. Standing(o, table, Idle, h) = Stood(o, p)
  BY <1>1, StandsIdle, Zenon
<1>5. Standing(real'[h], table', call'[h], h) = Standing(real[h], table, call[h], h)
  BY <1>1, <1>3, <1>4, Zenon
<1> QED
  BY <1>1, <1>2, <1>5, SeenSame, Zenon

LEMMA RealStands ==
  ASSUME IInv, NEW h \in Handle, NEW v, real' = [real EXCEPT ![h] = v]
  PROVE  real'[h] = v
<1>1. real \in [Handle -> {OS!Closed} \cup Opened]
  BY Zenon DEF IInv, Typed
<1> QED
  BY <1>1, Zenon

\* A call the system answers, from where the game knows the handle to stand
LEMMA CalledSeen ==
  ASSUME IInv, NEW h \in Handle, OneStep(h), NEW c \in OS!Calls, NEW pos \in Nat,
         pos = PosIn(real[h], table, h), Called(h, pos, c), ServedIn(table', h) = {},
         call[h] = Idle, call' = call
  PROVE  Unhooked!PlainNext
<1>1. real[h] \in Opened
  BY Zenon DEF Called
<1>2. PICK p \in Nat : /\ real' = [real EXCEPT ![h] = Stood(real[h], p)]
                       /\ Answers(real[h].file, real[h].access, pos, c, out', p)
  BY Zenon DEF Called
<1>3. real'[h] = Stood(real[h], p)
  BY <1>2, RealStands, Zenon
<1>4. PosIn(Stood(real[h], p), table', h) = p
  <2>1. PosIn(Stood(real[h], p), table', h) = Stood(real[h], p).pos
    BY PosIs
  <2> QED
    BY <1>1, <2>1, StoodIs
<1>5. call'[h] = Idle
  BY Zenon
<1> QED
  BY <1>1, <1>2, <1>3, <1>4, <1>5, SeenCall, Zenon

LEMMA UnservedSeen ==
  ASSUME IInv, NEW h \in Handle, NEW c \in OS!Calls, Unserved(h, c)
  PROVE  Unhooked!PlainNext
<1>1. OneStep(h) /\ Called(h, real[h].pos, c) /\ ServedIn(table, h) = {}
  BY UnservedStep, Zenon
<1>2. table' = table /\ call' = call /\ call[h] = Idle
  BY Zenon DEF Unserved, Usable, cacheVars
<1>3. real[h].pos = PosIn(real[h], table, h)
  BY <1>1, PosIs
<1>4. real[h].pos \in Nat
  BY <1>1, OpenedAre, Zenon DEF Called
<1>5. ServedIn(table', h) = {}
  BY <1>1, <1>2, Zenon
<1> QED
  BY <1>1, <1>2, <1>3, <1>4, <1>5, CalledSeen, Zenon

\* The position of a handle that is served
LEMMA ServingPos ==
  ASSUME NEW h \in Handle, Serving1(h)
  PROVE  /\ PosIn(real[h], table, h) = table[SlotOf(h)].pos /\ table[SlotOf(h)].pos \in Nat
         /\ Restored(h) = table[SlotOf(h)].pos
<1>1. Serves(table, Len(files), h, SlotOf(h)) /\ table[SlotOf(h)].pos \in Nat
  BY Zenon DEF Serving1
<1> DEFINE s == SlotOf(h)
<1> HIDE DEF s
<1>2. Serves(table, Len(files), h, s)
  BY <1>1, Zenon DEF s
<1>3. PosIn(real[h], table, h) = table[s].pos
  <2>1. ServedIn(table, h) = {s}
    BY <1>2, Zenon DEF Serves
  <2> QED
    BY <2>1, Zenon DEF PosIn
<1> QED
  BY <1>1, <1>3, Zenon DEF s, Restored

LEMMA DroppingSeen ==
  ASSUME IInv, NEW h \in Handle, OneStep(h), NEW c \in OS!Calls, Serving1(h),
         Dropping(h, c), call' = call
  PROVE  Unhooked!PlainNext
<1>1. Restored(h) = PosIn(real[h], table, h) /\ Restored(h) \in Nat
  BY ServingPos, Zenon
<1>2. call[h] = Idle
  BY Zenon DEF Serving1
<1>3. Called(h, Restored(h), c) /\ ServedIn(table', h) = {}
  BY Zenon DEF Dropping
<1> QED
  BY <1>1, <1>2, <1>3, CalledSeen, Zenon

\* A call the cache answers as the system would
LEMMA KeepingSeen ==
  ASSUME IInv, NEW h \in Handle, OneStep(h), NEW c \in OS!Calls, Serving1(h), NEW p,
         Keeping(h, p),
         Answers(real[h].file, "read", table[SlotOf(h)].pos, c, out', p)
  PROVE  Unhooked!PlainNext
<1> DEFINE s == SlotOf(h)
           pos == table[s].pos
<1>1. /\ Serves(table', Len(files'), h, s) /\ table'[s].pos = p /\ p \in Nat /\ call' = call
  BY Zenon DEF Keeping, Served1
<1>2. PICK q \in Nat : real' = [real EXCEPT ![h] = Stood(real[h], q)]
  BY Zenon DEF Keeping, Served1
<1>3. /\ real[h] \in Opened /\ real[h].access = "read" /\ call[h] = Idle
  BY Zenon DEF Serving1
<1>4. pos \in Nat /\ pos = PosIn(real[h], table, h)
  BY ServingPos, Zenon
<1>5. real'[h] = Stood(real[h], q)
  BY <1>2, RealStands, Zenon
<1> HIDE DEF s
<1>6. p = PosIn(Stood(real[h], q), table', h)
  <2>1. PosIn(Stood(real[h], q), table', h) = table'[s].pos
    <3>1. ServedIn(table', h) = {s}
      BY <1>1, Zenon DEF Serves
    <3> QED
      BY <3>1, Zenon DEF PosIn
  <2> QED
    BY <1>1, <2>1, Zenon
<1> HIDE DEF pos
<1>7. Answers(real[h].file, real[h].access, pos, c, out', p)
  BY <1>3, Zenon DEF pos, s
<1>8. call'[h] = Idle
  BY <1>1, <1>3, Zenon
<1> QED
  BY <1>1, <1>3, <1>4, <1>5, <1>6, <1>7, <1>8, SeenCall, Zenon

LEMMA OtherSeen ==
  ASSUME IInv, NEW h \in Handle, NEW c \in OS!Calls, HookOther(h, c)
  PROVE  Unhooked!PlainNext
<1>1. OneStep(h) /\ Serving1(h) /\ Dropping(h, c)
  BY OtherStep, Zenon DEF Dropping
<1>2. call' = call
  BY Zenon DEF HookOther
<1> QED
  BY <1>1, <1>2, DroppingSeen, Zenon

\* What the cache read is what the system would have.
LEMMA ReadAnswers ==
  ASSUME NEW f, NEW pos, NEW c, c.op = "read", NEW got, got = OS!Bytes(f, pos, c.n)
  PROVE  Answers(f, "read", pos, c, got, pos + Len(got))
<1>1. "read" # "overlapped"
  OBVIOUS
<1> DEFINE p == pos + Len(got)
           r == [out |-> got, pos |-> p]
<1>2. Outcome(f, "read", pos, c) = r
  BY <1>1, Zenon DEF Outcome
<1>3. r.out = got /\ r.pos = p
  OBVIOUS
<1> HIDE DEF r, p
<1>4. Answers(f, "read", pos, c, got, p)
  BY <1>2, <1>3, Zenon DEF Answers
<1> QED
  BY <1>4, Zenon DEF p

LEMMA ReadSeen ==
  ASSUME IInv, NEW h \in Handle, NEW c \in OS!Calls, NEW bad, HookReadFile(h, c, bad)
  PROVE  Unhooked!PlainNext
<1> DEFINE f == real[h].file
           pos == table[SlotOf(h)].pos
           p == pos + Len(out')
<1>1. /\ OneStep(h) /\ Serving1(h)
      /\ \/ Dropping(h, c)
         \/ c.op = "read" /\ out' = OS!Bytes(f, pos, c.n) /\ Keeping(h, p)
  BY ReadStep, Zenon
<1>2. call' = call
  BY Zenon DEF HookReadFile
<1>3. CASE Dropping(h, c)
  BY <1>1, <1>2, <1>3, DroppingSeen, Zenon
<1>4. CASE c.op = "read" /\ out' = OS!Bytes(f, pos, c.n) /\ Keeping(h, p)
  <2>1. Answers(f, "read", pos, c, out', p)
    BY <1>4, ReadAnswers, Zenon
  <2> HIDE DEF p
  <2> QED
    BY <1>1, <1>4, <2>1, KeepingSeen, Zenon
<1> QED
  BY <1>1, <1>3, <1>4, Zenon

\* Where the cache moves to is where the system would.
LEMMA SeekAnswers ==
  ASSUME NEW f, NEW pos, NEW c, c.op = "seek", c.to[2] \in Int,
         ~(To(pos, Len(Contents[f]), c.to) < 0)
  PROVE  Answers(f, "read", pos, c, <<>>, To(pos, Len(Contents[f]), c.to))
<1> DEFINE p == To(pos, Len(Contents[f]), c.to)
           r == [out |-> <<>>, pos |-> p]
<1>1. "read" # "overlapped"
  OBVIOUS
<1>2. Outcome(f, "read", pos, c) =
        [out |-> IF p < 0 THEN OS!Failed ELSE <<>>, pos |-> IF p < 0 THEN pos ELSE p]
  BY <1>1, SeekIs, Zenon
<1>3. Outcome(f, "read", pos, c) = r
  <2> HIDE DEF p
  <2>1. ~(p < 0)
    BY Zenon DEF p
  <2> QED
    BY <1>2, <2>1, Zenon
<1>4. r.out = <<>> /\ r.pos = p
  OBVIOUS
<1> HIDE DEF r, p
<1>5. Answers(f, "read", pos, c, <<>>, p)
  BY <1>3, <1>4, Zenon DEF Answers
<1> QED
  BY <1>5, Zenon DEF p

LEMMA SeekSeen ==
  ASSUME IInv, NEW h \in Handle, NEW c \in OS!Calls, NEW sized, HookSetFilePointer(h, c, sized)
  PROVE  Unhooked!PlainNext
<1> DEFINE f == real[h].file
           pos == table[SlotOf(h)].pos
           p == To(pos, Len(Contents[f]), c.to)
<1>1. /\ OneStep(h) /\ Serving1(h)
      /\ Dropping(h, c) \/ (c.op = "seek" /\ out' = <<>> /\ ~(p < 0) /\ Keeping(h, p))
  BY SeekStep, Zenon
<1>2. call' = call
  BY Zenon DEF HookSetFilePointer
<1>3. CASE Dropping(h, c)
  BY <1>1, <1>2, <1>3, DroppingSeen, Zenon
<1>4. CASE c.op = "seek" /\ out' = <<>> /\ ~(p < 0) /\ Keeping(h, p)
  <2>1. c.to[2] \in Int
    BY <1>4, CallsAre
  <2>2. Answers(f, "read", pos, c, <<>>, p)
    BY <1>4, <2>1, SeekAnswers, Zenon
  <2> HIDE DEF p
  <2>3. Answers(f, "read", pos, c, out', p)
    BY <1>4, <2>2, Zenon
  <2> QED
    BY <1>1, <1>4, <2>3, KeepingSeen, Zenon
<1> QED
  BY <1>1, <1>3, <1>4, Zenon

-----------------------------------------------------------------------------
(* The cache is not there, for the game. *)

LEMMA SeenUnchanged ==
  ASSUME real' = real, table' = table, call' = call
  PROVE  Seen' = Seen
<1> DEFINE S(r, t, k) == [h \in Handle |-> Standing(r[h], t, k[h], h)]
<1>1. Seen = S(real, table, call) /\ Seen' = S(real', table', call')
  BY SeenIs, Zenon
<1> HIDE DEF S
<1> QED
  BY <1>1, Zenon

LEMMA SeenNext ==
  ASSUME IInv, Next
  PROVE  Unhooked!PlainNext
<1>1. CASE Install
  <2>1. real' = real /\ table' = table /\ call' = call /\ out' = <<>>
    BY <1>1, Zenon DEF Install, Silent
  <2>2. Seen' = Seen
    BY <2>1, SeenUnchanged, Zenon
  <2> QED
    BY <2>1, <2>2, Zenon DEF Unhooked!PlainNext, Unhooked!Taken
<1>2. ASSUME NEW h \in Handle,
             \/ \E o \in Opens : HookCreateFile(h, o[1], o[2])
             \/ NoteOpen(h) \/ HookCloseHandle(h) \/ OrigCloseHandle(h) \/ CloseUnseen(h)
      PROVE  Unhooked!PlainNext
  BY <1>2, OpenSeen, NoteSeen, CloseSeen, ShutSeen, Zenon
<1>3. ASSUME NEW h \in Handle, NEW c \in OS!Calls,
             \/ Unserved(h, c) \/ HookOther(h, c)
             \/ \E bad \in 0..BadMax : HookReadFile(h, c, bad)
             \/ \E sized \in BOOLEAN : HookSetFilePointer(h, c, sized)
      PROVE  Unhooked!PlainNext
  BY <1>3, UnservedSeen, OtherSeen, ReadSeen, SeekSeen, Zenon
<1> QED
  BY <1>1, <1>2, <1>3, Zenon DEF Next

LEMMA SeenInit ==
  ASSUME Init
  PROVE  Unhooked!PlainInit
<1>1. real = [h \in Handle |-> OS!Closed] /\ out = <<>>
  BY Zenon DEF Init, OS!PlainInit
<1>2. \A h \in Handle : Standing(real[h], table, call[h], h) = OS!Closed
  BY <1>1, Zenon DEF Standing
<1>3. Seen = [h \in Handle |-> OS!Closed]
  BY <1>2, SeenIs, Zenon
<1> QED
  BY <1>1, <1>3, Zenon DEF Unhooked!PlainInit, Unhooked!Closed, OS!Closed

\* With the hooks in place the game reads what it would read without them: whatever the
\* cache served, evicted, bound, gave up or failed to fetch before, and however the calls
\* of the threads interleave, each of them returns the bytes at the position the game
\* knows and leaves the handle where the system would (blockcache.h:10).
THEOREM CacheCorrect ==
  Spec => Unmodified
<1>1. Init => Unhooked!PlainInit
  BY SeenInit, Zenon
<1>2. IInv /\ [Next]_vars => [Unhooked!PlainNext]_(Unhooked!plainVars)
  <2> SUFFICES ASSUME IInv, [Next]_vars
               PROVE  [Unhooked!PlainNext]_(Unhooked!plainVars)
    OBVIOUS
  <2>1. CASE Next
    BY <2>1, SeenNext
  <2>2. CASE UNCHANGED vars
    <3>1. real' = real /\ table' = table /\ call' = call /\ out' = out
      BY <2>2, Zenon DEF vars
    <3>2. Seen' = Seen
      BY <3>1, SeenUnchanged, Zenon
    <3> QED
      BY <3>1, <3>2 DEF Unhooked!plainVars
  <2> QED
    BY <2>1, <2>2
<1> QED
  BY <1>1, <1>2, Invariant, PTL DEF Spec, Unmodified, Unhooked!Plain
=============================================================================
