--------------------------- MODULE SaveDataProofs ---------------------------
(***************************************************************************)
(* The history and its file, for histories of any size, any number of      *)
(* files, runs and crashes: their positions agree, and no session of the   *)
(* history is on no file.  What a session of the history is on the file    *)
(* rests on what the two loops over the records of a file do, the one that *)
(* loads them and the one that leaves some out, which is shown first.      *)
(***************************************************************************)
EXTENDS SaveData, TLAPS, SequenceTheorems, WellFoundedInduction

-----------------------------------------------------------------------------
(* Induction and recursion over the numbers up to N, with a set and a        *)
(* function for a parameter                                                  *)

LEMMA LeastOf ==
  ASSUME NEW T, T \subseteq Nat, T # {}
  PROVE  \E x \in T : \A y \in T : x <= y
<1>1. PICK x \in T : \A y \in T : ~ (<<y, x>> \in OpToRel(<, Nat))
  BY NatLessThanWellFounded, WFMin, Zenon
<1>2. \A y \in T : ~(y < x)
  <2> SUFFICES ASSUME NEW y \in T, y < x
               PROVE  FALSE
    OBVIOUS
  <2>1. <<y, x>> \in Nat \X Nat /\ <<y, x>>[1] = y /\ <<y, x>>[2] = x
    OBVIOUS
  <2>2. <<y, x>> \in OpToRel(<, Nat)
    BY <2>1, Zenon DEF OpToRel
  <2> QED
    BY <1>1, <2>2, Zenon
<1> QED
  BY <1>2

LEMMA Induction ==
  ASSUME NEW N \in Nat, NEW T, 0 \in T, \A n \in 1..N : n - 1 \in T => n \in T
  PROVE  \A n \in 0..N : n \in T
<1> DEFINE B == {n \in 0..N : n \notin T}
<1> SUFFICES ASSUME B # {}
             PROVE  FALSE
  OBVIOUS
<1>1. B \subseteq Nat
  OBVIOUS
<1> HIDE DEF B
<1>2. PICK x \in B : \A y \in B : x <= y
  BY <1>1, LeastOf, Zenon
<1>3. x \in 0..N /\ x \notin T
  BY Zenon DEF B
<1>4. x # 0
  BY <1>3, Zenon
<1>5. x \in 1..N /\ x - 1 \in 0..N
  BY <1>3, <1>4
<1>6. x - 1 \notin B
  BY <1>2, <1>5
<1>7. x - 1 \in T
  BY <1>5, <1>6, Zenon DEF B
<1> QED
  BY <1>3, <1>5, <1>7, Zenon

Follows(S, a, N, G, f) ==
  /\ f \in [0..N -> S] /\ f[0] = a
  /\ \A n \in 1..N : f[n] = G[n][f[n - 1]]

LEMMA Recursion ==
  ASSUME NEW S, NEW a \in S, NEW N \in Nat, NEW G \in [1..N -> [S -> S]]
  PROVE  \E f : Follows(S, a, N, G, f)
<1> DEFINE P(m, f) == Follows(S, a, m, G, f)
           T == {m \in 0..N : \E f : P(m, f)}
<1>1. 0 \in T
  <2>1. P(0, [i \in 0..0 |-> a])
    BY DEF Follows
  <2> HIDE DEF P
  <2> QED
    BY <2>1
<1>2. ASSUME NEW m \in 1..N, m - 1 \in T
      PROVE  m \in T
  <2>1. PICK f : P(m - 1, f)
    BY <1>2, Zenon
  <2>2. m - 1 \in 0..(m - 1) /\ m \in Nat
    OBVIOUS
  <2>3. f[m - 1] \in S /\ G[m] \in [S -> S]
    BY <2>1, <2>2, Zenon DEF Follows
  <2> DEFINE last == G[m][f[m - 1]]
             h == [i \in 0..m |-> IF i = m THEN last ELSE f[i]]
  <2>4. last \in S
    BY <2>3, Zenon
  <2> HIDE DEF last
  <2>5. \A i \in 0..m : i # m => i \in 0..(m - 1)
    OBVIOUS
  <2>6. h \in [0..m -> S]
    BY <2>1, <2>4, <2>5, Zenon DEF Follows
  <2>7. 0 \in 0..m /\ 0 # m /\ m \in 0..m
    OBVIOUS
  <2>8. h[0] = a
    BY <2>1, <2>7, Zenon DEF Follows
  <2>9. ASSUME NEW n \in 1..m
        PROVE  h[n] = G[n][h[n - 1]]
    <3>1. n \in 0..m /\ n - 1 \in 0..m /\ n - 1 # m
      OBVIOUS
    <3>2. h[n - 1] = f[n - 1]
      BY <3>1, Zenon
    <3>3. CASE n = m
      BY <3>1, <3>2, <3>3, Zenon DEF last
    <3>4. CASE n # m
      <4>1. n \in 1..(m - 1)
        BY <3>4
      <4>2. h[n] = f[n] /\ f[n] = G[n][f[n - 1]]
        BY <2>1, <3>1, <3>4, <4>1, Zenon DEF Follows
      <4> QED
        BY <3>2, <4>2, Zenon
    <3> QED
      BY <3>3, <3>4
  <2> HIDE DEF h
  <2>10. P(m, h)
    BY <2>6, <2>8, <2>9, Zenon DEF Follows
  <2>11. m \in 0..N
    OBVIOUS
  <2> HIDE DEF P
  <2> QED
    BY <2>10, <2>11, Zenon
<1> HIDE DEF T
<1>3. N \in T
  <2>1. N \in 0..N
    OBVIOUS
  <2> QED
    BY <1>1, <1>2, <2>1, Induction, Zenon
<1> QED
  BY <1>3, Zenon DEF T

-----------------------------------------------------------------------------
(* Sequences *)

LEMMA Extended ==
  ASSUME NEW S, NEW s \in Seq(S), NEW n \in 1..Len(s), NEW m \in 1..n
  PROVE  /\ Append(SubSeq(s, m, n - 1), s[n]) = SubSeq(s, m, n)
         /\ Tail(SubSeq(s, m, n)) = SubSeq(s, m + 1, n)
         /\ SubSeq(s, m, n) \in Seq(S) /\ SubSeq(s, m, n) # <<>>
<1>1. m \in 1..Len(s) /\ n \in m..Len(s) /\ m \in Int /\ n \in Int /\ n - 1 \in Int
  OBVIOUS
<1>2. SubSeq(s, m, n) = SubSeq(s, m, n - 1) \o <<s[n]>>
  BY <1>1, SubSeqRecursiveSecond, Zenon
<1>3. \A i \in m..n : s[i] \in S
  OBVIOUS
<1>4. \A i \in m..(n - 1) : s[i] \in S
  OBVIOUS
<1>5. SubSeq(s, m, n - 1) \in Seq(S) /\ s[n] \in S
  <2>1. SubSeq(s, m, n - 1) \in Seq(S)
    BY <1>1, <1>4, SubSeqProperties, Zenon
  <2> QED
    BY <2>1
<1>6. Append(SubSeq(s, m, n - 1), s[n]) = SubSeq(s, m, n - 1) \o <<s[n]>>
  BY <1>5, AppendIsConcat, Zenon
<1>7. Tail(SubSeq(s, m, n)) = SubSeq(s, m + 1, n)
  BY <1>1, HeadTailOfSubSeq, Zenon
<1>8. SubSeq(s, m, n) \in Seq(S)
  BY <1>1, <1>3, SubSeqProperties, Zenon
<1>9. Len(SubSeq(s, m, n)) > 0
  <2>1. Len(SubSeq(s, m, n)) = IF m <= n THEN n - m + 1 ELSE 0
    BY <1>1, <1>3, SubSeqProperties, Zenon
  <2> QED
    BY <2>1
<1>10. SubSeq(s, m, n) # <<>>
  BY <1>9
<1> QED
  BY <1>2, <1>6, <1>7, <1>8, <1>10

-----------------------------------------------------------------------------
(* What loading a file does to the history *)

Run == 1..MaxRuns

Vector ==
  {v \in [history : Seq(Run), curIndex : 0..HistorySize] : Len(v.history) <= v.curIndex}

LEMMA EmptyVector == Empty \in Vector /\ Empty.history = <<>> /\ Empty.curIndex = 0
BY SizeAssumption DEF Empty, Vector

LEMMA PushType ==
  ASSUME NEW v \in Vector, NEW r \in Run
  PROVE  Push(v, r) \in Vector
<1>1. /\ v.history \in Seq(Run) /\ v.curIndex \in 0..HistorySize
      /\ Len(v.history) <= v.curIndex /\ HistorySize \in Nat \ {0}
  BY SizeAssumption DEF Vector
<1> DEFINE h == IF Full(v) THEN Tail(v.history) ELSE v.history
           c == IF v.curIndex < HistorySize THEN v.curIndex + 1 ELSE v.curIndex
<1>2. Push(v, r) = [history |-> Append(h, r), curIndex |-> c]
  BY Zenon DEF Push
<1>3. h \in Seq(Run) /\ Len(h) < c
  <2>1. CASE Full(v)
    <3>1. v.history # <<>> /\ v.curIndex = HistorySize
      BY <1>1, <2>1 DEF Full
    <3>2. Tail(v.history) \in Seq(Run) /\ Len(Tail(v.history)) = Len(v.history) - 1
      BY <1>1, <3>1
    <3> QED
      BY <1>1, <2>1, <3>1, <3>2
  <2>2. CASE ~Full(v)
    <3>1. v.curIndex < HistorySize \/ Len(v.history) = 0
      BY <1>1, <2>2 DEF Full
    <3> QED
      BY <1>1, <2>2, <3>1
  <2> QED
    BY <2>1, <2>2
<1>4. c \in 0..HistorySize
  BY <1>1
<1> HIDE DEF h, c
<1>5. Append(h, r) \in Seq(Run) /\ Len(Append(h, r)) = Len(h) + 1 /\ Len(h) \in Nat
  BY <1>3
<1>6. Len(Append(h, r)) <= c
  BY <1>3, <1>4, <1>5, SizeAssumption
<1> QED
  BY <1>2, <1>4, <1>5, <1>6 DEF Vector

\* Session after session
Pushing(h, v, s) ==
  /\ h[0] = v
  /\ \A n \in 1..Len(s) : h[n] = Push(h[n - 1], s[n])
  /\ Pushed(v, s) = h[Len(s)]

LEMMA PushedIs ==
  ASSUME NEW v \in Vector, NEW s \in Seq(Run)
  PROVE  \E h : Pushing(h, v, s)
<1> DEFINE N == Len(s)
           R(f) == [n \in 0..N |-> IF n = 0 THEN v ELSE Push(f[n - 1], s[n])]
           G == [n \in 1..N |-> [x \in Vector |-> Push(x, s[n])]]
<1>1. N \in Nat /\ \A n \in 1..N : s[n] \in Run
  OBVIOUS
<1>2. G \in [1..N -> [Vector -> Vector]]
  BY <1>1, PushType, Zenon
<1> HIDE DEF G
<1>3. PICK f : Follows(Vector, v, N, G, f)
  BY <1>1, <1>2, Recursion, Zenon
<1> USE DEF G
<1>4. \A n \in 0..N : /\ n = 0 \/ n \in 1..N
                      /\ n \in 1..N => n - 1 \in 0..N
  BY <1>1
<1>5. \A n \in 0..N : f[n] = R(f)[n]
  BY <1>3, <1>4, Zenon DEF Follows
<1>6. f = R(f)
  BY <1>3, <1>5, Zenon DEF Follows
<1> DEFINE c == CHOOSE g : g = R(g)
<1>7. Pushed(v, s) = c[N]
  BY Zenon DEF Pushed
<1> HIDE DEF R
<1>8. c = R(c)
  BY <1>6, Zenon
<1> HIDE DEF c
<1>9. \A n \in 0..N : c[n] = IF n = 0 THEN v ELSE Push(c[n - 1], s[n])
  BY <1>8, Zenon DEF R
<1>10. 0 \in 0..N /\ \A n \in 1..N : n \in 0..N /\ n # 0
  BY <1>1
<1>11. Pushing(c, v, s)
  BY <1>7, <1>9, <1>10, Zenon DEF Pushing
<1> QED
  BY <1>11, Zenon

LEMMA PushedType ==
  ASSUME NEW v \in Vector, NEW s \in Seq(Run)
  PROVE  Pushed(v, s) \in Vector
<1>1. PICK h : Pushing(h, v, s)
  BY PushedIs, Zenon
<1>2. /\ h[0] = v
      /\ \A n \in 1..Len(s) : h[n] = Push(h[n - 1], s[n])
      /\ Pushed(v, s) = h[Len(s)]
  BY <1>1, Zenon DEF Pushing
<1> DEFINE T == {n \in 0..Len(s) : h[n] \in Vector}
<1>3. 0 \in T
  BY <1>2
<1>4. ASSUME NEW n \in 1..Len(s), n - 1 \in T
      PROVE  n \in T
  <2>1. s[n] \in Run /\ n \in 0..Len(s)
    OBVIOUS
  <2> QED
    BY <1>2, <1>4, <2>1, PushType, Zenon
<1>5. Len(s) \in Nat /\ Len(s) \in 0..Len(s)
  OBVIOUS
<1> HIDE DEF T
<1>6. Len(s) \in T
  BY <1>3, <1>4, <1>5, Induction, Zenon
<1> QED
  BY <1>2, <1>6, Zenon DEF T

\* A file is loaded as its last sessions, as many as the history holds.
LEMMA PushedLast ==
  ASSUME NEW s \in Seq(Run)
  PROVE  Pushed(Empty, s).history =
           IF Len(s) > HistorySize THEN SubSeq(s, Len(s) - HistorySize + 1, Len(s)) ELSE s
<1> DEFINE from(n) == IF n > HistorySize THEN n - HistorySize + 1 ELSE 1
           P(v, n) == /\ v \in Vector /\ v.history = SubSeq(s, from(n), n)
                      /\ v.curIndex = IF n > HistorySize THEN HistorySize ELSE n
<1>0. HistorySize \in Nat \ {0} /\ Len(s) \in Nat
  BY SizeAssumption
<1>1. PICK h : Pushing(h, Empty, s)
  BY EmptyVector, PushedIs, Zenon
<1>2. /\ h[0] = Empty
      /\ \A n \in 1..Len(s) : h[n] = Push(h[n - 1], s[n])
      /\ Pushed(Empty, s) = h[Len(s)]
  BY <1>1, Zenon DEF Pushing
<1> DEFINE T == {n \in 0..Len(s) : P(h[n], n)}
<1>3. 0 \in T
  <2>1. from(0) = 1 /\ ~(0 > HistorySize)
    BY <1>0
  <2>2. SubSeq(s, 1, 0) = <<>>
    BY SubSeqEmpty
  <2>3. P(Empty, 0)
    BY <2>1, <2>2, EmptyVector
  <2> HIDE DEF P
  <2> QED
    BY <1>0, <1>2, <2>3
<1>4. ASSUME NEW n \in 1..Len(s), n - 1 \in T
      PROVE  n \in T
  <2> DEFINE v == h[n - 1]
  <2>1. P(v, n - 1) /\ h[n] = Push(v, s[n]) /\ s[n] \in Run
    BY <1>2, <1>4
  <2> HIDE DEF v
  <2>2. Push(v, s[n]) \in Vector
    BY <2>1, PushType, Zenon
  <2>3. n \in 0..Len(s)
    OBVIOUS
  <2>4. CASE n <= HistorySize
    <3>1. from(n - 1) = 1 /\ from(n) = 1 /\ v.curIndex = n - 1 /\ v.curIndex < HistorySize
      BY <1>0, <2>1, <2>4
    <3>2. ~Full(v)
      BY <1>0, <3>1 DEF Full
    <3>3. /\ Push(v, s[n]).history = Append(v.history, s[n])
          /\ Push(v, s[n]).curIndex = n
      BY <3>1, <3>2 DEF Push
    <3>4. Append(SubSeq(s, 1, n - 1), s[n]) = SubSeq(s, 1, n)
      <4>1. 1 \in 1..n
        OBVIOUS
      <4> QED
        BY <4>1, Extended, Zenon
    <3>5. P(Push(v, s[n]), n)
      BY <1>0, <2>1, <2>2, <2>4, <3>1, <3>3, <3>4
    <3> HIDE DEF P
    <3> QED
      BY <2>1, <2>3, <3>5, Zenon
  <2>5. CASE n > HistorySize
    <3> DEFINE m == n - HistorySize
    <3>1. /\ from(n - 1) = m /\ from(n) = m + 1 /\ v.curIndex = HistorySize
          /\ m \in 1..(n - 1) /\ n - 1 \in 1..Len(s) /\ m + 1 \in 1..n
      BY <1>0, <2>1, <2>5
    <3> HIDE DEF m
    <3>2. /\ v.history = SubSeq(s, m, n - 1) /\ v.history # <<>>
          /\ Tail(v.history) = SubSeq(s, m + 1, n - 1)
      <4>1. v.history = SubSeq(s, m, n - 1)
        BY <2>1, <3>1
      <4>2. /\ SubSeq(s, m, n - 1) # <<>>
            /\ Tail(SubSeq(s, m, n - 1)) = SubSeq(s, m + 1, n - 1)
        BY <3>1, Extended, Zenon
      <4> QED
        BY <4>1, <4>2, Zenon
    <3>3. Full(v)
      BY <1>0, <3>1, <3>2 DEF Full
    <3>4. /\ Push(v, s[n]).history = Append(Tail(v.history), s[n])
          /\ Push(v, s[n]).curIndex = HistorySize
      BY <1>0, <3>1, <3>3 DEF Push
    <3>5. Append(SubSeq(s, m + 1, n - 1), s[n]) = SubSeq(s, m + 1, n)
      BY <3>1, Extended, Zenon
    <3>6. P(Push(v, s[n]), n)
      BY <1>0, <2>1, <2>2, <2>5, <3>1, <3>2, <3>4, <3>5
    <3> HIDE DEF P
    <3> QED
      BY <2>1, <2>3, <3>6, Zenon
  <2> QED
    BY <1>0, <2>4, <2>5
<1> HIDE DEF T
<1>5. Len(s) \in T
  <2>1. Len(s) \in 0..Len(s)
    BY <1>0
  <2> QED
    BY <1>0, <1>3, <1>4, <2>1, Induction, Zenon
<1>6. P(h[Len(s)], Len(s))
  BY <1>5, Zenon DEF T
<1>7. SubSeq(s, 1, Len(s)) = s
  BY SubSeqFull, Zenon
<1> QED
  BY <1>2, <1>6, <1>7

-----------------------------------------------------------------------------
(* What is on a file: nothing, another version, or this one and a number for *)
(* each session (zero where a version word was written for one).             *)

Number == 0..MaxRuns
Started == {<<Version>> \o q : q \in Seq(Number)}
FileType == {<<>>, <<OtherVersion>>} \cup Started

LEMMA Runs ==
  ASSUME NEW q \in Seq(Number), \A i \in 1..Len(q) : q[i] \in Run
  PROVE  q \in Seq(Run)
<1>1. Len(q) \in Nat /\ q = [i \in 1..Len(q) |-> q[i]]
  OBVIOUS
<1> QED
  BY <1>1

LEMMA RunsAreNumbers == MaxRuns \in Nat /\ Run \subseteq Number /\ Number \subseteq Word
BY SizeAssumption DEF Run, Number, Word, OtherVersion

Lengthens(s, t, e) ==
  Append(s \o t, e) = s \o Append(t, e) /\ Append(t, e) \in Seq(Number)

LEMMA AppendConcat ==
  ASSUME NEW s \in Seq(Number), NEW t \in Seq(Number), NEW e \in Number
  PROVE  Lengthens(s, t, e)
<1> DEFINE N == Number
<1>1. s \in Seq(N) /\ t \in Seq(N) /\ e \in N
  OBVIOUS
<1> HIDE DEF N
<1>2. s \o t \in Seq(N) /\ <<e>> \in Seq(N) /\ Append(t, e) \in Seq(N)
  BY <1>1
<1>3. Append(s \o t, e) = (s \o t) \o <<e>> /\ Append(t, e) = t \o <<e>>
  BY <1>1, <1>2, AppendIsConcat, Zenon
<1>4. (s \o t) \o <<e>> = s \o (t \o <<e>>)
  BY <1>1, <1>2, ConcatAssociative
<1>5. Append(s \o t, e) = s \o Append(t, e)
  BY <1>3, <1>4, Zenon
<1> QED
  BY <1>2, <1>5, Zenon DEF N, Lengthens

LEMMA RunsAreContents ==
  ASSUME NEW q \in Seq(Run)
  PROVE  q \in Seq(Number)
BY RunsAreNumbers, SeqMonotonic, Zenon

LEMMA FileParts ==
  ASSUME NEW q \in Seq(Number), NEW w, w = <<Version>> \o q
  PROVE  /\ w \in Seq(Word) /\ Len(w) = Len(q) + 1 /\ Len(q) \in Nat
         /\ w # <<>> /\ w # <<OtherVersion>>
         /\ Head(w) = Version /\ Tail(w) = q
         /\ \A i \in 1..Len(q) : w[i + 1] = q[i]
<1>1. q \in Seq(Word) /\ <<Version>> \in Seq(Word) /\ Len(q) \in Nat
  <2>1. Version \in Word
    BY RunsAreNumbers DEF Word, Version, OtherVersion
  <2> QED
    BY <2>1, RunsAreNumbers, SeqMonotonic
<1>2. /\ w \in Seq(Word) /\ Len(w) = Len(q) + 1
      /\ \A i \in 1..(1 + Len(q)) : w[i] = IF i <= 1 THEN <<Version>>[i] ELSE q[i - 1]
  BY <1>1, ConcatProperties
<1>3. w[1] = Version /\ Version # OtherVersion
  BY <1>1, <1>2 DEF Version, OtherVersion
<1>4. \A i \in 1..Len(q) : w[i + 1] = q[i]
  BY <1>1, <1>2
<1>5. w # <<>> /\ w # <<OtherVersion>>
  <2>1. <<OtherVersion>>[1] = OtherVersion
    OBVIOUS
  <2>2. w # <<>>
    BY <1>1, <1>2
  <2> QED
    BY <1>3, <2>1, <2>2, Zenon
<1>6. Head(w) = Version
  BY <1>2, <1>3, <1>5
<1>7. Tail(w) = q
  <2>1. /\ Tail(w) \in Seq(Word) /\ Len(Tail(w)) = Len(w) - 1
        /\ \A i \in 1..Len(Tail(w)) : Tail(w)[i] = w[i + 1]
    BY <1>2, <1>5, HeadTailProperties
  <2>2. Len(Tail(w)) = Len(q) /\ \A i \in 1..Len(Tail(w)) : Tail(w)[i] = q[i]
    BY <1>1, <1>2, <1>4, <2>1
  <2> QED
    BY <1>1, <2>1, <2>2, SeqEqual, Zenon
<1> QED
  BY <1>1, <1>2, <1>4, <1>5, <1>6, <1>7

LEMMA FileReadable ==
  ASSUME NEW q \in Seq(Number), NEW w, w = <<Version>> \o q
  PROVE  Readable(w) <=> q \in Seq(Run)
<1>1. /\ w \in Seq(Word) /\ Len(w) = Len(q) + 1 /\ Len(q) \in Nat /\ w # <<>>
      /\ Head(w) = Version
      /\ \A i \in 1..Len(q) : w[i + 1] = q[i]
  BY FileParts, Zenon
<1>2. DOMAIN w = 1..(Len(q) + 1) /\ w[1] = Version
  BY <1>1
<1>3. ASSUME Readable(w) PROVE q \in Seq(Run)
  <2>1. ASSUME NEW i \in 1..Len(q)
        PROVE  q[i] \in Run
    <3>1. i + 1 \in DOMAIN w /\ i + 1 # 1
      BY <1>1, <1>2
    <3> QED
      BY <1>1, <1>3, <3>1, Zenon DEF Readable, Run
  <2> QED
    BY <2>1, Runs, Zenon
<1>4. ASSUME q \in Seq(Run) PROVE Readable(w)
  <2> SUFFICES ASSUME NEW i \in DOMAIN w, i # 1
               PROVE  w[i] \in Run
    BY <1>2, Zenon DEF Readable, Run
  <2>1. i - 1 \in 1..Len(q) /\ (i - 1) + 1 = i
    BY <1>1, <1>2
  <2>2. q[i - 1] \in Run
    BY <1>4, <2>1
  <2> QED
    BY <1>1, <2>1, <2>2, Zenon
<1> QED
  BY <1>3, <1>4

LEMMA FileSessions ==
  ASSUME NEW q \in Seq(Run), NEW w, w = <<Version>> \o q
  PROVE  Sessions(w) = q
<1>1. q \in Seq(Number)
  BY RunsAreContents
<1>2. /\ w \in Seq(Word) /\ Len(w) = Len(q) + 1 /\ Len(q) \in Nat
      /\ w # <<>> /\ Head(w) = Version /\ Tail(w) = q
      /\ \A i \in 1..Len(q) : w[i + 1] = q[i]
  BY <1>1, FileParts, Zenon
<1> DEFINE bad == {i \in 2..Len(w) : w[i] = Version}
<1>3. bad = {}
  <2> SUFFICES ASSUME NEW i \in 2..Len(w)
               PROVE  w[i] # Version
    OBVIOUS
  <2>1. i - 1 \in 1..Len(q) /\ (i - 1) + 1 = i
    BY <1>2
  <2>2. w[i] = q[i - 1]
    BY <1>2, <2>1, Zenon
  <2>3. q[i - 1] \in Run
    BY <2>1
  <2> QED
    BY <2>2, <2>3 DEF Run, Version
<1>4. Sessions(w) = SubSeq(w, 2, IF bad = {} THEN Len(w)
                       ELSE (CHOOSE i \in bad : \A k \in bad : i <= k) - 1)
  BY <1>2, Zenon DEF Sessions
<1> HIDE DEF bad
<1>5. Sessions(w) = SubSeq(w, 2, Len(w))
  BY <1>3, <1>4, Zenon
<1> QED
  BY <1>2, <1>5, TailIsSubSeq

LEMMA NoSessions == Sessions(<<>>) = <<>> /\ Sessions(<<OtherVersion>>) = <<>>
<1>1. Head(<<OtherVersion>>) # Version
  BY DEF OtherVersion, Version
<1> QED
  BY <1>1, Zenon DEF Sessions

\* Load stops at the first word that is none, so what it has read are sessions.
LEMMA SessionsType ==
  ASSUME NEW w \in FileType
  PROVE  Sessions(w) \in Seq(Run)
<1>1. CASE w \in {<<>>, <<OtherVersion>>}
  <2>1. Sessions(w) = <<>>
    BY <1>1, NoSessions, Zenon
  <2> QED
    BY <2>1
<1>2. CASE w \in Started
  <2>1. PICK q \in Seq(Number) : w = <<Version>> \o q
    BY <1>2, Zenon DEF Started
  <2>2. /\ w \in Seq(Word) /\ Len(w) = Len(q) + 1 /\ Len(q) \in Nat
        /\ w # <<>> /\ Head(w) = Version
        /\ \A i \in 1..Len(q) : w[i + 1] = q[i]
    BY <2>1, FileParts, Zenon
  <2> DEFINE bad == {i \in 2..Len(w) : w[i] = Version}
             last == IF bad = {} THEN Len(w)
                     ELSE (CHOOSE i \in bad : \A k \in bad : i <= k) - 1
  <2>3. Sessions(w) = SubSeq(w, 2, last)
    BY <2>2, Zenon DEF Sessions
  <2>4. /\ last \in 1..Len(w)
        /\ \A i \in 2..last : i \notin bad
    <3>1. CASE bad = {}
      BY <2>2, <3>1
    <3>2. CASE bad # {}
      <4>1. bad \subseteq 2..Len(w) /\ bad \subseteq Nat
        OBVIOUS
      <4> HIDE DEF bad
      <4>2. \E i \in bad : \A k \in bad : i <= k
        BY <3>2, <4>1, LeastOf, Zenon
      <4> DEFINE first == CHOOSE i \in bad : \A k \in bad : i <= k
      <4>3. first \in bad /\ \A k \in bad : first <= k
        BY <4>2, Zenon
      <4>4. last = first - 1
        BY <3>2
      <4> HIDE DEF first, last
      <4> QED
        BY <2>2, <4>1, <4>3, <4>4
    <3> QED
      BY <3>1, <3>2
  <2> HIDE DEF last
  <2>5. ASSUME NEW i \in 2..last
        PROVE  w[i] \in Run
    <3>1. i \in 2..Len(w) /\ i - 1 \in 1..Len(q) /\ (i - 1) + 1 = i
      BY <2>2, <2>4
    <3>2. w[i] # Version /\ w[i] = q[i - 1]
      BY <2>2, <2>4, <3>1, Zenon
    <3>3. q[i - 1] \in Number
      BY <3>1
    <3> QED
      BY <3>2, <3>3, RunsAreNumbers DEF Run, Number, Version
  <2>6. last \in Int /\ 2 \in Int
    BY <2>2, <2>4
  <2>7. SubSeq(w, 2, last) \in Seq(Run)
    BY <2>5, <2>6, SubSeqProperties, Zenon
  <2> QED
    BY <2>3, <2>7, Zenon
<1> QED
  BY <1>1, <1>2, Zenon DEF FileType

LEMMA WordsOfFile ==
  ASSUME NEW w \in FileType
  PROVE  w \in Seq(Word)
<1>1. <<>> \in Seq(Word) /\ <<OtherVersion>> \in Seq(Word)
  <2>1. OtherVersion \in Word
    BY SizeAssumption DEF Word, OtherVersion
  <2> QED
    BY <2>1
<1>2. CASE w \in Started
  <2>1. PICK q \in Seq(Number) : w = <<Version>> \o q
    BY <1>2, Zenon DEF Started
  <2> QED
    BY <2>1, FileParts, Zenon
<1> QED
  BY <1>1, <1>2, Zenon DEF FileType

-----------------------------------------------------------------------------
(* What Delete writes                                                        *)

\* The loop of Delete, with the records q and what it has written so far
Copied(x, q, n, index, clearCount) ==
  IF index # n /\ n > clearCount THEN Append(x, q[n]) ELSE x

Copying(h, q, w, index, clearCount) ==
  /\ h[0] = <<Version>>
  /\ \A n \in 1..Len(q) : h[n] = Copied(h[n - 1], q, n, index, clearCount)
  /\ Kept(w, index, clearCount) = h[Len(q)]

LEMMA KeptIs ==
  ASSUME NEW q \in Seq(Number), NEW w, w = <<Version>> \o q, NEW index, NEW clearCount
  PROVE  \E h : Copying(h, q, w, index, clearCount)
<1> DEFINE N == Len(w) - 1
           R(f) == [n \in 0..N |->
                      IF n = 0 THEN <<Version>>
                      ELSE IF index # n /\ n > clearCount THEN Append(f[n - 1], w[n + 1])
                      ELSE f[n - 1]]
           G == [n \in 1..N |->
                   [x \in Seq(Word) |->
                      IF index # n /\ n > clearCount THEN Append(x, w[n + 1]) ELSE x]]
<1>1. /\ w \in Seq(Word) /\ Len(w) = Len(q) + 1 /\ Len(q) \in Nat
      /\ \A i \in 1..Len(q) : w[i + 1] = q[i]
  BY FileParts, Zenon
<1>2. N \in Nat /\ N = Len(q) /\ \A n \in 1..N : w[n + 1] \in Word
  BY <1>1
<1>3. G \in [1..N -> [Seq(Word) -> Seq(Word)]]
  <2>1. \A x \in Seq(Word), e \in Word : Append(x, e) \in Seq(Word)
    OBVIOUS
  <2> HIDE DEF N
  <2> QED
    BY <1>2, <2>1, Zenon
<1>4. <<Version>> \in Seq(Word)
  <2>1. Version \in Word
    BY SizeAssumption DEF Word, OtherVersion, Version
  <2> QED
    BY <2>1
<1> HIDE DEF G
<1>5. PICK f : Follows(Seq(Word), <<Version>>, N, G, f)
  BY <1>2, <1>3, <1>4, Recursion, Zenon
<1> USE DEF G
<1>6. \A n \in 0..N : /\ n = 0 \/ n \in 1..N
                      /\ n \in 1..N => n - 1 \in 0..N
  BY <1>2
<1>7. \A n \in 0..N : f[n] = R(f)[n]
  BY <1>5, <1>6, Zenon DEF Follows
<1>8. f = R(f)
  BY <1>5, <1>7, Zenon DEF Follows
<1> DEFINE c == CHOOSE g : g = R(g)
<1>9. Kept(w, index, clearCount) = c[N]
  BY Zenon DEF Kept
<1> HIDE DEF R
<1>10. c = R(c)
  BY <1>8, Zenon
<1> HIDE DEF c
<1>11. \A n \in 0..N :
         c[n] = IF n = 0 THEN <<Version>>
                ELSE IF index # n /\ n > clearCount THEN Append(c[n - 1], w[n + 1])
                ELSE c[n - 1]
  BY <1>10, Zenon DEF R
<1>12. 0 \in 0..N /\ \A n \in 1..N : n \in 0..N /\ n # 0
  BY <1>2
<1> HIDE DEF N
<1>13. c[0] = <<Version>>
  BY <1>11, <1>12, Zenon
<1>14. ASSUME NEW n \in 1..Len(q)
       PROVE  c[n] = Copied(c[n - 1], q, n, index, clearCount)
  <2>1. n \in 1..N /\ w[n + 1] = q[n]
    BY <1>1, <1>2, Zenon
  <2> QED
    BY <1>11, <1>12, <2>1, Zenon DEF Copied
<1>15. Copying(c, q, w, index, clearCount)
  BY <1>2, <1>9, <1>13, <1>14, Zenon DEF Copying
<1> QED
  BY <1>15, Zenon

\* A file with a session for each record stays one.
LEMMA KeptType ==
  ASSUME NEW q \in Seq(Number), NEW w, w = <<Version>> \o q, NEW index, NEW clearCount
  PROVE  Kept(w, index, clearCount) \in Started
<1>1. PICK h : Copying(h, q, w, index, clearCount)
  BY KeptIs, Zenon
<1>2. /\ h[0] = <<Version>>
      /\ \A n \in 1..Len(q) : h[n] = Copied(h[n - 1], q, n, index, clearCount)
      /\ Kept(w, index, clearCount) = h[Len(q)]
  BY <1>1, Zenon DEF Copying
<1> DEFINE T == {n \in 0..Len(q) : h[n] \in Started}
<1>3. 0 \in T
  <2>1. <<>> \in Seq(Number) /\ <<Version>> = <<Version>> \o <<>> /\ 0 \in 0..Len(q)
    OBVIOUS
  <2> QED
    BY <1>2, <2>1, Zenon DEF Started
<1>4. ASSUME NEW n \in 1..Len(q), n - 1 \in T
      PROVE  n \in T
  <2>1. PICK r \in Seq(Number) : h[n - 1] = <<Version>> \o r
    BY <1>4, Zenon DEF Started
  <2>2. q[n] \in Number /\ n \in 0..Len(q) /\ <<Version>> \in Seq(Number)
    BY RunsAreNumbers DEF Number, Version
  <2>3. /\ Append(h[n - 1], q[n]) = <<Version>> \o Append(r, q[n])
        /\ Append(r, q[n]) \in Seq(Number)
    <3>1. Lengthens(<<Version>>, r, q[n])
      BY <2>2, AppendConcat, Zenon
    <3> QED
      BY <2>1, <3>1 DEF Lengthens
  <2>4. Append(h[n - 1], q[n]) \in Started /\ h[n - 1] \in Started
    BY <1>4, <2>3, Zenon DEF Started
  <2> QED
    BY <1>2, <2>2, <2>4, Zenon DEF Copied
<1>5. Len(q) \in Nat /\ Len(q) \in 0..Len(q)
  OBVIOUS
<1> HIDE DEF T
<1>6. Len(q) \in T
  BY <1>3, <1>4, <1>5, Induction, Zenon
<1> QED
  BY <1>2, <1>6, Zenon DEF T

\* Without the first clearCount records
LEMMA KeptLast ==
  ASSUME NEW q \in Seq(Number), NEW w, w = <<Version>> \o q, NEW c \in Nat
  PROVE  Kept(w, -1, c) = <<Version>> \o SubSeq(q, c + 1, Len(q))
<1>1. PICK h : Copying(h, q, w, -1, c)
  BY KeptIs, Zenon
<1>2. /\ h[0] = <<Version>>
      /\ \A n \in 1..Len(q) : h[n] = Copied(h[n - 1], q, n, -1, c)
      /\ Kept(w, -1, c) = h[Len(q)]
  BY <1>1, Zenon DEF Copying
<1> DEFINE P(x, n) == x = <<Version>> \o SubSeq(q, c + 1, n)
           T == {n \in 0..Len(q) : P(h[n], n)}
<1>3. \A n \in Int : n < c + 1 => SubSeq(q, c + 1, n) = <<>>
  <2>1. c + 1 \in Int
    OBVIOUS
  <2> QED
    BY <2>1, SubSeqEmpty, Zenon
<1>4. <<Version>> \o <<>> = <<Version>> /\ <<Version>> \in Seq(Number)
  BY RunsAreNumbers DEF Number, Version
<1>5. 0 \in T
  <2>1. 0 < c + 1 /\ 0 \in Int /\ 0 \in 0..Len(q)
    OBVIOUS
  <2> QED
    BY <1>2, <1>3, <1>4, <2>1, Zenon
<1>6. ASSUME NEW n \in 1..Len(q), n - 1 \in T
      PROVE  n \in T
  <2>1. P(h[n - 1], n - 1)
    BY <1>6
  <2>2. n \in 0..Len(q) /\ -1 # n /\ n \in Int /\ n - 1 \in Int /\ q[n] \in Number
    OBVIOUS
  <2>3. CASE n > c
    <3>1. c + 1 \in 1..n
      BY <2>3
    <3>2. Append(SubSeq(q, c + 1, n - 1), q[n]) = SubSeq(q, c + 1, n)
      BY <3>1, Extended, Zenon
    <3>3. SubSeq(q, c + 1, n - 1) \in Seq(Number)
      <4>1. \A i \in (c + 1)..(n - 1) : q[i] \in Number
        BY <3>1
      <4>2. c + 1 \in Int
        OBVIOUS
      <4> QED
        BY <2>2, <4>1, <4>2, SubSeqProperties, Zenon
    <3>4. h[n] = Append(h[n - 1], q[n])
      BY <1>2, <2>2, <2>3, Zenon DEF Copied
    <3>5. Append(h[n - 1], q[n]) = <<Version>> \o Append(SubSeq(q, c + 1, n - 1), q[n])
      <4>1. Lengthens(<<Version>>, SubSeq(q, c + 1, n - 1), q[n])
        BY <1>4, <2>2, <3>3, AppendConcat, Zenon
      <4> QED
        BY <2>1, <4>1 DEF Lengthens
    <3> QED
      BY <2>2, <3>2, <3>4, <3>5, Zenon
  <2>4. CASE ~(n > c)
    <3>1. n < c + 1 /\ n - 1 < c + 1
      BY <2>4
    <3>2. h[n] = h[n - 1]
      BY <1>2, <2>4, Zenon DEF Copied
    <3> QED
      BY <1>3, <2>1, <2>2, <3>1, <3>2, Zenon
  <2> QED
    BY <2>3, <2>4, Zenon
<1> HIDE DEF T
<1>7. Len(q) \in T
  <2>1. Len(q) \in Nat /\ Len(q) \in 0..Len(q)
    OBVIOUS
  <2> QED
    BY <1>5, <1>6, <2>1, Induction, Zenon
<1> QED
  BY <1>2, <1>7, Zenon DEF T

\* Without one record
LEMMA KeptOthers ==
  ASSUME NEW q \in Seq(Number), NEW w, w = <<Version>> \o q, NEW i \in 1..Len(q)
  PROVE  /\ Kept(w, i, -1) = <<Version>> \o RemoveAt(q, i)
         /\ RemoveAt(q, i) \in Seq(Number)
<1>1. PICK h : Copying(h, q, w, i, -1)
  BY KeptIs, Zenon
<1>2. /\ h[0] = <<Version>>
      /\ \A n \in 1..Len(q) : h[n] = Copied(h[n - 1], q, n, i, -1)
      /\ Kept(w, i, -1) = h[Len(q)]
  BY <1>1, Zenon DEF Copying
<1> DEFINE r(n) == IF n < i THEN SubSeq(q, 1, n)
                   ELSE SubSeq(q, 1, i - 1) \o SubSeq(q, i + 1, n)
           T == {n \in 0..Len(q) : h[n] = <<Version>> \o r(n)}
<1>3. \A m, n \in Int : n < m => SubSeq(q, m, n) = <<>>
  BY SubSeqEmpty, Zenon
<1>4. <<Version>> \o <<>> = <<Version>> /\ <<Version>> \in Seq(Number)
  BY RunsAreNumbers DEF Number, Version
<1>5. \A m \in 1..Len(q) + 1, n \in 0..Len(q) : SubSeq(q, m, n) \in Seq(Number)
  OBVIOUS
<1>6. 0 \in T
  <2>1. 0 < 1 /\ 0 \in Int /\ 1 \in Int /\ 0 \in 0..Len(q) /\ 0 < i
    OBVIOUS
  <2> QED
    BY <1>2, <1>3, <1>4, <2>1, Zenon
<1>7. ASSUME NEW n \in 1..Len(q), n - 1 \in T
      PROVE  n \in T
  <2>1. h[n - 1] = <<Version>> \o r(n - 1)
    BY <1>7
  <2>2. /\ n \in 0..Len(q) /\ n - 1 \in 0..Len(q) /\ n \in Int /\ n - 1 \in Int /\ n > -1
        /\ q[n] \in Number /\ 1 \in 1..Len(q) + 1 /\ i + 1 \in 1..Len(q) + 1
        /\ i - 1 \in 0..Len(q) /\ i + 1 \in Int
    OBVIOUS
  <2>3. CASE n = i
    <3>1. n - 1 < i /\ ~(n < i) /\ n < i + 1
      BY <2>3
    <3>2. h[n] = h[n - 1]
      BY <1>2, <2>3, Zenon DEF Copied
    <3>3. SubSeq(q, i + 1, n) = <<>>
      BY <1>3, <2>2, <3>1, Zenon
    <3>4. SubSeq(q, 1, i - 1) \o <<>> = SubSeq(q, 1, i - 1)
      BY <1>5, <2>2, ConcatEmptySeq, Zenon
    <3> QED
      BY <2>1, <2>2, <2>3, <3>1, <3>2, <3>3, <3>4, Zenon
  <2>4. CASE n < i
    <3>1. n - 1 < i /\ 1 \in 1..n /\ i # n
      BY <2>4
    <3>2. Append(SubSeq(q, 1, n - 1), q[n]) = SubSeq(q, 1, n)
      BY <3>1, Extended, Zenon
    <3>3. SubSeq(q, 1, n - 1) \in Seq(Number)
      BY <1>5, <2>2, Zenon
    <3>4. h[n] = Append(h[n - 1], q[n])
      BY <1>2, <2>2, <3>1, Zenon DEF Copied
    <3>5. h[n - 1] = <<Version>> \o SubSeq(q, 1, n - 1)
      BY <2>1, <3>1, Zenon
    <3>6. Append(h[n - 1], q[n]) = <<Version>> \o Append(SubSeq(q, 1, n - 1), q[n])
      <4>1. Lengthens(<<Version>>, SubSeq(q, 1, n - 1), q[n])
        BY <1>4, <2>2, <3>3, AppendConcat, Zenon
      <4> QED
        BY <3>5, <4>1 DEF Lengthens
    <3> QED
      BY <2>2, <2>4, <3>2, <3>4, <3>6, Zenon
  <2>5. CASE n > i
    <3>1. ~(n - 1 < i) /\ ~(n < i) /\ i + 1 \in 1..n /\ i # n
      BY <2>5
    <3> DEFINE a == SubSeq(q, 1, i - 1)
               b == SubSeq(q, i + 1, n - 1)
    <3>2. Append(b, q[n]) = SubSeq(q, i + 1, n)
      BY <3>1, Extended, Zenon
    <3>3. a \in Seq(Number) /\ b \in Seq(Number)
      BY <1>5, <2>2, Zenon
    <3>4. h[n] = Append(h[n - 1], q[n])
      BY <1>2, <2>2, <3>1, Zenon DEF Copied
    <3>5. h[n - 1] = <<Version>> \o (a \o b)
      BY <2>1, <3>1, Zenon
    <3>6. r(n) = a \o SubSeq(q, i + 1, n)
      BY <3>1, Zenon
    <3> HIDE DEF a, b, r
    <3>7. a \o b \in Seq(Number)
      BY <3>3
    <3>8. Append(a \o b, q[n]) = a \o Append(b, q[n])
      BY <2>2, <3>3, AppendConcat, Zenon DEF Lengthens
    <3>9. Append(h[n - 1], q[n]) = <<Version>> \o Append(a \o b, q[n])
      <4>1. Lengthens(<<Version>>, a \o b, q[n])
        BY <1>4, <2>2, <3>7, AppendConcat, Zenon
      <4> QED
        BY <3>5, <4>1 DEF Lengthens
    <3> QED
      BY <2>2, <3>2, <3>4, <3>6, <3>8, <3>9, Zenon
  <2>6. n = i \/ n < i \/ n > i
    OBVIOUS
  <2> QED
    BY <2>3, <2>4, <2>5, <2>6, Zenon
<1> HIDE DEF T
<1>8. Len(q) \in T
  <2>1. Len(q) \in Nat /\ Len(q) \in 0..Len(q)
    OBVIOUS
  <2> QED
    BY <1>6, <1>7, <2>1, Induction, Zenon
<1>9. RemoveAt(q, i) = SubSeq(q, 1, i - 1) \o SubSeq(q, i + 1, Len(q))
  BY Zenon DEF RemoveAt
<1>10. r(Len(q)) = RemoveAt(q, i)
  <2>1. ~(Len(q) < i)
    OBVIOUS
  <2> QED
    BY <1>9, <2>1, Zenon
<1>11. RemoveAt(q, i) \in Seq(Number)
  <2>1. SubSeq(q, 1, i - 1) \in Seq(Number) /\ SubSeq(q, i + 1, Len(q)) \in Seq(Number)
    OBVIOUS
  <2> QED
    BY <1>9, <2>1
<1> HIDE DEF r
<1> QED
  BY <1>2, <1>8, <1>10, <1>11, Zenon DEF T

-----------------------------------------------------------------------------
(* Sessions added to a history and taken from it                             *)

LEMMA Removed ==
  ASSUME NEW s \in Seq(Run), NEW i \in 1..Len(s)
  PROVE  /\ RemoveAt(s, i) \in Seq(Run) /\ Len(RemoveAt(s, i)) = Len(s) - 1
         /\ \A k \in 1..Len(s) : k # i => s[k] \in Range(RemoveAt(s, i))
<1> DEFINE a == SubSeq(s, 1, i - 1)
           b == SubSeq(s, i + 1, Len(s))
<1>1. RemoveAt(s, i) = a \o b
  BY Zenon DEF RemoveAt
<1>2. /\ a \in Seq(Run) /\ Len(a) = i - 1
      /\ b \in Seq(Run) /\ Len(b) = Len(s) - i
      /\ \A k \in 1..(i - 1) : a[k] = s[k]
      /\ \A k \in (i + 1)..Len(s) : b[k - i] = s[k]
  <2>1. a \in Seq(Run) /\ Len(a) = i - 1
    OBVIOUS
  <2>2. b \in Seq(Run) /\ Len(b) = Len(s) - i
    OBVIOUS
  <2>3. \A k \in 1..(i - 1) : a[k] = s[k]
    OBVIOUS
  <2>4. \A k \in (i + 1)..Len(s) : b[k - i] = s[k]
    OBVIOUS
  <2> HIDE DEF a, b
  <2> QED
    BY <2>1, <2>2, <2>3, <2>4, Zenon
<1> HIDE DEF a, b
<1>3. /\ a \o b \in Seq(Run) /\ Len(a \o b) = Len(s) - 1
      /\ \A k \in 1..(i - 1) : (a \o b)[k] = s[k]
      /\ \A k \in (i + 1)..Len(s) : (a \o b)[k - 1] = s[k]
  <2>1. /\ a \o b \in Seq(Run) /\ Len(a \o b) = Len(a) + Len(b)
        /\ \A k \in 1..(Len(a) + Len(b)) :
             (a \o b)[k] = IF k <= Len(a) THEN a[k] ELSE b[k - Len(a)]
    BY <1>2, ConcatProperties
  <2>2. ASSUME NEW k \in (i + 1)..Len(s)
        PROVE  (a \o b)[k - 1] = s[k]
    <3>1. k - 1 \in 1..(Len(a) + Len(b)) /\ ~(k - 1 <= Len(a)) /\ k - 1 - Len(a) = k - i
      BY <1>2
    <3> QED
      BY <1>2, <2>1, <3>1
  <2>3. ASSUME NEW k \in 1..(i - 1)
        PROVE  (a \o b)[k] = s[k]
    BY <1>2, <2>1
  <2>4. Len(a \o b) = Len(s) - 1
    BY <1>2, <2>1
  <2> QED
    BY <2>1, <2>2, <2>3, <2>4, Zenon
<1>4. ASSUME NEW k \in 1..Len(s), k # i
      PROVE  s[k] \in Range(a \o b)
  <2>1. DOMAIN (a \o b) = 1..(Len(s) - 1)
    BY <1>3
  <2>2. CASE k < i
    <3>1. k \in 1..(i - 1) /\ k \in 1..(Len(s) - 1)
      BY <2>2
    <3> QED
      BY <1>3, <2>1, <3>1, Zenon DEF Range
  <2>3. CASE k > i
    <3>1. k \in (i + 1)..Len(s) /\ k - 1 \in 1..(Len(s) - 1)
      BY <2>3
    <3> QED
      BY <1>3, <2>1, <3>1, Zenon DEF Range
  <2>4. k < i \/ k > i
    BY <1>4
  <2> QED
    BY <2>2, <2>3, <2>4, Zenon
<1> QED
  BY <1>1, <1>3, <1>4

LEMMA RangeAppend ==
  ASSUME NEW q \in Seq(Number), NEW r \in Number
  PROVE  Range(Append(q, r)) = Range(q) \cup {r}
<1> DEFINE p == Append(q, r)
           n == Len(q) + 1
<1>1. /\ DOMAIN q = 1..Len(q) /\ DOMAIN p = 1..n /\ p[n] = r /\ n \in 1..n
      /\ \A k \in 1..Len(q) : p[k] = q[k] /\ k \in 1..n
      /\ \A k \in 1..n : k = n \/ k \in 1..Len(q)
  <2>1. DOMAIN q = 1..Len(q) /\ DOMAIN p = 1..n /\ p[n] = r
    OBVIOUS
  <2>2. \A k \in 1..Len(q) : p[k] = q[k]
    OBVIOUS
  <2>3. Len(q) \in Nat
    OBVIOUS
  <2> HIDE DEF p
  <2>4. n \in 1..n /\ \A k \in 1..Len(q) : k \in 1..n
    BY <2>3
  <2>5. \A k \in 1..n : k = n \/ k \in 1..Len(q)
    BY <2>3
  <2> QED
    BY <2>1, <2>2, <2>4, <2>5, Zenon
<1> HIDE DEF p, n
<1>2. Range(p) \subseteq Range(q) \cup {r}
  <2> SUFFICES ASSUME NEW k \in 1..n
               PROVE  p[k] \in Range(q) \cup {r}
    BY <1>1, Zenon DEF Range
  <2> QED
    BY <1>1, Zenon DEF Range
<1>3. Range(q) \subseteq Range(p)
  <2> SUFFICES ASSUME NEW k \in 1..Len(q)
               PROVE  q[k] \in Range(p)
    BY <1>1, Zenon DEF Range
  <2> QED
    BY <1>1, Zenon DEF Range
<1>4. r \in Range(p)
  BY <1>1, Zenon DEF Range
<1> QED
  BY <1>2, <1>3, <1>4 DEF p

LEMMA Appended ==
  ASSUME NEW s \in Seq(Run), NEW r \in Run
  PROVE  /\ Append(s, r) \in Seq(Run) /\ Append(s, r) # <<>>
         /\ Range(Append(s, r)) = Range(s) \cup {r}
<1>1. Append(s, r) \in Seq(Run) /\ Append(s, r) # <<>>
  <2>1. Append(s, r) \in Seq(Run) /\ Len(Append(s, r)) = Len(s) + 1 /\ Len(s) \in Nat
    OBVIOUS
  <2>2. Len(Append(s, r)) # 0 /\ Len(<<>>) = 0
    BY <2>1
  <2> QED
    BY <2>1, <2>2, Zenon
<1>2. s \in Seq(Number) /\ r \in Number
  BY RunsAreContents, RunsAreNumbers
<1> QED
  BY <1>1, <1>2, RangeAppend, Zenon

\* The oldest makes room for the newest.
LEMMA Shifted ==
  ASSUME NEW s \in Seq(Run), s # <<>>, NEW r \in Run
  PROVE  /\ Tail(s) \in Seq(Run)
         /\ RemoveAt(Append(s, r), 1) = Append(Tail(s), r)
         /\ Range(s) \ {Head(s)} \subseteq Range(Append(Tail(s), r))
<1>1. Tail(s) \in Seq(Run) /\ Len(s) \in Nat \ {0} /\ Head(s) = s[1]
  OBVIOUS
<1> DEFINE q == Append(s, r)
<1>2. q \in Seq(Run) /\ Len(q) = Len(s) + 1 /\ 1 \in Int /\ Len(q) \in Nat
  OBVIOUS
<1>3. RemoveAt(q, 1) = SubSeq(q, 1, 1 - 1) \o SubSeq(q, 1 + 1, Len(q))
  BY Zenon DEF RemoveAt
<1>4. /\ SubSeq(q, 1, 1 - 1) = <<>>
      /\ SubSeq(q, 1 + 1, Len(q)) = Append(Tail(s), r)
      /\ Append(Tail(s), r) \in Seq(Run)
  <2>1. SubSeq(q, 1, 1 - 1) = <<>>
    BY <1>2, SubSeqEmpty
  <2> DEFINE a == SubSeq(q, 1 + 1, Len(q))
             b == Append(Tail(s), r)
  <2>2. /\ a \in Seq(Run) /\ Len(a) = Len(s)
        /\ \A k \in 1..Len(s) : a[k] = q[k + 1]
    BY <1>1, <1>2
  <2>3. /\ b \in Seq(Run) /\ Len(b) = Len(s)
        /\ \A k \in 1..Len(s) : b[k] = IF k = Len(s) THEN r ELSE s[k + 1]
    BY <1>1
  <2>4. \A k \in 1..Len(s) : q[k + 1] = IF k = Len(s) THEN r ELSE s[k + 1]
    BY <1>1
  <2> HIDE DEF a, b, q
  <2>5. a = b
    BY <2>2, <2>3, <2>4
  <2> QED
    BY <2>1, <2>3, <2>5 DEF a, b
<1>5. RemoveAt(q, 1) = Append(Tail(s), r)
  BY <1>3, <1>4
<1>6. Range(Append(Tail(s), r)) = Range(Tail(s)) \cup {r}
  BY <1>1, Appended
<1>7. ASSUME NEW k \in DOMAIN s, s[k] # Head(s)
      PROVE  s[k] \in Range(Tail(s))
  <2>1. k - 1 \in DOMAIN Tail(s) /\ Tail(s)[k - 1] = s[k]
    BY <1>1, <1>7
  <2> QED
    BY <2>1 DEF Range
<1>8. Range(s) \ {Head(s)} \subseteq Range(Tail(s))
  BY <1>7, Zenon DEF Range
<1> QED
  BY <1>1, <1>5, <1>6, <1>8

-----------------------------------------------------------------------------
(* The file and the history                                                  *)

\* The file holds the history h and nothing else.
Agrees(w, h) == w = <<Version>> \o h \/ (w = <<>> /\ h = <<>>)

LEMMA AgreesSessions ==
  ASSUME NEW h \in Seq(Run), NEW w, Agrees(w, h)
  PROVE  Sessions(w) = h
BY FileSessions, NoSessions, Zenon DEF Agrees

\* The word of a run behind a file without a header, with it, and behind one that
\* gets another header in its middle
LEMMA SavedFirst ==
  ASSUME NEW r \in Run
  PROVE  (<<>> \o <<Version>>) \o <<r>> = <<Version>> \o Append(<<>>, r)
BY RunsAreNumbers

LEMMA SavedNext ==
  ASSUME NEW q \in Seq(Number), NEW r \in Run
  PROVE  /\ ((<<Version>> \o q) \o <<>>) \o <<r>> = <<Version>> \o Append(q, r)
         /\ Append(q, r) \in Seq(Number)
<1> DEFINE w == <<Version>> \o q
<1>1. w \in Seq(Word) /\ r \in Number /\ r \in Word
  <2>1. w \in Seq(Word)
    BY FileParts
  <2> QED
    BY <2>1, RunsAreNumbers
<1>2. <<Version>> \in Seq(Number)
  BY RunsAreNumbers DEF Number, Version
<1>3. Lengthens(<<Version>>, q, r)
  BY <1>1, <1>2, AppendConcat, Zenon
<1> HIDE DEF w
<1>4. w \o <<>> = w
  BY <1>1, ConcatEmptySeq, Zenon
<1>5. Append(w, r) = w \o <<r>>
  BY <1>1, AppendIsConcat, Zenon
<1> QED
  BY <1>3, <1>4, <1>5 DEF w, Lengthens

LEMMA SavedTwice ==
  ASSUME NEW q \in Seq(Number), NEW r \in Run
  PROVE  ((<<Version>> \o q) \o <<Version>>) \o <<r>> \in Started
<1> DEFINE w == <<Version>> \o q
           p == Append(q, Version)
<1>1. w \in Seq(Word) /\ r \in Number /\ r \in Word /\ Version \in Number /\ Version \in Word
  <2>1. w \in Seq(Word)
    BY FileParts
  <2> QED
    BY <2>1, RunsAreNumbers DEF Number, Version
<1>2. <<Version>> \in Seq(Number) /\ p \in Seq(Number)
  BY <1>1
<1>3. Lengthens(<<Version>>, q, Version) /\ Lengthens(<<Version>>, p, r)
  BY <1>1, <1>2, AppendConcat, Zenon
<1>4. Append(w, Version) = w \o <<Version>>
  <2> HIDE DEF w
  <2> QED
    BY <1>1, AppendIsConcat, Zenon
<1>5. Append(<<Version>> \o p, r) = (<<Version>> \o p) \o <<r>>
  <2>1. <<Version>> \o p \in Seq(Word)
    BY <1>2, FileParts
  <2> HIDE DEF p
  <2> QED
    BY <1>1, <2>1, AppendIsConcat, Zenon
<1>6. (w \o <<Version>>) \o <<r>> = <<Version>> \o Append(p, r)
  <2>1. w \o <<Version>> = <<Version>> \o p
    BY <1>3, <1>4 DEF Lengthens
  <2> HIDE DEF w, p
  <2> QED
    BY <1>3, <1>5, <2>1 DEF Lengthens
<1>7. Append(p, r) \in Seq(Number)
  BY <1>3 DEF Lengthens
<1> HIDE DEF p
<1> QED
  BY <1>6, <1>7, Zenon DEF Started

\* What a save writes still agrees, with the history that gets the run, unless it
\* puts another header behind what is there.
SavedFile(w, header, r) == (w \o (IF header THEN <<Version>> ELSE <<>>)) \o <<r>>

LEMMA SavedAgrees ==
  ASSUME NEW w \in FileType, w # <<OtherVersion>>, NEW header \in BOOLEAN, w = <<>> => header,
         NEW h \in Seq(Run), NEW r \in Run
  PROVE  /\ SavedFile(w, header, r) \in Started
         /\ Agrees(w, h) /\ ~(header /\ w # <<>>)
              => Agrees(SavedFile(w, header, r), Append(h, r))
<1>1. CASE w = <<>>
  <2>1. SavedFile(w, header, r) = <<Version>> \o Append(<<>>, r)
    BY <1>1, SavedFirst, Zenon DEF SavedFile
  <2>2. Append(<<>>, r) \in Seq(Run) /\ Append(<<>>, r) \in Seq(Number)
    BY RunsAreNumbers
  <2>3. SavedFile(w, header, r) \in Started
    BY <2>1, <2>2, Zenon DEF Started
  <2>4. ASSUME Agrees(w, h)
        PROVE  Agrees(SavedFile(w, header, r), Append(h, r))
    <3>1. Sessions(w) = h
      BY <2>4, AgreesSessions, Zenon
    <3>2. h = <<>>
      BY <1>1, <3>1, NoSessions, Zenon
    <3> QED
      BY <2>1, <3>2, Zenon DEF Agrees
  <2> QED
    BY <2>3, <2>4
<1>2. ASSUME NEW q \in Seq(Number), w = <<Version>> \o q, ~header
      PROVE  /\ SavedFile(w, header, r) \in Started
             /\ Agrees(w, h) => Agrees(SavedFile(w, header, r), Append(h, r))
  <2>1. SavedFile(w, header, r) = <<Version>> \o Append(q, r) /\ Append(q, r) \in Seq(Number)
    BY <1>2, SavedNext DEF SavedFile
  <2>2. SavedFile(w, header, r) \in Started
    BY <2>1, Zenon DEF Started
  <2>3. ASSUME Agrees(w, h)
        PROVE  Agrees(SavedFile(w, header, r), Append(h, r))
    <3>1. w # <<>> /\ Tail(w) = q
      BY <1>2, FileParts, Zenon
    <3>2. w = <<Version>> \o h
      BY <2>3, <3>1, Zenon DEF Agrees
    <3>3. Tail(w) = h
      BY <3>2, RunsAreContents, FileParts, Zenon
    <3> QED
      BY <2>1, <3>1, <3>3, Zenon DEF Agrees
  <2> QED
    BY <2>2, <2>3
<1>3. ASSUME NEW q \in Seq(Number), w = <<Version>> \o q, header
      PROVE  SavedFile(w, header, r) \in Started /\ w # <<>>
  <2>1. SavedFile(w, header, r) = ((<<Version>> \o q) \o <<Version>>) \o <<r>>
    BY <1>3, Zenon DEF SavedFile
  <2>2. SavedFile(w, header, r) \in Started
    BY <2>1, SavedTwice, Zenon
  <2>3. w # <<>>
    BY <1>3, FileParts, Zenon
  <2> QED
    BY <2>2, <2>3
<1>4. w = <<>> \/ \E q \in Seq(Number) : w = <<Version>> \o q
  BY DEF FileType, Started
<1> QED
  BY <1>1, <1>2, <1>3, <1>4

-----------------------------------------------------------------------------
(* The inductive invariant.  While a Save or a Delete is under way the file  *)
(* that counts is the temporary one, and the history to compare it with the  *)
(* one that there will be when it is done.                                   *)

Dir(d) == DOMAIN d \subseteq File /\ \A f \in DOMAIN d : d[f] \in FileType

Stage == {"written", "removed", "renamed"}
AnyJob == [op : {"save", "evict", "delete", "clear", "prune"}, arg : Nat,
           stage : {"new"} \cup Stage]
JobType == {j \in AnyJob : j.stage \in Stage}

Pending(j) == j # None /\ j.stage \in {"written", "removed"}

Current(d, t, j, f) == IF Pending(j) THEN t[f] ELSE d[f]

After(h, j) ==
  CASE j.op = "save" -> Append(h, j.arg)
    [] j.op = "evict" -> Append(Tail(h), j.arg)
    [] j.op = "delete" -> RemoveAt(h, j.arg)
    [] j.op = "clear" -> <<>>
    [] OTHER -> h

Possible(j, v) ==
  /\ j.op \in {"save", "evict"} => j.arg \in Run
  /\ j.op = "evict" => Full(v)
  /\ j.op = "delete" => j.arg \in 1..Len(v.history)

Typed ==
  /\ Dir(disk) /\ Dir(tmp)
  /\ up \in BOOLEAN /\ fileNotExist \in BOOLEAN /\ astray \in BOOLEAN
  /\ name \in File /\ vector \in Vector
  /\ job \in {None} \cup JobType
  /\ runs \in Run /\ crashes \in 0..MaxCrashes

Stopped == ~up => job = None /\ vector = Empty

Placed ==
  up => /\ Pending(job) => name \in DOMAIN tmp
        /\ (job # None /\ job.stage = "removed") \/ name \in DOMAIN disk
        /\ Current(disk, tmp, job, name) # <<OtherVersion>>
        /\ Current(disk, tmp, job, name) = <<>> => fileNotExist
        /\ job # None => Possible(job, vector)

InStep ==
  up /\ ~astray => Agrees(Current(disk, tmp, job, name), After(vector.history, job))

\* Nothing of the history is missing from the file that is about to be replaced.
InFile ==
  up /\ ~astray /\ job # None /\ job.stage = "written"
    => Range(vector.history) \subseteq Range(Sessions(disk[name]))

IInv == Typed /\ Stopped /\ Placed /\ InStep /\ InFile

\* e is the directory d with w in the file f.
Rewritten(d, e, f, w) ==
  /\ Dir(e) /\ f \in DOMAIN e /\ e[f] = w
  /\ DOMAIN d \subseteq DOMAIN e
  /\ \A g \in DOMAIN d : g # f => e[g] = d[g]

LEMMA WithDir ==
  ASSUME NEW d, Dir(d), NEW f \in File, NEW w \in FileType, NEW e, e = With(d, f, w)
  PROVE  Rewritten(d, e, f, w)
<1>1. /\ DOMAIN e = DOMAIN d \cup {f} /\ e[f] = w
      /\ \A g \in DOMAIN d : g # f => e[g] = d[g]
  <2>1. e = [g \in DOMAIN d \cup {f} |-> IF g = f THEN w ELSE d[g]]
    BY Zenon DEF With
  <2> QED
    BY <2>1
<1>2. Dir(e)
  BY <1>1, Zenon DEF Dir
<1> QED
  BY <1>1, <1>2 DEF Rewritten

LEMMA WithoutDir ==
  ASSUME NEW d, Dir(d), NEW f
  PROVE  Dir(Without(d, f))
<1> DEFINE e == Without(d, f)
<1>1. DOMAIN e = DOMAIN d \ {f} /\ \A g \in DOMAIN d : g # f => e[g] = d[g]
  BY Zenon DEF Without
<1> HIDE DEF e
<1>2. Dir(e)
  BY <1>1, Zenon DEF Dir
<1> QED
  BY <1>2 DEF e

LEMMA VectorParts ==
  ASSUME NEW v \in Vector
  PROVE  /\ v.history \in Seq(Run) /\ v.curIndex \in 0..HistorySize
         /\ Len(v.history) <= v.curIndex /\ Len(v.history) \in Nat
BY DEF Vector

\* No job leaves the history as it is.
LEMMA NoJob ==
  ASSUME NEW h
  PROVE  After(h, None) = h /\ ~Pending(None) /\ None \notin JobType
<1>1. None.op = "none"
  BY DEF None
<1>2. After(h, None) = h
  BY <1>1 DEF After
<1>3. None \notin AnyJob
  BY DEF None, AnyJob
<1> QED
  BY <1>2, <1>3, Zenon DEF JobType, Pending

LEMMA AfterType ==
  ASSUME NEW v \in Vector, NEW j \in {None} \cup JobType, j # None => Possible(j, v)
  PROVE  After(v.history, j) \in Seq(Run)
<1>1. v.history \in Seq(Run)
  BY VectorParts
<1>2. CASE j = None
  BY <1>1, <1>2, NoJob
<1>3. CASE j # None
  <2>1. Possible(j, v)
    BY <1>3
  <2>2. CASE j.op = "save"
    BY <1>1, <2>1, <2>2, Appended DEF After, Possible
  <2>3. CASE j.op = "evict"
    <3>1. v.history # <<>> /\ j.arg \in Run
      BY <2>1, <2>3 DEF Possible, Full
    <3>2. Append(Tail(v.history), j.arg) \in Seq(Run)
      BY <1>1, <3>1
    <3> QED
      BY <2>3, <3>2 DEF After
  <2>4. CASE j.op = "delete"
    BY <1>1, <2>1, <2>4, Removed DEF After, Possible
  <2>5. CASE j.op \notin {"save", "evict", "delete"}
    BY <1>1, <2>5 DEF After
  <2> QED
    BY <2>2, <2>3, <2>4, <2>5
<1> QED
  BY <1>2, <1>3

\* A job's stage says nothing on what is left after it.
Staged(j, k, s, v) ==
  /\ k \in JobType /\ k # None /\ k.stage = s /\ k.op = j.op /\ k.arg = j.arg
  /\ After(v.history, k) = After(v.history, j) /\ Possible(k, v) = Possible(j, v)

LEMMA StageOnly ==
  ASSUME NEW j \in AnyJob, NEW s \in Stage, NEW v, NEW k, k = [j EXCEPT !.stage = s]
  PROVE  Staged(j, k, s, v)
<1>1. k \in AnyJob /\ k.stage = s /\ k.op = j.op /\ k.arg = j.arg
  BY DEF AnyJob
<1>2. k \in JobType /\ k # None
  BY <1>1, NoJob, Zenon DEF JobType
<1>3. After(v.history, k) = After(v.history, j)
  BY <1>1, Zenon DEF After
<1>4. Possible(k, v) = Possible(j, v)
  BY <1>1, Zenon DEF Possible
<1> QED
  BY <1>1, <1>2, <1>3, <1>4, Zenon DEF Staged

LEMMA JobParts ==
  ASSUME NEW j \in JobType
  PROVE  j \in AnyJob /\ j.stage \in Stage /\ j # None
BY NoJob, Zenon DEF JobType

\* The file in use, between two jobs
LEMMA Idle ==
  ASSUME Typed, Placed, up, job = None \/ job.stage = "renamed"
  PROVE  /\ ~Pending(job) /\ Current(disk, tmp, job, name) = disk[name]
         /\ name \in DOMAIN disk /\ disk[name] \in FileType
         /\ disk[name] # <<OtherVersion>> /\ (disk[name] = <<>> => fileNotExist)
<1>1. ~Pending(job) /\ (job # None => job.stage # "removed")
  BY DEF Pending
<1> QED
  BY <1>1, Zenon DEF Typed, Dir, Placed, Current

-----------------------------------------------------------------------------
(* Every step preserves it.                                                  *)

LEMMA InitHolds == Init => IInv
<1> SUFFICES ASSUME Init
             PROVE  IInv
  OBVIOUS
<1>1. /\ up = FALSE /\ name = Default /\ fileNotExist = FALSE /\ tmp = <<>>
      /\ vector = Empty /\ astray = FALSE /\ job = None /\ runs = 1 /\ crashes = 0
  BY DEF Init
<1>2. PICK F \in SUBSET File : disk \in [F -> {<<>>, <<Version, 1>>, <<OtherVersion>>}]
  BY DEF Init
<1>3. {<<>>, <<Version, 1>>, <<OtherVersion>>} \subseteq FileType
  <2>1. <<1>> \in Seq(Number) /\ <<Version, 1>> = <<Version>> \o <<1>>
    <3>1. 1 \in Number
      BY SizeAssumption DEF Number
    <3> QED
      BY <3>1
  <2>2. <<Version, 1>> \in Started
    BY <2>1, Zenon DEF Started
  <2> QED
    BY <2>2, Zenon DEF FileType
<1>4. Dir(disk)
  BY <1>2, <1>3, Zenon DEF Dir
<1>5. Dir(tmp)
  BY <1>1 DEF Dir
<1>6. runs \in Run /\ crashes \in 0..MaxCrashes
  BY <1>1, SizeAssumption DEF Run
<1>7. Typed
  BY <1>1, <1>4, <1>5, <1>6, EmptyVector, FileAssumption DEF Typed
<1> QED
  BY <1>1, <1>7, Zenon DEF IInv, Stopped, Placed, InStep, InFile

LEMMA StopHolds ==
  ASSUME Stop, Dir(disk'), Dir(tmp'), runs' \in Run, crashes' \in 0..MaxCrashes
  PROVE  IInv'
<1>1. /\ up' = FALSE /\ name' = Default /\ fileNotExist' = FALSE /\ vector' = Empty
      /\ astray' = FALSE /\ job' = None
  BY DEF Stop
<1>2. Typed'
  BY <1>1, EmptyVector, FileAssumption DEF Typed
<1> QED
  BY <1>1, <1>2, Zenon DEF IInv, Stopped, Placed, InStep, InFile

\* What the file that is opened holds
LEMMA OpenFile ==
  ASSUME NEW w \in FileType, Readable(w)
  PROVE  w = <<>> \/ \E q \in Seq(Run) : w = <<Version>> \o q /\ Len(w) = Len(q) + 1
<1>1. w # <<OtherVersion>>
  BY DEF Readable, Version, OtherVersion
<1>2. CASE w \in Started
  <2>1. PICK q \in Seq(Number) : w = <<Version>> \o q
    BY <1>2, Zenon DEF Started
  <2>2. q \in Seq(Run) /\ Len(w) = Len(q) + 1
    BY <2>1, FileReadable, FileParts
  <2> QED
    BY <2>1, <2>2
<1> QED
  BY <1>1, <1>2 DEF FileType

LEMMA PushedNone ==
  ASSUME NEW v \in Vector
  PROVE  Pushed(v, <<>>) = v
<1>1. <<>> \in Seq(Run) /\ Len(<<>>) = 0
  OBVIOUS
<1>2. PICK h : Pushing(h, v, <<>>)
  BY <1>1, PushedIs, Zenon
<1> QED
  BY <1>1, <1>2, Zenon DEF Pushing

\* Loading, into an empty history or one that holds what was read of a file that
\* cannot be read
LEMMA OpenHolds ==
  ASSUME IInv, NEW f \in File, NEW v \in Vector, Open(f, v), UNCHANGED <<runs, crashes>>
  PROVE  IInv'
<1> DEFINE w == IF f \in DOMAIN disk THEN disk[f] ELSE <<>>
           count == Len(w) - 1 - HistorySize
<1>1. /\ Readable(w) /\ disk' = With(disk, f, w) /\ up' = TRUE /\ name' = f
      /\ fileNotExist' = (w = <<>> \/ fileNotExist) /\ vector' = Pushed(v, Sessions(w))
      /\ astray' = (v # Empty)
      /\ count > 0 => /\ tmp' = With(tmp, f, Kept(w, -1, count))
                      /\ job' = [Job("prune", 0) EXCEPT !.stage = "written"]
      /\ ~(count > 0) => job' = None /\ tmp' = tmp
  BY Zenon DEF Open
<1>2. /\ Dir(disk) /\ Dir(tmp) /\ runs' \in Run /\ crashes' \in 0..MaxCrashes
      /\ fileNotExist \in BOOLEAN
  BY Zenon DEF IInv, Typed
<1>3. w \in FileType
  BY <1>2, Zenon DEF Dir, FileType
<1> HIDE DEF w
<1>4. Dir(disk') /\ f \in DOMAIN disk' /\ disk'[f] = w
  <2>1. Rewritten(disk, disk', f, w)
    BY <1>1, <1>2, <1>3, WithDir, Zenon
  <2> QED
    BY <2>1, Zenon DEF Rewritten
<1>5. fileNotExist' \in BOOLEAN /\ astray' \in BOOLEAN
  BY <1>1, <1>2
<1>6. Sessions(w) \in Seq(Run)
  BY <1>3, SessionsType
<1>7. vector' \in Vector
  BY <1>1, <1>6, PushedType, Zenon
<1>8. CASE w = <<>>
  <2>1. ~(count > 0)
    BY <1>8, SizeAssumption
  <2>2. job' = None /\ tmp' = tmp
    BY <1>1, <2>1, Zenon
  <2>3. vector' = v
    BY <1>1, <1>8, NoSessions, PushedNone, Zenon
  <2>4. Typed'
    BY <1>1, <1>2, <1>4, <1>5, <1>7, <2>2, Zenon DEF Typed
  <2>5. ~Pending(job') /\ After(vector'.history, job') = vector'.history
    BY <2>2, NoJob, Zenon
  <2>6. Current(disk', tmp', job', name') = <<>>
    BY <1>1, <1>4, <1>8, <2>5, Zenon DEF Current
  <2>7. <<>> # <<OtherVersion>>
    OBVIOUS
  <2>8. Placed'
    BY <1>1, <1>4, <1>8, <2>2, <2>5, <2>6, <2>7, Zenon DEF Placed
  <2>9. InStep'
    <3> SUFFICES ASSUME v = Empty
                 PROVE  Agrees(<<>>, v.history)
      BY <1>1, <2>3, <2>5, <2>6, Zenon DEF InStep
    <3> QED
      BY EmptyVector, Zenon DEF Agrees
  <2>10. InFile'
    BY <2>2, Zenon DEF InFile
  <2> QED
    BY <1>1, <2>4, <2>8, <2>9, <2>10, Zenon DEF IInv, Stopped
<1>9. ASSUME NEW q \in Seq(Run), w = <<Version>> \o q, Len(w) = Len(q) + 1
      PROVE  IInv'
  <2>1. q \in Seq(Number) /\ w # <<OtherVersion>> /\ w # <<>> /\ Sessions(w) = q
    <3>1. q \in Seq(Number)
      BY RunsAreContents
    <3>2. w # <<OtherVersion>> /\ w # <<>>
      BY <1>9, <3>1, FileParts, Zenon
    <3> QED
      BY <1>9, <3>1, <3>2, FileSessions, Zenon
  <2>2. count = Len(q) - HistorySize /\ Len(q) \in Nat /\ HistorySize \in Nat
    BY <1>9, SizeAssumption
  <2>3. v = Empty => vector'.history =
          IF Len(q) > HistorySize THEN SubSeq(q, Len(q) - HistorySize + 1, Len(q)) ELSE q
    BY <1>1, <2>1, PushedLast, Zenon
  <2>4. CASE count > 0
    <3> DEFINE p == SubSeq(q, count + 1, Len(q))
               x == Kept(w, -1, count)
    <3>0. v = Empty => vector'.history = p
      <4>1. Len(q) > HistorySize /\ Len(q) - HistorySize + 1 = count + 1
        BY <2>2, <2>4 DEF count
      <4> QED
        BY <2>3, <4>1
    <3>1. count \in Nat
      BY <2>2, <2>4
    <3> HIDE DEF count
    <3>2. x = <<Version>> \o p
      BY <1>9, <2>1, <3>1, KeptLast, Zenon
    <3>3. p \in Seq(Run)
      BY <2>2, <3>1
    <3>4. x \in Started /\ x # <<>> /\ x # <<OtherVersion>>
      <4>1. p \in Seq(Number)
        BY <3>3, RunsAreContents
      <4> HIDE DEF p
      <4> QED
        BY <3>2, <4>1, FileParts, Zenon DEF Started
    <3> HIDE DEF x
    <3>5. tmp' = With(tmp, f, x) /\ job' = [Job("prune", 0) EXCEPT !.stage = "written"]
      BY <1>1, <2>4, Zenon DEF x
    <3>6. Dir(tmp') /\ f \in DOMAIN tmp' /\ tmp'[f] = x
      <4>1. x \in FileType
        BY <3>4, Zenon DEF FileType
      <4>2. Rewritten(tmp, tmp', f, x)
        BY <1>2, <3>5, <4>1, WithDir, Zenon
      <4> QED
        BY <4>2, Zenon DEF Rewritten
    <3>7. /\ job' \in JobType /\ job' # None /\ job'.stage = "written" /\ job'.op = "prune"
          /\ Pending(job')
      <4>1. Job("prune", 0) \in AnyJob /\ Job("prune", 0).op = "prune"
        BY DEF Job, AnyJob
      <4>2. "written" \in Stage
        BY DEF Stage
      <4>3. Staged(Job("prune", 0), job', "written", vector)
        BY <3>5, <4>1, <4>2, StageOnly, Zenon
      <4> QED
        BY <4>1, <4>3 DEF Staged, Pending
    <3>8. After(vector'.history, job') = vector'.history /\ Possible(job', vector')
      BY <3>7 DEF After, Possible
    <3>9. Current(disk', tmp', job', name') = x
      BY <1>1, <3>6, <3>7, Zenon DEF Current
    <3>10. Typed'
      BY <1>1, <1>2, <1>4, <1>5, <1>7, <3>6, <3>7, Zenon DEF Typed
    <3>11. Placed'
      BY <1>1, <1>4, <3>4, <3>6, <3>8, <3>9, <3>7 DEF Placed
    <3>12. InStep'
      <4> SUFFICES ASSUME v = Empty
                   PROVE  Agrees(x, vector'.history)
        BY <1>1, <3>8, <3>9, Zenon DEF InStep
      <4>1. vector'.history = p
        BY <3>0
      <4> HIDE DEF p
      <4> QED
        BY <3>2, <4>1, Zenon DEF Agrees
    <3>13. InFile'
      <4> SUFFICES ASSUME v = Empty
                   PROVE  Range(vector'.history) \subseteq Range(Sessions(disk'[f]))
        BY <1>1, Zenon DEF InFile
      <4>1. vector'.history = p
        BY <3>0
      <4>2. Range(p) \subseteq Range(q)
        <5>1. DOMAIN p = 1..(Len(q) - count) /\ DOMAIN q = 1..Len(q)
          BY <2>2, <3>1
        <5>2. \A k \in 1..(Len(q) - count) : p[k] = q[k + count] /\ k + count \in 1..Len(q)
          BY <2>2, <3>1
        <5> HIDE DEF p
        <5> QED
          BY <5>1, <5>2, Zenon DEF Range
      <4> HIDE DEF p
      <4> QED
        BY <1>4, <2>1, <4>1, <4>2, Zenon
    <3> QED
      BY <1>1, <3>10, <3>11, <3>12, <3>13, Zenon DEF IInv, Stopped
  <2>5. CASE ~(count > 0)
    <3>1. job' = None /\ tmp' = tmp
      BY <1>1, <2>5, Zenon
    <3>2. ~Pending(job') /\ After(vector'.history, job') = vector'.history
      BY <3>1, NoJob, Zenon
    <3>3. Current(disk', tmp', job', name') = w
      BY <1>1, <1>4, <3>2, Zenon DEF Current
    <3>4. Typed'
      BY <1>1, <1>2, <1>4, <1>5, <1>7, <3>1, Zenon DEF Typed
    <3>5. Placed'
      BY <1>1, <1>4, <2>1, <3>1, <3>2, <3>3, Zenon DEF Placed
    <3>6. InStep'
      <4> SUFFICES ASSUME v = Empty
                   PROVE  Agrees(w, vector'.history)
        BY <1>1, <3>2, <3>3, Zenon DEF InStep
      <4>1. ~(Len(q) > HistorySize)
        BY <2>2, <2>5
      <4>2. vector'.history = q
        BY <2>3, <4>1, Zenon
      <4> QED
        BY <1>9, <4>2, Zenon DEF Agrees
    <3>7. InFile'
      BY <3>1, Zenon DEF InFile
    <3> QED
      BY <1>1, <3>4, <3>5, <3>6, <3>7, Zenon DEF IInv, Stopped
  <2> QED
    BY <2>4, <2>5, Zenon
<1> QED
  BY <1>1, <1>3, <1>8, <1>9, OpenFile

\* The parts of the invariant, at the state a step starts from
LEMMA Parts ==
  ASSUME IInv
  PROVE  /\ Dir(disk) /\ Dir(tmp)
         /\ up \in BOOLEAN /\ fileNotExist \in BOOLEAN /\ astray \in BOOLEAN
         /\ name \in File /\ vector \in Vector /\ job \in {None} \cup JobType
         /\ runs \in Run /\ crashes \in 0..MaxCrashes
         /\ up => (job # None => Possible(job, vector))
BY Zenon DEF IInv, Typed, Placed

LEMMA StartHolds ==
  ASSUME IInv, Start
  PROVE  IInv'
BY FileAssumption, EmptyVector, OpenHolds, Zenon DEF Start

LEMMA LoadHolds ==
  ASSUME IInv, LoadFile
  PROVE  IInv'
<1>1. up /\ job = None /\ UNCHANGED <<runs, crashes>>
  BY DEF LoadFile
<1>2. PICK f \in DOMAIN disk :
        \/ Open(f, Empty)
        \/ ~Readable(disk[f]) /\ Open(Default, Pushed(Empty, Sessions(disk[f])))
        \/ Stop /\ UNCHANGED <<disk, tmp>>
  BY Zenon DEF LoadFile
<1>3. f \in File /\ disk[f] \in FileType
  BY Parts, Zenon DEF Dir
<1>4. CASE Open(f, Empty)
  BY <1>1, <1>3, <1>4, EmptyVector, OpenHolds, Zenon
<1>5. CASE ~Readable(disk[f]) /\ Open(Default, Pushed(Empty, Sessions(disk[f])))
  <2> DEFINE v == Pushed(Empty, Sessions(disk[f]))
  <2>1. v \in Vector
    BY <1>3, EmptyVector, SessionsType, PushedType, Zenon
  <2> HIDE DEF v
  <2>2. Open(Default, v)
    BY <1>5, Zenon DEF v
  <2> QED
    BY <1>1, <2>1, <2>2, FileAssumption, OpenHolds, Zenon
<1>6. CASE Stop /\ UNCHANGED <<disk, tmp>>
  <2>1. Dir(disk') /\ Dir(tmp') /\ runs' \in Run /\ crashes' \in 0..MaxCrashes
    BY <1>1, <1>6, Parts, Zenon
  <2> QED
    BY <1>6, <2>1, StopHolds, Zenon
<1> QED
  BY <1>2, <1>4, <1>5, <1>6, Zenon

LEMMA CloneHolds ==
  ASSUME IInv, Clone
  PROVE  IInv'
<1>1. up /\ job = None /\ UNCHANGED <<tmp, runs, crashes>>
  BY DEF Clone
<1>2. PICK f \in File :
        IF f \in DOMAIN disk
        THEN Stop /\ UNCHANGED disk
        ELSE /\ disk' = With(disk, f, disk[name])
             /\ UNCHANGED <<up, name, fileNotExist, vector, astray, job>>
  BY Zenon DEF Clone
<1>3. /\ ~Pending(job) /\ Current(disk, tmp, job, name) = disk[name]
      /\ name \in DOMAIN disk /\ disk[name] \in FileType
      /\ disk[name] # <<OtherVersion>> /\ (disk[name] = <<>> => fileNotExist)
  BY <1>1, Idle, Zenon DEF IInv
<1>4. CASE f \in DOMAIN disk
  <2>1. Dir(disk') /\ Dir(tmp') /\ runs' \in Run /\ crashes' \in 0..MaxCrashes
    BY <1>1, <1>2, <1>4, Parts, Zenon
  <2> QED
    BY <1>2, <1>4, <2>1, StopHolds, Zenon
<1>5. CASE f \notin DOMAIN disk
  <2>1. disk' = With(disk, f, disk[name])
    BY <1>2, <1>5, Zenon
  <2>2. UNCHANGED <<tmp, up, name, fileNotExist, vector, astray, job, runs, crashes>>
    BY <1>1, <1>2, <1>5, Zenon
  <2>3. /\ Dir(disk') /\ DOMAIN disk \subseteq DOMAIN disk'
        /\ \A g \in DOMAIN disk : disk'[g] = disk[g]
    <3>1. Dir(disk)
      BY Parts, Zenon
    <3>2. Rewritten(disk, disk', f, disk[name])
      BY <1>3, <2>1, <3>1, WithDir, Zenon
    <3> QED
      BY <1>5, <3>2, Zenon DEF Rewritten
  <2>5. ~Pending(job') /\ Current(disk', tmp', job', name') = Current(disk, tmp, job, name)
    BY <1>3, <2>2, <2>3, Zenon DEF Current
  <2>6. Typed'
    BY <2>2, <2>3, Parts, Zenon DEF Typed
  <2>7. Stopped'
    BY <2>2, Zenon DEF IInv, Stopped
  <2>8. Placed'
    BY <1>1, <1>3, <2>2, <2>3, <2>5, Zenon DEF Placed
  <2>9. InStep' /\ InFile'
    BY <1>1, <2>2, <2>5, Zenon DEF IInv, InStep, InFile
  <2> QED
    BY <2>6, <2>7, <2>8, <2>9, Zenon DEF IInv
<1> QED
  BY <1>4, <1>5

LEMMA SaveHolds ==
  ASSUME IInv, Save
  PROVE  IInv'
<1>1. /\ up /\ job = None /\ runs < MaxRuns /\ runs' = runs + 1 /\ fileNotExist' = FALSE
      /\ UNCHANGED <<disk, up, name, vector, crashes>>
      /\ astray' = (astray \/ (fileNotExist /\ disk[name] # <<>>))
      /\ tmp' = With(tmp, name, SavedFile(disk[name], fileNotExist, runs + 1))
      /\ job' = [Job("save", runs + 1) EXCEPT !.stage = "written"]
  BY DEF Save, SavedFile
<1>2. /\ ~Pending(job) /\ Current(disk, tmp, job, name) = disk[name]
      /\ name \in DOMAIN disk /\ disk[name] \in FileType
      /\ disk[name] # <<OtherVersion>> /\ (disk[name] = <<>> => fileNotExist)
  BY <1>1, Idle, Zenon DEF IInv
<1>3. runs + 1 \in Run /\ runs + 1 \in Nat
  BY <1>1, Parts, RunsAreNumbers DEF Run
<1> DEFINE r == runs + 1
           w == SavedFile(disk[name], fileNotExist, r)
<1> HIDE DEF r
<1>4. /\ w \in Started
      /\ Agrees(disk[name], vector.history) /\ ~(fileNotExist /\ disk[name] # <<>>)
           => Agrees(w, Append(vector.history, r))
  BY <1>2, <1>3, Parts, VectorParts, SavedAgrees, Zenon DEF r
<1>5. w \in FileType /\ w # <<>> /\ w # <<OtherVersion>>
  <2> HIDE DEF w
  <2>1. PICK q \in Seq(Number) : w = <<Version>> \o q
    BY <1>4, Zenon DEF Started
  <2> QED
    BY <1>4, <2>1, FileParts, Zenon DEF FileType
<1>6. tmp' = With(tmp, name, w) /\ job' = [Job("save", r) EXCEPT !.stage = "written"]
  BY <1>1, Zenon DEF r
<1> HIDE DEF w
<1>7. Dir(tmp') /\ name \in DOMAIN tmp' /\ tmp'[name] = w
  <2>1. Dir(tmp) /\ name \in File
    BY Parts, Zenon
  <2>2. Rewritten(tmp, tmp', name, w)
    BY <1>5, <1>6, <2>1, WithDir, Zenon
  <2> QED
    BY <2>2, Zenon DEF Rewritten
<1>8. /\ job' \in JobType /\ job' # None /\ job'.stage = "written"
      /\ job'.op = "save" /\ job'.arg = r /\ Pending(job')
  <2>1. Job("save", r) \in AnyJob /\ Job("save", r).op = "save" /\ Job("save", r).arg = r
    BY <1>3 DEF Job, AnyJob, r
  <2>2. "written" \in Stage
    BY DEF Stage
  <2>3. Staged(Job("save", r), job', "written", vector)
    BY <1>6, <2>1, <2>2, StageOnly, Zenon
  <2> QED
    BY <2>1, <2>3 DEF Staged, Pending
<1>9. /\ After(vector'.history, job') = Append(vector.history, r)
      /\ Possible(job', vector')
  BY <1>1, <1>3, <1>8 DEF After, Possible, r
<1>10. Current(disk', tmp', job', name') = w
  BY <1>1, <1>7, <1>8, Zenon DEF Current
<1>11. Typed'
  BY <1>1, <1>3, <1>7, <1>8, Parts, Zenon DEF Typed
<1>12. Stopped' /\ Placed'
  BY <1>1, <1>2, <1>5, <1>7, <1>9, <1>10, Zenon DEF Stopped, Placed
<1>13. ~astray => Agrees(disk[name], vector.history)
  <2>1. ~astray => Agrees(disk[name], After(vector.history, job))
    BY <1>1, <1>2, Zenon DEF IInv, InStep
  <2> QED
    BY <1>1, <2>1, NoJob, Zenon
<1>14. InStep'
  <2> SUFFICES ASSUME ~astray, ~(fileNotExist /\ disk[name] # <<>>)
               PROVE  Agrees(w, Append(vector.history, r))
    BY <1>1, <1>9, <1>10, Zenon DEF InStep
  <2> QED
    BY <1>4, <1>13, Zenon
<1>15. InFile'
  <2> SUFFICES ASSUME ~astray
               PROVE  Range(vector.history) \subseteq Range(Sessions(disk[name]))
    BY <1>1, Zenon DEF InFile
  <2>1. Sessions(disk[name]) = vector.history
    BY <1>13, Parts, VectorParts, AgreesSessions, Zenon
  <2> QED
    BY <2>1, Zenon
<1> QED
  BY <1>11, <1>12, <1>14, <1>15, Zenon DEF IInv

LEMMA RemoveHolds ==
  ASSUME IInv, RemoveOld
  PROVE  IInv'
<1>1. /\ up /\ job # None /\ job.stage = "written"
      /\ disk' = Without(disk, name) /\ job' = [job EXCEPT !.stage = "removed"]
      /\ UNCHANGED <<tmp, up, name, fileNotExist, vector, astray, runs, crashes>>
  BY DEF RemoveOld
<1>2. job \in AnyJob
  BY <1>1, Parts, JobParts, Zenon
<1>3. /\ job' \in JobType /\ job' # None /\ job'.stage = "removed"
      /\ After(vector.history, job') = After(vector.history, job)
      /\ Possible(job', vector) = Possible(job, vector)
  <2>1. "removed" \in Stage
    BY DEF Stage
  <2>2. Staged(job, job', "removed", vector)
    BY <1>1, <1>2, <2>1, StageOnly, Zenon
  <2> QED
    BY <2>2, Zenon DEF Staged
<1>4. Pending(job) /\ Pending(job')
  BY <1>1, <1>3 DEF Pending
<1>5. Dir(disk')
  BY <1>1, Parts, WithoutDir, Zenon
<1>6. Current(disk', tmp', job', name') = Current(disk, tmp, job, name)
  BY <1>1, <1>4, Zenon DEF Current
<1>7. Typed'
  BY <1>1, <1>3, <1>5, Parts, Zenon DEF Typed
<1>8. Stopped' /\ Placed'
  BY <1>1, <1>3, <1>4, <1>6, Zenon DEF IInv, Stopped, Placed
<1>9. InStep'
  <2>1. vector'.history = vector.history
    BY <1>1
  <2> QED
    BY <1>1, <1>3, <1>6, <2>1, Zenon DEF IInv, InStep
<1>10. InFile'
  BY <1>3 DEF InFile
<1> QED
  BY <1>7, <1>8, <1>9, <1>10, Zenon DEF IInv

LEMMA RenameHolds ==
  ASSUME IInv, Rename
  PROVE  IInv'
<1>1. /\ up /\ job # None /\ job.stage = "removed"
      /\ disk' = With(disk, name, tmp[name]) /\ tmp' = Without(tmp, name)
      /\ job' = [job EXCEPT !.stage = "renamed"]
      /\ UNCHANGED <<up, name, fileNotExist, vector, astray, runs, crashes>>
  BY DEF Rename
<1>2. job \in AnyJob
  BY <1>1, Parts, JobParts, Zenon
<1>3. /\ job' \in JobType /\ job' # None /\ job'.stage = "renamed"
      /\ After(vector.history, job') = After(vector.history, job)
      /\ Possible(job', vector) = Possible(job, vector)
  <2>1. "renamed" \in Stage
    BY DEF Stage
  <2>2. Staged(job, job', "renamed", vector)
    BY <1>1, <1>2, <2>1, StageOnly, Zenon
  <2> QED
    BY <2>2, Zenon DEF Staged
<1>4. Pending(job) /\ ~Pending(job')
  BY <1>1, <1>3 DEF Pending
<1>5. name \in DOMAIN tmp /\ tmp[name] \in FileType
  BY <1>1, <1>4, Parts, Zenon DEF IInv, Placed, Dir
<1>6. Dir(disk') /\ name \in DOMAIN disk' /\ disk'[name] = tmp[name]
  <2>1. Dir(disk) /\ name \in File
    BY Parts, Zenon
  <2>2. Rewritten(disk, disk', name, tmp[name])
    BY <1>1, <1>5, <2>1, WithDir, Zenon
  <2> QED
    BY <2>2, Zenon DEF Rewritten
<1>7. Dir(tmp')
  <2>1. Dir(Without(tmp, name))
    BY Parts, WithoutDir, Zenon
  <2> QED
    BY <1>1, <2>1
<1>8. Current(disk', tmp', job', name') = Current(disk, tmp, job, name)
  BY <1>1, <1>4, <1>6, Zenon DEF Current
<1>9. Typed'
  BY <1>1, <1>3, <1>6, <1>7, Parts, Zenon DEF Typed
<1>10. Stopped' /\ Placed'
  BY <1>1, <1>3, <1>4, <1>6, <1>8, Zenon DEF IInv, Stopped, Placed
<1>11. InStep'
  <2>1. vector'.history = vector.history
    BY <1>1
  <2> QED
    BY <1>1, <1>3, <1>6, <1>8, <2>1, Zenon DEF IInv, InStep
<1>12. InFile'
  BY <1>3 DEF InFile
<1> QED
  BY <1>9, <1>10, <1>11, <1>12, Zenon DEF IInv

\* Delete, for a job that leaves the sessions on the file that it leaves in the history
LEMMA DeleteHolds ==
  ASSUME IInv, up, job = None \/ job.stage = "renamed", UNCHANGED <<disk, runs, crashes>>,
         NEW j \in AnyJob, NEW index, NEW clearCount, Delete(j, index, clearCount),
         Possible(j, vector), After(vector.history, job) # <<>>,
         Range(vector.history) \subseteq Range(After(vector.history, job)),
         Kept(<<Version>> \o After(vector.history, job), index, clearCount)
           = <<Version>> \o After(vector.history, j)
  PROVE  IInv'
<1> DEFINE w == disk[name]
           read == <<Version>> \o Sessions(w)
           x == Kept(read, index, clearCount)
           h == After(vector.history, job)
<1>1. /\ ~Pending(job) /\ Current(disk, tmp, job, name) = w
      /\ name \in DOMAIN disk /\ w \in FileType
      /\ w # <<OtherVersion>> /\ (w = <<>> => fileNotExist)
  BY Idle, Zenon DEF IInv
<1>2. /\ h \in Seq(Run) /\ h # <<>>
      /\ ~astray => w = <<Version>> \o h /\ Sessions(w) = h
  <2>1. h \in Seq(Run)
    BY Parts, AfterType, Zenon
  <2>2. ~astray => Agrees(w, h)
    BY <1>1, Zenon DEF IInv, InStep
  <2> HIDE DEF h, w
  <2>3. h # <<>>
    BY DEF h
  <2> QED
    BY <2>1, <2>2, <2>3, AgreesSessions, Zenon DEF Agrees
<1>3. CASE Len(w) <= 1
  <2>1. /\ job' = [j EXCEPT !.stage = "renamed"]
        /\ UNCHANGED <<disk, tmp, up, name, fileNotExist, vector, astray, runs, crashes>>
    BY <1>3, Zenon DEF Delete
  <2>2. /\ job' \in JobType /\ job' # None /\ job'.stage = "renamed"
        /\ Possible(job', vector) = Possible(j, vector)
    <3>1. "renamed" \in Stage
      BY DEF Stage
    <3>2. Staged(j, job', "renamed", vector)
      BY <2>1, <3>1, StageOnly, Zenon
    <3> QED
      BY <3>2, Zenon DEF Staged
  <2>3. ~Pending(job') /\ Current(disk', tmp', job', name') = w
    BY <2>1, <2>2 DEF Pending, Current
  <2>4. astray
    <3> SUFFICES ASSUME ~astray
                 PROVE  FALSE
      OBVIOUS
    <3> HIDE DEF h, w
    <3>1. w = <<Version>> \o h /\ h \in Seq(Number)
      BY <1>2, RunsAreContents, Zenon
    <3>2. Len(w) = Len(h) + 1 /\ Len(h) \in Nat
      BY <3>1, FileParts, Zenon
    <3>3. Len(h) # 0
      BY <1>2
    <3> QED
      BY <1>3, <3>2, <3>3
  <2>5. Typed'
    BY <2>1, <2>2, Parts, Zenon DEF Typed
  <2>6. Stopped' /\ Placed'
    BY <1>1, <2>1, <2>2, <2>3, Zenon DEF Stopped, Placed
  <2>7. InStep' /\ InFile'
    BY <2>1, <2>4, Zenon DEF InStep, InFile
  <2> QED
    BY <2>5, <2>6, <2>7, Zenon DEF IInv
<1> HIDE DEF w, h
<1>4. x \in FileType /\ x # <<>> /\ x # <<OtherVersion>>
  <2>1. Sessions(w) \in Seq(Run) /\ Sessions(w) \in Seq(Number)
    BY <1>1, SessionsType, RunsAreContents, Zenon
  <2>2. x \in Started
    BY <2>1, KeptType, Zenon
  <2> HIDE DEF x
  <2>3. PICK p \in Seq(Number) : x = <<Version>> \o p
    BY <2>2, Zenon DEF Started
  <2> QED
    BY <2>2, <2>3, FileParts, Zenon DEF FileType
<1>5. ~astray => x = <<Version>> \o After(vector.history, j)
  <2> SUFFICES ASSUME ~astray
               PROVE  x = <<Version>> \o After(vector.history, j)
    OBVIOUS
  <2>1. read = <<Version>> \o h
    BY <1>2, Zenon
  <2>2. x = Kept(<<Version>> \o h, index, clearCount)
    BY <2>1, Zenon
  <2> HIDE DEF x
  <2> QED
    BY <2>2 DEF h
<1> HIDE DEF x
<1>6. ASSUME tmp' = With(tmp, name, x)
      PROVE  Dir(tmp') /\ name \in DOMAIN tmp' /\ tmp'[name] = x
  <2>1. Dir(tmp) /\ name \in File
    BY Parts, Zenon
  <2>2. Rewritten(tmp, tmp', name, x)
    BY <1>4, <1>6, <2>1, WithDir, Zenon
  <2> QED
    BY <2>2, Zenon DEF Rewritten
<1>7. CASE /\ tmp' = With(tmp, name, x) /\ job' = [j EXCEPT !.stage = "written"]
           /\ UNCHANGED <<disk, up, name, fileNotExist, vector, astray, runs, crashes>>
  <2>1. Dir(tmp') /\ name \in DOMAIN tmp' /\ tmp'[name] = x
    BY <1>6, <1>7, Zenon
  <2>2. /\ job' \in JobType /\ job' # None /\ job'.stage = "written" /\ Pending(job')
        /\ After(vector.history, job') = After(vector.history, j)
        /\ Possible(job', vector) = Possible(j, vector)
    <3>1. "written" \in Stage
      BY DEF Stage
    <3>2. Staged(j, job', "written", vector)
      BY <1>7, <3>1, StageOnly, Zenon
    <3> QED
      BY <3>2 DEF Staged, Pending
  <2>3. Current(disk', tmp', job', name') = x
    BY <1>7, <2>1, <2>2, Zenon DEF Current
  <2>4. Typed'
    BY <1>7, <2>1, <2>2, Parts, Zenon DEF Typed
  <2>5. Stopped' /\ Placed'
    BY <1>1, <1>4, <1>7, <2>1, <2>2, <2>3, Zenon DEF Stopped, Placed
  <2>6. InStep'
    <3> SUFFICES ASSUME ~astray
                 PROVE  Agrees(x, After(vector.history, j))
      BY <1>7, <2>2, <2>3, Zenon DEF InStep
    <3> QED
      BY <1>5, Zenon DEF Agrees
  <2>7. InFile'
    <3> SUFFICES ASSUME ~astray
                 PROVE  Range(vector.history) \subseteq Range(Sessions(w))
      BY <1>7, Zenon DEF InFile, w
    <3>1. Sessions(w) = h
      BY <1>2, Zenon
    <3> QED
      BY <3>1, Zenon DEF h
  <2> QED
    BY <2>4, <2>5, <2>6, <2>7, Zenon DEF IInv
<1>8. CASE tmp' = With(tmp, name, x) /\ Stop
  <2>1. Dir(disk') /\ Dir(tmp') /\ runs' \in Run /\ crashes' \in 0..MaxCrashes
    BY <1>6, <1>8, Parts, Zenon
  <2> QED
    BY <1>8, <2>1, StopHolds, Zenon
<1>9. ~(Len(w) <= 1) =>
         /\ tmp' = With(tmp, name, x)
         /\ \/ /\ job' = [j EXCEPT !.stage = "written"]
               /\ UNCHANGED <<up, name, fileNotExist, vector, astray>>
            \/ Stop
  BY Zenon DEF Delete, w, x
<1> QED
  BY <1>3, <1>7, <1>8, <1>9, Zenon DEF w

LEMMA DeleteSelectedHolds ==
  ASSUME IInv, DeleteSelected
  PROVE  IInv'
<1>1. up /\ job = None /\ UNCHANGED <<disk, runs, crashes>>
  BY DEF DeleteSelected
<1>2. PICK i \in DOMAIN vector.history : Delete(Job("delete", i), i, -1)
  BY Zenon DEF DeleteSelected
<1> DEFINE j == Job("delete", i)
           h == vector.history
<1>3. h \in Seq(Run) /\ i \in 1..Len(h) /\ i \in Nat
  <2>1. h \in Seq(Run)
    BY Parts, VectorParts, Zenon
  <2> QED
    BY <2>1
<1>4. j \in AnyJob /\ j.op = "delete" /\ j.arg = i
  BY <1>3 DEF Job, AnyJob
<1> HIDE DEF j
<1>5. Possible(j, vector) /\ After(h, j) = RemoveAt(h, i)
  BY <1>3, <1>4 DEF Possible, After
<1>6. After(h, job) = h /\ h # <<>>
  BY <1>1, <1>3, NoJob
<1>7. Kept(<<Version>> \o h, i, -1) = <<Version>> \o RemoveAt(h, i)
  <2>1. h \in Seq(Number)
    BY <1>3, RunsAreContents
  <2> QED
    BY <1>3, <2>1, KeptOthers, Zenon
<1>8. Delete(j, i, -1)
  BY <1>2, Zenon DEF j
<1>9. Kept(<<Version>> \o After(h, job), i, -1) = <<Version>> \o After(h, j)
  BY <1>5, <1>6, <1>7
<1>10. After(h, job) # <<>> /\ Range(h) \subseteq Range(After(h, job))
  BY <1>6
<1> QED
  BY <1>1, <1>4, <1>5, <1>8, <1>9, <1>10, DeleteHolds, Zenon

LEMMA ClearHolds ==
  ASSUME IInv, ClearAll
  PROVE  IInv'
<1> DEFINE j == Job("clear", 0)
           h == vector.history
<1>1. /\ up /\ job = None /\ h # <<>> /\ UNCHANGED <<disk, runs, crashes>>
      /\ Delete(j, -1, HistorySize)
  BY Zenon DEF ClearAll
<1>2. h \in Seq(Run) /\ Len(h) \in Nat /\ HistorySize \in Nat /\ Len(h) < HistorySize + 1
  BY Parts, VectorParts, SizeAssumption
<1>3. j \in AnyJob /\ j.op = "clear"
  BY DEF Job, AnyJob
<1> HIDE DEF j
<1>4. Possible(j, vector) /\ After(h, j) = <<>>
  BY <1>3 DEF Possible, After
<1>5. After(h, job) = h
  BY <1>1, NoJob
<1>6. Kept(<<Version>> \o h, -1, HistorySize)
        = <<Version>> \o SubSeq(h, HistorySize + 1, Len(h))
  <2>1. h \in Seq(Number)
    BY <1>2, RunsAreContents
  <2> QED
    BY <1>2, <2>1, KeptLast, Zenon
<1>7. SubSeq(h, HistorySize + 1, Len(h)) = <<>>
  <2>1. HistorySize + 1 \in Int /\ Len(h) \in Int
    BY <1>2
  <2> QED
    BY <1>2, <2>1, SubSeqEmpty, Zenon
<1>8. Kept(<<Version>> \o After(h, job), -1, HistorySize) = <<Version>> \o After(h, j)
  BY <1>4, <1>5, <1>6, <1>7
<1>9. After(h, job) # <<>> /\ Range(h) \subseteq Range(After(h, job))
  BY <1>1, <1>5
<1> QED
  BY <1>1, <1>3, <1>4, <1>8, <1>9, DeleteHolds, Zenon

LEMMA EvictHolds ==
  ASSUME IInv, Evict
  PROVE  IInv'
<1> DEFINE j == [job EXCEPT !.op = "evict"]
           h == vector.history
<1>1. /\ up /\ job # None /\ job.stage = "renamed" /\ job.op = "save" /\ Full(vector)
      /\ UNCHANGED <<disk, runs, crashes>> /\ Delete(j, 1, -1)
  BY Zenon DEF Evict
<1>2. /\ h \in Seq(Run) /\ h # <<>> /\ job \in JobType /\ job.arg \in Run
  BY <1>1, Parts, VectorParts, Zenon DEF Full, Possible
<1>3. j \in AnyJob /\ j.op = "evict" /\ j.arg = job.arg
  BY <1>2 DEF JobType, AnyJob
<1> HIDE DEF j
<1>4. /\ Possible(j, vector) /\ After(h, j) = Append(Tail(h), job.arg)
      /\ After(h, job) = Append(h, job.arg)
  BY <1>1, <1>2, <1>3 DEF Possible, After
<1> DEFINE q == Append(h, job.arg)
<1>5. /\ q \in Seq(Run) /\ q # <<>> /\ Tail(h) \in Seq(Run)
      /\ RemoveAt(q, 1) = Append(Tail(h), job.arg)
  BY <1>2, Appended, Shifted, Zenon
<1>6. Range(h) \subseteq Range(After(h, job))
  <2>1. Range(Append(h, job.arg)) = Range(h) \cup {job.arg}
    BY <1>2, Appended, Zenon
  <2> QED
    BY <1>4, <2>1
<1> HIDE DEF q
<1>7. Kept(<<Version>> \o q, 1, -1) = <<Version>> \o RemoveAt(q, 1)
  <2>1. q \in Seq(Number)
    BY <1>5, RunsAreContents
  <2>2. 1 \in 1..Len(q)
    BY <1>5
  <2> QED
    BY <2>1, <2>2, KeptOthers, Zenon
<1>8. Kept(<<Version>> \o After(h, job), 1, -1) = <<Version>> \o After(h, j)
  BY <1>4, <1>5, <1>7 DEF q
<1>9. After(h, job) # <<>>
  BY <1>4, <1>5 DEF q
<1> QED
  BY <1>1, <1>3, <1>4, <1>6, <1>8, <1>9, DeleteHolds, Zenon

LEMMA FinishHolds ==
  ASSUME IInv, Finish
  PROVE  IInv'
<1> DEFINE h == vector.history
<1>1. /\ up /\ job # None /\ job.stage = "renamed" /\ (job.op = "save" => ~Full(vector))
      /\ job' = None
      /\ UNCHANGED <<disk, tmp, up, name, fileNotExist, astray, runs, crashes>>
      /\ vector' = CASE job.op \in {"save", "evict"} -> Push(vector, job.arg)
                     [] job.op = "delete" -> [vector EXCEPT !.history = RemoveAt(@, job.arg)]
                     [] job.op = "clear" -> Empty
                     [] job.op = "prune" -> vector
  BY DEF Finish
<1>2. /\ job \in JobType /\ Possible(job, vector) /\ vector \in Vector
      /\ job.op \in {"save", "evict", "delete", "clear", "prune"}
  <2>1. job \in JobType /\ Possible(job, vector) /\ vector \in Vector
    BY <1>1, Parts, Zenon
  <2>2. job.op \in {"save", "evict", "delete", "clear", "prune"}
    BY <2>1 DEF JobType, AnyJob
  <2> QED
    BY <2>1, <2>2
<1>3. vector' \in Vector /\ vector'.history = After(h, job)
  <2>1. CASE job.op = "save"
    <3>1. vector' = Push(vector, job.arg) /\ job.arg \in Run
      BY <1>1, <1>2, <2>1 DEF Possible
    <3>2. Push(vector, job.arg).history = Append(h, job.arg)
      BY <1>1, <2>1 DEF Push
    <3>3. After(h, job) = Append(h, job.arg)
      BY <2>1, Zenon DEF After
    <3> QED
      BY <1>2, <3>1, <3>2, <3>3, PushType, Zenon
  <2>2. CASE job.op = "evict"
    <3>1. vector' = Push(vector, job.arg) /\ job.arg \in Run /\ Full(vector)
      BY <1>1, <1>2, <2>2 DEF Possible
    <3>2. Push(vector, job.arg).history = Append(Tail(h), job.arg)
      BY <3>1 DEF Push
    <3>3. After(h, job) = Append(Tail(h), job.arg)
      BY <2>2 DEF After
    <3> QED
      BY <1>2, <3>1, <3>2, <3>3, PushType, Zenon
  <2>3. CASE job.op = "delete"
    <3>1. job.arg \in 1..Len(h) /\ After(h, job) = RemoveAt(h, job.arg)
      BY <1>2, <2>3 DEF Possible, After
    <3>2. vector' = [vector EXCEPT !.history = RemoveAt(h, job.arg)]
      BY <1>1, <2>3
    <3>3. /\ vector \in [history : Seq(Run), curIndex : 0..HistorySize]
          /\ Len(h) <= vector.curIndex /\ vector.curIndex \in Int /\ h \in Seq(Run)
      BY <1>2, SizeAssumption DEF Vector
    <3>4. RemoveAt(h, job.arg) \in Seq(Run) /\ Len(RemoveAt(h, job.arg)) = Len(h) - 1
      BY <3>1, <3>3, Removed
    <3>5. /\ vector' \in [history : Seq(Run), curIndex : 0..HistorySize]
          /\ vector'.history = RemoveAt(h, job.arg) /\ vector'.curIndex = vector.curIndex
      BY <3>2, <3>3, <3>4
    <3>6. Len(vector'.history) <= vector'.curIndex
      BY <3>3, <3>4, <3>5
    <3> QED
      BY <3>1, <3>5, <3>6 DEF Vector
  <2>4. CASE job.op = "clear"
    <3>1. vector' = Empty /\ After(h, job) = <<>>
      BY <1>1, <2>4 DEF After
    <3> QED
      BY <3>1, EmptyVector
  <2>5. CASE job.op = "prune"
    BY <1>1, <1>2, <2>5 DEF After
  <2> QED
    BY <1>2, <2>1, <2>2, <2>3, <2>4, <2>5
<1>4. ~Pending(job') /\ After(vector'.history, job') = After(h, job)
  BY <1>1, <1>3, NoJob
<1>5. /\ ~Pending(job) /\ Current(disk, tmp, job, name) = disk[name]
      /\ name \in DOMAIN disk
      /\ disk[name] # <<OtherVersion>> /\ (disk[name] = <<>> => fileNotExist)
  BY <1>1, Idle, Zenon DEF IInv
<1>6. Current(disk', tmp', job', name') = Current(disk, tmp, job, name)
  BY <1>1, <1>4, <1>5 DEF Current
<1>7. Typed'
  BY <1>1, <1>3, Parts, Zenon DEF Typed
<1>8. Stopped' /\ Placed'
  BY <1>1, <1>4, <1>5, <1>6, Zenon DEF Stopped, Placed
<1>9. InStep' /\ InFile'
  BY <1>1, <1>4, <1>6, Zenon DEF IInv, InStep, InFile
<1> QED
  BY <1>7, <1>8, <1>9, Zenon DEF IInv

LEMMA CrashHolds ==
  ASSUME IInv, Crash
  PROVE  IInv'
<1>1. crashes < MaxCrashes /\ crashes' = crashes + 1 /\ Stop /\ UNCHANGED <<disk, tmp, runs>>
  BY DEF Crash
<1>2. crashes \in 0..MaxCrashes /\ MaxCrashes \in Nat
  BY Parts, SizeAssumption
<1>3. crashes' \in 0..MaxCrashes
  BY <1>1, <1>2
<1>4. Dir(disk') /\ Dir(tmp') /\ runs' \in Run
  BY <1>1, Parts, Zenon
<1> QED
  BY <1>1, <1>3, <1>4, StopHolds, Zenon

LEMMA StepHolds ==
  ASSUME IInv, [Next]_vars
  PROVE  IInv'
<1>1. CASE Next
  BY <1>1, StartHolds, LoadHolds, CloneHolds, SaveHolds, RemoveHolds, RenameHolds,
     EvictHolds, DeleteSelectedHolds, ClearHolds, FinishHolds, CrashHolds, Zenon DEF Next
<1>2. CASE UNCHANGED vars
  <2>1. UNCHANGED <<disk, tmp, up, name, fileNotExist, vector, astray, job, runs, crashes>>
    BY <1>2 DEF vars
  <2>2. Typed' /\ Stopped' /\ Placed'
    BY <2>1, Zenon DEF IInv, Typed, Stopped, Placed
  <2>3. InStep' /\ InFile'
    BY <2>1, Zenon DEF IInv, InStep, InFile
  <2> QED
    BY <2>2, <2>3, Zenon DEF IInv
<1> QED
  BY <1>1, <1>2

-----------------------------------------------------------------------------
(* The theorems                                                              *)

\* The file in use and the history are in step, in every reachable state.
THEOREM Inductive == Spec => []IInv
<1>1. Init => IInv
  BY InitHolds
<1>2. IInv /\ [Next]_vars => IInv'
  BY StepHolds
<1> QED
  BY <1>1, <1>2, PTL DEF Spec

\* The state is well formed, and the history never outgrows its size.
THEOREM TypeCorrect == Spec => []TypeOK
<1>1. IInv => TypeOK
  <2> SUFFICES ASSUME IInv
               PROVE  TypeOK
    OBVIOUS
  <2>1. \A f \in DOMAIN disk : disk[f] \in Seq(Word)
    BY Parts, WordsOfFile, Zenon DEF Dir
  <2>2. \A f \in DOMAIN tmp : tmp[f] \in Seq(Word)
    BY Parts, WordsOfFile, Zenon DEF Dir
  <2>3. DOMAIN disk \subseteq File /\ DOMAIN tmp \subseteq File
    BY Parts, Zenon DEF Dir
  <2>4. /\ vector.history \in Seq(1..MaxRuns) /\ Len(vector.history) <= HistorySize
        /\ vector.curIndex \in Len(vector.history)..HistorySize
    <3>1. /\ vector.history \in Seq(Run) /\ vector.curIndex \in 0..HistorySize
          /\ Len(vector.history) <= vector.curIndex /\ Len(vector.history) \in Nat
      BY Parts, VectorParts, Zenon
    <3> QED
      BY <3>1, SizeAssumption DEF Run
  <2>5. job = None \/ job.stage \in {"written", "removed", "renamed"}
    BY Parts, JobParts, Zenon DEF Stage
  <2>6. /\ {up, fileNotExist, astray} \subseteq BOOLEAN /\ name \in File
        /\ runs \in 1..MaxRuns /\ crashes \in 0..MaxCrashes
    BY Parts DEF Run
  <2> QED
    BY <2>1, <2>2, <2>3, <2>4, <2>5, <2>6, Zenon DEF TypeOK
<1> QED
  BY <1>1, Inductive, PTL

\* The history has its sessions where the file has them, between two operations and
\* as long as no second version word is written: Delete(index) takes the same session
\* from both.
THEOREM AgreesCorrect == Spec => []AgreesWithFile
<1>1. IInv => AgreesWithFile
  <2> SUFFICES ASSUME IInv, up, job = None, ~astray
               PROVE  vector.history = Sessions(disk[name])
    BY Zenon DEF AgreesWithFile
  <2>1. Current(disk, tmp, job, name) = disk[name]
    BY Idle, Zenon DEF IInv
  <2>2. After(vector.history, job) = vector.history
    BY NoJob
  <2>3. Agrees(disk[name], vector.history)
    BY <2>1, <2>2, Zenon DEF IInv, InStep
  <2> QED
    BY <2>3, Parts, VectorParts, AgreesSessions, Zenon
<1> QED
  BY <1>1, Inductive, PTL

\* What a job leaves of the history is all of it but for what it is deleting.
LEMMA Doomed ==
  ASSUME NEW v \in Vector, NEW j \in {None} \cup JobType, j # None => Possible(j, v)
  PROVE  LET doomed == CASE j.op = "evict" -> {Head(v.history)}
                         [] j.op = "delete" -> {v.history[j.arg]}
                         [] j.op = "clear" -> Range(v.history)
                         [] OTHER -> {}
         IN Range(v.history) \ doomed \subseteq Range(After(v.history, j))
<1> DEFINE h == v.history
<1>1. h \in Seq(Run)
  BY VectorParts
<1>2. j = None => j.op = "none"
  BY DEF None
<1>3. CASE j.op = "evict"
  <2>1. h # <<>> /\ j.arg \in Run
    BY <1>2, <1>3 DEF Possible, Full
  <2>2. Range(h) \ {Head(h)} \subseteq Range(Append(Tail(h), j.arg))
    BY <1>1, <2>1, Shifted, Zenon
  <2> QED
    BY <1>3, <2>2 DEF After
<1>4. CASE j.op = "delete"
  <2>1. j.arg \in 1..Len(h)
    BY <1>2, <1>4 DEF Possible
  <2>2. DOMAIN h = 1..Len(h)
    BY <1>1
  <2>3. Range(h) \ {h[j.arg]} \subseteq Range(RemoveAt(h, j.arg))
    <3> SUFFICES ASSUME NEW k \in 1..Len(h), h[k] # h[j.arg]
                 PROVE  h[k] \in Range(RemoveAt(h, j.arg))
      BY <2>2, Zenon DEF Range
    <3>1. k # j.arg
      OBVIOUS
    <3> QED
      BY <1>1, <2>1, <3>1, Removed, Zenon
  <2> QED
    BY <1>4, <2>3 DEF After
<1>5. CASE j.op = "clear"
  BY <1>5
<1>6. CASE j.op = "save"
  <2>1. j.arg \in Run
    BY <1>2, <1>6 DEF Possible
  <2>2. Range(Append(h, j.arg)) = Range(h) \cup {j.arg}
    BY <1>1, <2>1, Appended
  <2> QED
    BY <1>6, <2>2 DEF After
<1>7. CASE j.op \notin {"save", "evict", "delete", "clear"}
  BY <1>7 DEF After
<1> QED
  BY <1>3, <1>4, <1>5, <1>6, <1>7

\* Wherever a Save or a Delete is cut short, the file gives the sessions of the history
\* but those being deleted; between removing it and renaming its successor, that one does.
THEOREM OnDiskCorrect == Spec => []OnDisk
<1>1. IInv => OnDisk
  <2> DEFINE doomed == CASE job.op = "evict" -> {Head(vector.history)}
                         [] job.op = "delete" -> {vector.history[job.arg]}
                         [] job.op = "clear" -> Range(vector.history)
                         [] OTHER -> {}
             moving == job # None /\ job.stage = "removed"
  <2> SUFFICES ASSUME IInv, up, ~astray
               PROVE  Range(vector.history) \ doomed
                        \subseteq Range(Sessions(IF moving THEN tmp[name] ELSE disk[name]))
    BY Zenon DEF OnDisk
  <2>1. Range(vector.history) \ doomed \subseteq Range(After(vector.history, job))
    <3>1. /\ vector \in Vector /\ job \in {None} \cup JobType
          /\ job # None => Possible(job, vector)
      BY Parts, Zenon
    <3> QED
      BY <3>1, Doomed, Zenon
  <2> HIDE DEF doomed
  <2>2. Sessions(Current(disk, tmp, job, name)) = After(vector.history, job)
    <3>1. After(vector.history, job) \in Seq(Run)
      BY Parts, AfterType, Zenon
    <3> QED
      BY <3>1, AgreesSessions, Zenon DEF IInv, InStep
  <2>3. CASE job # None /\ job.stage = "written"
    <3>1. ~moving
      BY <2>3
    <3>2. Range(vector.history) \subseteq Range(Sessions(disk[name]))
      BY <2>3, Zenon DEF IInv, InFile
    <3> QED
      BY <3>1, <3>2, Zenon
  <2>4. CASE moving
    <3>1. Current(disk, tmp, job, name) = tmp[name]
      BY <2>4 DEF Current, Pending
    <3> QED
      BY <2>1, <2>2, <2>4, <3>1, Zenon
  <2>5. CASE ~moving /\ ~(job # None /\ job.stage = "written")
    <3>1. Current(disk, tmp, job, name) = disk[name]
      BY <2>5 DEF Current, Pending
    <3> QED
      BY <2>1, <2>2, <2>5, <3>1, Zenon
  <2> QED
    BY <2>3, <2>4, <2>5, Zenon
<1> QED
  BY <1>1, Inductive, PTL
=============================================================================
