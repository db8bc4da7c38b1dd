-------------------------- MODULE FrameQueueProofs --------------------------
(***************************************************************************)
(* The ring of bytes is the queue of frames, for any size of ring, any     *)
(* base of a byte and any set of frames.                                   *)
(*                                                                         *)
(* Bytes are counted from head backwards, so that no place of the ring is  *)
(* special: Back(k) is the k-th byte before head.  Reading from there, all *)
(* of the ring in use is records (Packed), which is what makes PopRecord   *)
(* take the oldest frame and PushFrame add the newest.                     *)
(***************************************************************************)
EXTENDS FrameQueue, FrameCost, SequenceTheorems, TLAPS, WellFoundedInduction

\* The bytes before head, the nearest first, and what is read from n bytes before it
Back(k) == buf[At(k)]
Value(n) == Back(n) + Radix * (Back(n - 1) + Radix * (Back(n - 2) + Radix * Back(n - 3)))

Reading ==
  \A n \in 4..Cap :
    /\ LenAt(n) = Value(n) /\ Value(n) \in Nat
    /\ WholeAt(n) => /\ FrameAt(n) \in Seq(Byte) /\ Len(FrameAt(n)) = Value(n)
                     /\ FrameAt(n) = [k \in 1..Value(n) |-> Back((n - 3) - k)]

\* The recursion of Records
Parse(f) ==
  /\ f \in [0..Cap -> Seq(Seq(Byte))]
  /\ \A n \in 0..Cap :
       f[n] = IF WholeAt(n) THEN <<FrameAt(n)>> \o f[n - LenAt(n) - 4] ELSE <<>>

Parsed == \E f : Parse(f) /\ Records = f[Used]

\* All of the ring in use is records.
Packed == Cost(Records) = Used

-----------------------------------------------------------------------------
(* What records cost: a frame that is appended, or taken off the front,      *)
(* changes the cost by its own.  Cost is a function defined by recursion, so *)
(* that it is defined at all, and once, is shown by induction: the least     *)
(* place where it fails does not exist.                                      *)

\* Induction, as far as it does without a predicate for a parameter.
LEMMA LeastOf ==
  ASSUME NEW T, T \subseteq Nat, T # {}
  PROVE  \E x \in T : \A y \in T : x <= y
<1>1. \E x \in T : \A y \in T : ~ (<<y, x>> \in OpToRel(<, Nat))
  BY NatLessThanWellFounded, WFMin, Zenon
<1>2. PICK x \in T : \A y \in T : ~ (<<y, x>> \in OpToRel(<, Nat))
  BY <1>1, Zenon
<1>3. \A y \in T : ~(y < x)
  <2> SUFFICES ASSUME NEW y \in T, y < x
               PROVE  FALSE
    OBVIOUS
  <2>1. <<y, x>> \in Nat \X Nat /\ <<y, x>>[1] = y /\ <<y, x>>[2] = x
    OBVIOUS
  <2>2. <<y, x>> \in OpToRel(<, Nat)
    BY <2>1, Zenon DEF OpToRel
  <2> QED
    BY <1>2, <2>2, Zenon
<1> QED
  BY <1>3

\* The costs of the first frames of q, as the recursion of Cost has them
Sums(q, g) ==
  /\ g \in [0..Len(q) -> Int]
  /\ g[0] = 0
  /\ \A i \in 1..Len(q) : g[i] = g[i - 1] + Len(q[i]) + 4

LEMMA SumsType ==
  ASSUME NEW q, NEW g, Sums(q, g)
  PROVE  g[0] = 0 /\ \A i \in 0..Len(q) : g[i] \in Int
BY Zenon DEF Sums

LEMMA SumsUnique ==
  ASSUME NEW T, NEW q \in Seq(Seq(T)), NEW g, NEW h, Sums(q, g), Sums(q, h)
  PROVE  g = h
<1> DEFINE B == {i \in 0..Len(q) : g[i] # h[i]}
<1>1. B = {}
  <2> SUFFICES ASSUME B # {}
               PROVE  FALSE
    OBVIOUS
  <2>1. B \subseteq Nat
    OBVIOUS
  <2> HIDE DEF B
  <2>2. PICK i \in B : \A j \in B : i <= j
    BY <2>1, LeastOf, Zenon
  <2>3. i \in 1..Len(q)
    BY DEF B, Sums
  <2>4. i - 1 \in 0..Len(q) /\ i - 1 \notin B
    BY <2>2, <2>3
  <2>5. g[i - 1] = h[i - 1]
    BY <2>4, Zenon DEF B
  <2>6. g[i] = h[i]
    BY <2>3, <2>5, Zenon DEF Sums
  <2> QED
    BY <2>6, Zenon DEF B
<1>2. \A i \in 0..Len(q) : g[i] = h[i]
  BY <1>1, Zenon
<1> QED
  BY <1>2 DEF Sums

LEMMA SumsExists ==
  ASSUME NEW T, NEW q \in Seq(Seq(T))
  PROVE  \E g : Sums(q, g)
<1> DEFINE S(n, g) == /\ g \in [0..n -> Int]
                      /\ g[0] = 0
                      /\ \A i \in 1..n : g[i] = g[i - 1] + Len(q[i]) + 4
           B == {n \in 0..Len(q) : ~ \E g : S(n, g)}
<1>1. B = {}
  <2> SUFFICES ASSUME B # {}
               PROVE  FALSE
    OBVIOUS
  <2>1. B \subseteq Nat
    OBVIOUS
  <2> HIDE DEF B
  <2>2. PICK n \in B : \A m \in B : n <= m
    BY <2>1, LeastOf, Zenon
  <2>3. n \in 0..Len(q)
    BY DEF B
  <2>4. n # 0
    <3>1. S(0, [i \in 0..0 |-> 0])
      OBVIOUS
    <3> HIDE DEF S
    <3> QED
      BY <3>1, Zenon DEF B
  <2>5. n - 1 \in 0..Len(q) /\ n - 1 \notin B
    BY <2>2, <2>3, <2>4
  <2>6. PICK g : S(n - 1, g)
    BY <2>5, Zenon DEF B
  <2> DEFINE h == [i \in 0..n |-> IF i = n THEN g[n - 1] + Len(q[n]) + 4 ELSE g[i]]
  <2>7. Len(q[n]) \in Int
    BY <2>3, <2>4
  <2>8. h \in [0..n -> Int] /\ h[0] = 0
    BY <2>3, <2>4, <2>6, <2>7
  <2>9. ASSUME NEW i \in 1..n
        PROVE  h[i] = h[i - 1] + Len(q[i]) + 4
    <3>1. CASE i = n
      <4>1. h[n] = g[n - 1] + Len(q[n]) + 4 /\ h[n - 1] = g[n - 1]
        BY <2>3, <2>4
      <4> QED
        BY <3>1, <4>1, Zenon
    <3>2. CASE i # n
      <4>1. i \in 1..(n - 1) /\ h[i] = g[i] /\ h[i - 1] = g[i - 1]
        BY <2>3, <3>2
      <4> QED
        BY <2>6, <4>1, Zenon
    <3> QED
      BY <3>1, <3>2, Zenon
  <2> HIDE DEF h
  <2>10. S(n, h)
    BY <2>8, <2>9, Zenon
  <2> HIDE DEF S
  <2> QED
    BY <2>10, Zenon DEF B
<1>2. Len(q) \in 0..Len(q)
  OBVIOUS
<1>3. \E g : S(Len(q), g)
  BY <1>1, <1>2, Zenon
<1> QED
  BY <1>3, Zenon DEF Sums

\* Cost is the last of the sums.
LEMMA CostIs ==
  ASSUME NEW T, NEW q \in Seq(Seq(T)), NEW g, Sums(q, g)
  PROVE  Cost(q) = g[Len(q)]
<1> DEFINE R(f) == [n \in 0..Len(q) |-> IF n = 0 THEN 0 ELSE f[n - 1] + Len(q[n]) + 4]
<1>1. ASSUME NEW f, f = R(f)
      PROVE  Sums(q, f)
  <2> DEFINE B == {i \in 0..Len(q) : f[i] \notin Int}
  <2>1. \A n \in 0..Len(q) : f[n] = IF n = 0 THEN 0 ELSE f[n - 1] + Len(q[n]) + 4
    BY <1>1, Zenon
  <2>2. B = {}
    <3> SUFFICES ASSUME B # {}
                 PROVE  FALSE
      OBVIOUS
    <3>1. B \subseteq Nat
      OBVIOUS
    <3> HIDE DEF B
    <3>2. PICK i \in B : \A j \in B : i <= j
      BY <3>1, LeastOf, Zenon
    <3>3. i \in 0..Len(q) /\ f[i] \notin Int
      BY Zenon DEF B
    <3>4. i # 0
      BY <2>1, <3>3
    <3>5. i - 1 \in 0..Len(q) /\ i - 1 \notin B
      BY <3>2, <3>3, <3>4
    <3>6. f[i - 1] \in Int
      BY <3>5, Zenon DEF B
    <3>7. Len(q[i]) \in Int
      BY <3>3, <3>4
    <3> QED
      BY <2>1, <3>3, <3>4, <3>6, <3>7
  <2>3. \A i \in 0..Len(q) : f[i] \in Int
    BY <2>2, Zenon
  <2>4. DOMAIN f = 0..Len(q) /\ f = [i \in DOMAIN f |-> f[i]]
    BY <1>1, Zenon
  <2>5. f \in [0..Len(q) -> Int]
    BY <2>3, <2>4, Zenon
  <2>6. f[0] = 0 /\ \A i \in 1..Len(q) : f[i] = f[i - 1] + Len(q[i]) + 4
    BY <2>1
  <2> QED
    BY <2>5, <2>6, Zenon DEF Sums
<1>2. g = R(g)
  <2>1. \A n \in 0..Len(q) : g[n] = R(g)[n]
    BY DEF Sums
  <2> QED
    BY <2>1 DEF Sums
<1>3. Cost(q) = (CHOOSE f : f = R(f))[Len(q)]
  BY Zenon DEF Cost
<1> HIDE DEF R
<1>4. (CHOOSE f : f = R(f)) = R(CHOOSE f : f = R(f))
  BY <1>2, Zenon
<1>5. (CHOOSE f : f = R(f)) = g
  BY <1>1, <1>4, SumsUnique, Zenon
<1> QED
  BY <1>3, <1>5, Zenon

LEMMA CostEmpty == Cost(<<>>) = 0
<1> DEFINE g == [i \in 0..0 |-> 0]
<1>1. <<>> \in Seq(Seq({})) /\ Len(<<>>) = 0
  OBVIOUS
<1>2. Sums(<<>>, g)
  BY <1>1 DEF Sums
<1>3. g[0] = 0
  OBVIOUS
<1> HIDE DEF g
<1> QED
  BY <1>1, <1>2, <1>3, CostIs, Zenon

\* What is appended adds its own cost.
LEMMA CostAppend ==
  ASSUME NEW T, NEW q \in Seq(Seq(T)), NEW f \in Seq(T)
  PROVE  Cost(Append(q, f)) = Cost(q) + Len(f) + 4
<1> DEFINE r == Append(q, f)
           n == Len(q) + 1
<1>1. PICK g : Sums(q, g)
  BY SumsExists, Zenon
<1> DEFINE h == [i \in 0..n |-> IF i = n THEN g[Len(q)] + Len(f) + 4 ELSE g[i]]
<1>2. /\ r \in Seq(Seq(T)) /\ Len(r) = n /\ r[n] = f /\ n \in Nat
      /\ \A i \in 1..Len(q) : r[i] = q[i]
  OBVIOUS
<1>3. h \in [0..n -> Int] /\ h[0] = 0 /\ h[n] = g[Len(q)] + Len(f) + 4
  <2>1. g[0] = 0 /\ \A i \in 0..Len(q) : g[i] \in Int
    BY <1>1, SumsType, Zenon
  <2>2. \A i \in 0..n : i # n => i \in 0..Len(q)
    OBVIOUS
  <2>3. g[Len(q)] + Len(f) + 4 \in Int
    BY <2>1
  <2>4. 0 \in 0..n /\ 0 # n /\ n \in 0..n
    OBVIOUS
  <2> HIDE DEF n
  <2> QED
    BY <2>1, <2>2, <2>3, <2>4, Zenon
<1>4. ASSUME NEW i \in 1..n
      PROVE  h[i] = h[i - 1] + Len(r[i]) + 4
  <2>1. CASE i = n
    <3>1. h[n - 1] = g[Len(q)]
      OBVIOUS
    <3> QED
      BY <1>2, <1>3, <2>1, <3>1, Zenon
  <2>2. CASE i # n
    <3>1. i \in 1..Len(q) /\ h[i] = g[i] /\ h[i - 1] = g[i - 1]
      BY <2>2
    <3> QED
      BY <1>1, <1>2, <3>1, Zenon DEF Sums
  <2> QED
    BY <2>1, <2>2, Zenon
<1> HIDE DEF h, r, n
<1>5. Sums(r, h)
  BY <1>2, <1>3, <1>4, Zenon DEF Sums
<1>6. Cost(r) = h[n] /\ Cost(q) = g[Len(q)]
  BY <1>1, <1>2, <1>5, CostIs, Zenon
<1> QED
  BY <1>3, <1>6, Zenon DEF r

\* What is taken off the front takes its cost along.
LEMMA CostTail ==
  ASSUME NEW T, NEW q \in Seq(Seq(T)), q # <<>>
  PROVE  Cost(q) = Len(Head(q)) + 4 + Cost(Tail(q))
<1> DEFINE r == Tail(q)
           n == Len(q) - 1
<1>1. PICK g : Sums(q, g)
  BY SumsExists, Zenon
<1> DEFINE h == [i \in 0..n |-> g[i + 1] - g[1]]
<1>2. /\ r \in Seq(Seq(T)) /\ Len(r) = n /\ n \in Nat
      /\ \A i \in 1..n : r[i] = q[i + 1]
      /\ Head(q) = q[1] /\ Len(q[1]) \in Int
  OBVIOUS
<1>3. h \in [0..n -> Int] /\ h[0] = 0 /\ h[n] = g[Len(q)] - g[1]
  BY <1>1, <1>2 DEF Sums
<1>4. ASSUME NEW i \in 1..n
      PROVE  h[i] = h[i - 1] + Len(r[i]) + 4
  <2>1. h[i] = g[i + 1] - g[1] /\ h[i - 1] = g[i] - g[1]
    BY <1>2
  <2>2. i + 1 \in 1..Len(q) /\ i \in 0..Len(q) /\ (i + 1) - 1 = i
    BY <1>2
  <2>3. g[i + 1] = g[i] + Len(q[i + 1]) + 4
    BY <1>1, <2>2, Zenon DEF Sums
  <2>4. g[i] \in Int /\ g[1] \in Int /\ Len(q[i + 1]) \in Int
    <3>1. \A k \in 0..Len(q) : g[k] \in Int
      BY <1>1, SumsType, Zenon
    <3>2. 1 \in 0..Len(q)
      BY <2>2
    <3>3. Len(q[i + 1]) \in Int
      BY <2>2
    <3> QED
      BY <2>2, <3>1, <3>2, <3>3, Zenon
  <2> HIDE DEF h
  <2>5. r[i] = q[i + 1]
    BY <1>2, Zenon
  <2> QED
    BY <2>1, <2>3, <2>4, <2>5
<1>5. g[1] = Len(q[1]) + 4 /\ g[1] \in Int /\ g[Len(q)] \in Int
  <2>1. g[0] = 0 /\ \A i \in 0..Len(q) : g[i] \in Int
    BY <1>1, SumsType, Zenon
  <2>2. 1 \in 1..Len(q) /\ 1 \in 0..Len(q) /\ Len(q) \in 0..Len(q) /\ 1 - 1 = 0
    BY <1>2
  <2>3. g[1] = g[0] + Len(q[1]) + 4
    BY <1>1, <2>2, Zenon DEF Sums
  <2>4. g[1] \in Int /\ g[Len(q)] \in Int
    BY <2>1, <2>2, Zenon
  <2> HIDE DEF h, r, n
  <2> QED
    BY <1>2, <2>1, <2>3, <2>4
<1> HIDE DEF h, r, n
<1>6. Sums(r, h)
  BY <1>2, <1>3, <1>4, Zenon DEF Sums
<1>7. Cost(r) = h[n] /\ Cost(q) = g[Len(q)]
  BY <1>1, <1>2, <1>6, CostIs, Zenon
<1>8. Cost(q) = Len(q[1]) + 4 + Cost(r)
  BY <1>2, <1>3, <1>5, <1>7
<1> QED
  BY <1>2, <1>8, Zenon DEF r

LEMMA CostType ==
  ASSUME NEW T, NEW q \in Seq(Seq(T))
  PROVE  Cost(q) \in Nat
<1>1. PICK g : Sums(q, g)
  BY SumsExists, Zenon
<1>2. g \in [0..Len(q) -> Int] /\ g[0] = 0
  BY <1>1, Zenon DEF Sums
<1> DEFINE B == {i \in 0..Len(q) : g[i] < 0}
<1>3. B = {}
  <2> SUFFICES ASSUME B # {}
               PROVE  FALSE
    OBVIOUS
  <2>1. B \subseteq Nat
    OBVIOUS
  <2> HIDE DEF B
  <2>2. PICK i \in B : \A j \in B : i <= j
    BY <2>1, LeastOf, Zenon
  <2>3. i \in 1..Len(q) /\ g[i] < 0
    BY <1>2 DEF B
  <2>4. i - 1 \in 0..Len(q) /\ i - 1 \notin B
    BY <2>2, <2>3
  <2>5. g[i - 1] >= 0 /\ g[i - 1] \in Int
    <3>1. g[i - 1] \in Int /\ ~(g[i - 1] < 0)
      BY <1>1, <2>4, SumsType, Zenon DEF B
    <3> QED
      BY <3>1
  <2>6. g[i] = g[i - 1] + Len(q[i]) + 4
    BY <1>1, <2>3, Zenon DEF Sums
  <2>7. Len(q[i]) \in Nat
    BY <2>3
  <2> QED
    BY <2>3, <2>5, <2>6, <2>7
<1>4. g[Len(q)] \in Nat
  BY <1>2, <1>3
<1> QED
  BY <1>1, <1>4, CostIs, Zenon

-----------------------------------------------------------------------------
(* Arithmetic *)

LEMMA Wraps ==
  ASSUME NEW a \in Nat, a < 2 * Cap
  PROVE  a % Cap = (IF a < Cap THEN a ELSE a - Cap) /\ a % Cap \in 0..(Cap - 1)
<1>1. Cap \in Nat \ {0}
  BY CapAssumption
<1>2. \A R \in Nat \ {0} : a < 2 * R => a % R = (IF a < R THEN a ELSE a - R)
  OBVIOUS
<1>3. a % Cap = (IF a < Cap THEN a ELSE a - Cap)
  BY <1>1, <1>2
<1> QED
  BY <1>1, <1>3

\* Four digits hold any length, and give it back.
LEMMA Digits ==
  ASSUME NEW len \in Nat, len <= MaxFrame
  PROVE  /\ Header(len) \in Seq(Byte) /\ Len(Header(len)) = 4
         /\ len = Header(len)[1] + Radix * (Header(len)[2] + Radix *
                    (Header(len)[3] + Radix * Header(len)[4]))
<1> DEFINE q1 == len \div Radix
           q2 == q1 \div Radix
           q3 == q2 \div Radix
<1>1. Radix \in Nat \ {0} /\ len < Radix * (Radix * (Radix * Radix))
  BY RadixAssumption
<1>2. \A a \in Nat : /\ a = Radix * (a \div Radix) + (a % Radix)
                     /\ a \div Radix \in Nat /\ a % Radix \in 0..(Radix - 1)
  BY <1>1
<1>3. \A a, b \in Nat : a < Radix * b => a \div Radix < b
  BY <1>1
<1>4. /\ len = Radix * q1 + (len % Radix) /\ len % Radix \in 0..(Radix - 1)
      /\ q1 = Radix * q2 + (q1 % Radix) /\ q1 % Radix \in 0..(Radix - 1)
      /\ q2 = Radix * q3 + (q2 % Radix) /\ q2 % Radix \in 0..(Radix - 1)
      /\ q1 \in Nat /\ q2 \in Nat /\ q3 \in Nat
  BY <1>2, Zenon
<1>5. q3 < Radix
  <2>1. Radix * Radix \in Nat /\ Radix * (Radix * Radix) \in Nat
    BY <1>1
  <2>2. q1 < Radix * (Radix * Radix)
    BY <1>1, <1>3, <2>1, Zenon
  <2>3. q2 < Radix * Radix
    BY <1>3, <1>4, <2>1, <2>2, Zenon
  <2> QED
    BY <1>1, <1>3, <1>4, <2>3, Zenon
<1> HIDE DEF q1, q2, q3
<1>6. q3 % Radix = q3 /\ q3 \in 0..(Radix - 1)
  BY <1>1, <1>4, <1>5
<1>7. Header(len) = <<len % Radix, q1 % Radix, q2 % Radix, q3 % Radix>>
  BY Zenon DEF Header, q1, q2, q3
<1>8. /\ Header(len)[1] = len % Radix /\ Header(len)[2] = q1 % Radix
      /\ Header(len)[3] = q2 % Radix /\ Header(len)[4] = q3
      /\ Header(len) \in Seq(0..(Radix - 1)) /\ Len(Header(len)) = 4
  BY <1>4, <1>6, <1>7
<1>9. len = (len % Radix) + Radix * ((q1 % Radix) + Radix * ((q2 % Radix) + Radix * q3))
  <2>1. q1 = (q1 % Radix) + Radix * ((q2 % Radix) + Radix * q3)
    <3>1. q2 = (q2 % Radix) + Radix * q3
      BY <1>1, <1>4
    <3>2. q1 = (q1 % Radix) + Radix * q2
      BY <1>1, <1>4
    <3> QED
      BY <3>1, <3>2, Zenon
  <2>2. len = (len % Radix) + Radix * q1
    BY <1>1, <1>4
  <2> QED
    BY <2>1, <2>2, Zenon
<1> QED
  BY <1>8, <1>9, Zenon DEF Byte

-----------------------------------------------------------------------------
(* Bytes before head *)

LEMMA AtIs ==
  ASSUME TypeOK, NEW n \in 0..Cap
  PROVE  /\ At(n) \in 0..(Cap - 1)
         /\ At(n) = IF n <= head THEN head - n ELSE (head + Cap) - n
         /\ \A k \in 0..n : (At(n) + k) % Cap = At(n - k)
<1>1. Cap \in Nat \ {0} /\ head \in 0..(Cap - 1)
  BY CapAssumption DEF TypeOK
<1>2. ASSUME NEW m \in 0..Cap
      PROVE  /\ At(m) = (IF m <= head THEN head - m ELSE (head + Cap) - m)
             /\ At(m) \in 0..(Cap - 1)
  <2>1. (head + Cap) - m \in Nat /\ (head + Cap) - m < 2 * Cap
    BY <1>1
  <2>2. head + Cap - m = (head + Cap) - m
    BY <1>1
  <2>3. At(m) = (IF (head + Cap) - m < Cap THEN (head + Cap) - m
                 ELSE ((head + Cap) - m) - Cap)
    BY <2>1, <2>2, Wraps, Zenon DEF At
  <2> QED
    BY <1>1, <2>3
<1>3. ASSUME NEW k \in 0..n
      PROVE  (At(n) + k) % Cap = At(n - k)
  <2>1. At(n) + k \in Nat /\ At(n) + k < 2 * Cap /\ n - k \in 0..Cap
    BY <1>1, <1>2
  <2>2. (At(n) + k) % Cap = IF At(n) + k < Cap THEN At(n) + k ELSE (At(n) + k) - Cap
    BY <2>1, Wraps, Zenon
  <2>3. /\ At(n) = IF n <= head THEN head - n ELSE (head + Cap) - n
        /\ At(n - k) = IF n - k <= head THEN head - (n - k) ELSE (head + Cap) - (n - k)
    BY <1>2, <2>1, Zenon
  <2> QED
    BY <1>1, <2>2, <2>3
<1> QED
  BY <1>2, <1>3

LEMMA UsedIs ==
  ASSUME TypeOK
  PROVE  Used \in 0..(Cap - 1) /\ At(Used) = tail
<1>1. Cap \in Nat \ {0} /\ head \in 0..(Cap - 1) /\ tail \in 0..(Cap - 1)
  BY CapAssumption DEF TypeOK
<1>2. (head + Cap) - tail \in Nat /\ (head + Cap) - tail < 2 * Cap
  BY <1>1
<1>3. /\ Used = (IF (head + Cap) - tail < Cap THEN (head + Cap) - tail
                 ELSE ((head + Cap) - tail) - Cap)
      /\ Used \in 0..(Cap - 1)
  <2>1. head + Cap - tail = (head + Cap) - tail
    BY <1>1
  <2> QED
    BY <1>2, <2>1, Wraps, Zenon DEF Used
<1>4. Used \in 0..Cap
  BY <1>1, <1>3
<1>5. At(Used) = IF Used <= head THEN head - Used ELSE (head + Cap) - Used
  BY <1>4, AtIs, Zenon
<1> QED
  BY <1>1, <1>3, <1>5

LEMMA ReadingIs == TypeOK => Reading
<1> SUFFICES ASSUME TypeOK, NEW n \in 4..Cap
             PROVE  /\ LenAt(n) = Value(n) /\ Value(n) \in Nat
                    /\ WholeAt(n) =>
                         /\ FrameAt(n) \in Seq(Byte) /\ Len(FrameAt(n)) = Value(n)
                         /\ FrameAt(n) = [k \in 1..Value(n) |-> Back((n - 3) - k)]
  BY Zenon DEF Reading
<1>1. Cap \in Nat \ {0} /\ n \in 0..Cap /\ Radix \in Nat \ {0}
  BY CapAssumption, RadixAssumption
<1>2. /\ (At(n) + 0) % Cap = At(n - 0) /\ (At(n) + 1) % Cap = At(n - 1)
      /\ (At(n) + 2) % Cap = At(n - 2) /\ (At(n) + 3) % Cap = At(n - 3)
      /\ (At(n) + 4) % Cap = At(n - 4) /\ n - 0 = n
  <2>1. 0 \in 0..n /\ 1 \in 0..n /\ 2 \in 0..n /\ 3 \in 0..n /\ 4 \in 0..n /\ n - 0 = n
    BY <1>1
  <2> QED
    BY <1>1, <2>1, AtIs, Zenon
<1>3. ASSUME NEW k \in 1..Cap
      PROVE  Back(k) \in Byte /\ Back(k) \in Nat
  <2>1. k \in 0..Cap
    BY <1>1
  <2>2. At(k) \in 0..(Cap - 1) /\ buf \in [0..(Cap - 1) -> Byte]
    BY <2>1, AtIs, Zenon DEF TypeOK
  <2>3. Back(k) \in Byte
    BY <2>2, Zenon DEF Back
  <2> QED
    BY <1>1, <2>3 DEF Byte
<1>4. LenAt(n) = Value(n)
  BY <1>2, Zenon DEF LenAt, ReadU32, Value, Back
<1>5. Value(n) \in Nat
  <2>1. n \in 1..Cap /\ n - 1 \in 1..Cap /\ n - 2 \in 1..Cap /\ n - 3 \in 1..Cap
    BY <1>1
  <2>2. Back(n) \in Nat /\ Back(n - 1) \in Nat /\ Back(n - 2) \in Nat /\ Back(n - 3) \in Nat
    BY <1>3, <2>1, Zenon
  <2>3. \A a, b \in Nat : a + Radix * b \in Nat
    BY <1>1
  <2> QED
    BY <2>2, <2>3, Zenon DEF Value
<1>6. ASSUME WholeAt(n)
      PROVE  FrameAt(n) = [k \in 1..Value(n) |-> Back((n - 3) - k)]
  <2>1. Value(n) + 4 <= n
    BY <1>4, <1>6, Zenon DEF WholeAt
  <2>2. ASSUME NEW k \in 1..Value(n)
        PROVE  buf[(At(n - 4) + k - 1) % Cap] = Back((n - 3) - k)
    <3>1. n - 4 \in 0..Cap /\ k - 1 \in 0..(n - 4) /\ (n - 4) - (k - 1) = (n - 3) - k
      BY <1>1, <1>5, <2>1
    <3>2. (At(n - 4) + (k - 1)) % Cap = At((n - 3) - k)
      BY <3>1, AtIs, Zenon
    <3>3. At(n - 4) + k - 1 = At(n - 4) + (k - 1)
      <4>1. At(n - 4) \in 0..(Cap - 1)
        BY <3>1, AtIs, Zenon
      <4> QED
        BY <1>1, <4>1
    <3> QED
      BY <3>2, <3>3, Zenon DEF Back
  <2> QED
    BY <1>2, <1>4, <2>2, Zenon DEF FrameAt, ReadRaw
<1>7. ASSUME WholeAt(n)
      PROVE  FrameAt(n) \in Seq(Byte) /\ Len(FrameAt(n)) = Value(n)
  <2>1. Value(n) + 4 <= n
    BY <1>4, <1>7, Zenon DEF WholeAt
  <2>2. ASSUME NEW k \in 1..Value(n)
        PROVE  Back((n - 3) - k) \in Byte
    <3>1. (n - 3) - k \in 1..Cap
      BY <1>1, <1>5, <2>1
    <3> QED
      BY <1>3, <3>1, Zenon
  <2> QED
    BY <1>5, <1>6, <1>7, <2>2
<1> QED
  BY <1>4, <1>5, <1>6, <1>7, Zenon

-----------------------------------------------------------------------------
(* The recursion of Records *)

LEMMA ParsedIs == TypeOK => Parsed
<1> SUFFICES ASSUME TypeOK
             PROVE  Parsed
  OBVIOUS
<1> DEFINE rest(n) == n - LenAt(n) - 4
           R(f) == [n \in 0..Cap |-> IF WholeAt(n) THEN <<FrameAt(n)>> \o f[rest(n)] ELSE <<>>]
           S(n, f) == f = [i \in 0..n |-> IF WholeAt(i) THEN <<FrameAt(i)>> \o f[rest(i)]
                                          ELSE <<>>]
<1>1. Cap \in Nat \ {0}
  BY CapAssumption
<1>2. ASSUME NEW n \in 0..Cap, WholeAt(n)
      PROVE  n \in 4..Cap /\ rest(n) \in 0..(n - 1) /\ FrameAt(n) \in Seq(Byte)
  <2>1. n \in 4..Cap
    BY <1>1, <1>2 DEF WholeAt
  <2>2. LenAt(n) \in Nat /\ FrameAt(n) \in Seq(Byte)
    BY <1>2, <2>1, ReadingIs, Zenon DEF Reading
  <2>3. LenAt(n) + 4 <= n
    BY <1>2, Zenon DEF WholeAt
  <2> QED
    BY <1>1, <2>1, <2>2, <2>3
<1> HIDE DEF rest
<1>3. \E f : f = R(f)
  <2> DEFINE B == {n \in 0..Cap : ~ \E f : S(n, f)}
  <2>1. B = {}
    <3> SUFFICES ASSUME B # {}
                 PROVE  FALSE
      OBVIOUS
    <3>1. B \subseteq Nat
      BY <1>1
    <3> HIDE DEF B
    <3>2. PICK n \in B : \A m \in B : n <= m
      BY <3>1, LeastOf, Zenon
    <3>3. n \in 0..Cap /\ ~ \E f : S(n, f)
      BY Zenon DEF B
    <3>4. CASE n = 0
      <4>1. ~WholeAt(0)
        BY DEF WholeAt
      <4>2. S(0, [i \in 0..0 |-> <<>>])
        <5>1. \A i \in 0..0 : i = 0
          OBVIOUS
        <5> QED
          BY <4>1, <5>1, Zenon
      <4> QED
        BY <3>3, <3>4, <4>2, Zenon
    <3>5. CASE n # 0
      <4>1. n - 1 \in 0..Cap /\ n - 1 \notin B
        BY <1>1, <3>2, <3>3, <3>5
      <4>2. PICK g : S(n - 1, g)
        BY <4>1, Zenon DEF B
      <4> DEFINE h == [i \in 0..n |-> IF WholeAt(i) THEN <<FrameAt(i)>> \o g[rest(i)]
                                      ELSE <<>>]
      <4>3. \A i \in 0..(n - 1) : h[i] = g[i]
        <5>1. \A i \in 0..(n - 1) : i \in 0..n
          BY <3>3
        <5> QED
          BY <4>2, <5>1, Zenon
      <4>4. ASSUME NEW i \in 0..n, WholeAt(i)
            PROVE  g[rest(i)] = h[rest(i)]
        <5>1. i \in 0..Cap
          BY <1>1, <3>3
        <5>2. rest(i) \in 0..(i - 1)
          BY <1>2, <4>4, <5>1, Zenon
        <5>3. rest(i) \in 0..(n - 1)
          BY <3>3, <5>2
        <5> QED
          BY <4>3, <5>3, Zenon
      <4>5. S(n, h)
        BY <4>4, Zenon
      <4> QED
        BY <3>3, <4>5, Zenon
    <3> QED
      BY <3>4, <3>5
  <2>2. Cap \in 0..Cap
    BY <1>1
  <2>3. PICK f : S(Cap, f)
    BY <2>1, <2>2, Zenon
  <2> QED
    BY <2>3, Zenon
<1> DEFINE f == CHOOSE f : f = R(f)
<1>4. Records = f[Used]
  BY Zenon DEF Records, rest
<1> HIDE DEF R
<1>5. f = R(f)
  BY <1>3, Zenon
<1> HIDE DEF f
<1>6. \A n \in 0..Cap : f[n] = IF WholeAt(n) THEN <<FrameAt(n)>> \o f[rest(n)] ELSE <<>>
  BY <1>5, Zenon DEF R
<1>7. \A n \in 0..Cap : f[n] \in Seq(Seq(Byte))
  <2> DEFINE B == {n \in 0..Cap : f[n] \notin Seq(Seq(Byte))}
  <2>1. B = {}
    <3> SUFFICES ASSUME B # {}
                 PROVE  FALSE
      OBVIOUS
    <3>1. B \subseteq Nat
      BY <1>1
    <3> HIDE DEF B
    <3>2. PICK n \in B : \A m \in B : n <= m
      BY <3>1, LeastOf, Zenon
    <3>3. n \in 0..Cap /\ f[n] \notin Seq(Seq(Byte))
      BY Zenon DEF B
    <3>4. CASE WholeAt(n)
      <4>1. rest(n) \in 0..(n - 1) /\ FrameAt(n) \in Seq(Byte)
        BY <1>2, <3>3, <3>4, Zenon
      <4>2. rest(n) \in 0..Cap /\ rest(n) \notin B
        BY <1>1, <3>2, <3>3, <4>1
      <4>3. f[rest(n)] \in Seq(Seq(Byte))
        BY <4>2, Zenon DEF B
      <4>4. \A s \in Seq(Seq(Byte)), v \in Seq(Byte) : <<v>> \o s \in Seq(Seq(Byte))
        OBVIOUS
      <4> QED
        BY <1>6, <3>3, <3>4, <4>1, <4>3, <4>4, Zenon
    <3>5. CASE ~WholeAt(n)
      <4>1. <<>> \in Seq(Seq(Byte))
        OBVIOUS
      <4> QED
        BY <1>6, <3>3, <3>5, <4>1, Zenon
    <3> QED
      BY <3>4, <3>5
  <2> QED
    BY <2>1, Zenon
<1>8. DOMAIN f = 0..Cap /\ f = [n \in DOMAIN f |-> f[n]]
  BY <1>5, Zenon DEF R
<1>9. f \in [0..Cap -> Seq(Seq(Byte))]
  BY <1>7, <1>8, Zenon
<1>10. Parse(f)
  BY <1>6, <1>9, Zenon DEF Parse, rest
<1> QED
  BY <1>4, <1>10, Zenon DEF Parsed

\* What the oldest record is, and what is left of it
Rest(n) == n - LenAt(n) - 4

Leads(f, n) ==
  /\ n \in 4..Cap /\ LenAt(n) \in Nat /\ Rest(n) \in 0..(n - 1)
  /\ FrameAt(n) \in Seq(Byte) /\ Len(FrameAt(n)) = LenAt(n)
  /\ f[n] = <<FrameAt(n)>> \o f[Rest(n)]
  /\ f[n] # <<>> /\ Head(f[n]) = FrameAt(n) /\ Tail(f[n]) = f[Rest(n)]
  /\ f[Rest(n)] \in Seq(Seq(Byte)) /\ Cost(f[Rest(n)]) \in Nat
  /\ Cost(f[n]) = LenAt(n) + 4 + Cost(f[Rest(n)])

LEMMA FrontIs ==
  ASSUME TypeOK, NEW f, Parse(f), NEW n \in 0..Cap
  PROVE  /\ f[n] \in Seq(Seq(Byte)) /\ Cost(f[n]) \in Nat
         /\ IF WholeAt(n) THEN Leads(f, n) ELSE f[n] = <<>>
<1>1. \A i \in 0..Cap : f[i] \in Seq(Seq(Byte))
  BY Zenon DEF Parse
<1>2. CASE ~WholeAt(n)
  BY <1>1, <1>2, CostType, Zenon DEF Parse
<1>3. CASE WholeAt(n)
  <2>1. n \in 4..Cap
    BY <1>3, CapAssumption DEF WholeAt
  <2>2. LenAt(n) \in Nat /\ FrameAt(n) \in Seq(Byte) /\ Len(FrameAt(n)) = LenAt(n)
    BY <1>3, <2>1, ReadingIs, Zenon DEF Reading
  <2>3. LenAt(n) + 4 <= n
    BY <1>3, Zenon DEF WholeAt
  <2>4. Rest(n) \in 0..(n - 1) /\ Rest(n) \in 0..Cap
    BY <2>1, <2>2, <2>3, CapAssumption DEF Rest
  <2>5. f[n] = <<FrameAt(n)>> \o f[Rest(n)]
    BY <1>3, Zenon DEF Parse, Rest
  <2>6. f[Rest(n)] \in Seq(Seq(Byte))
    BY <1>1, <2>4, Zenon
  <2>7. \A s \in Seq(Seq(Byte)), v \in Seq(Byte) :
          <<v>> \o s # <<>> /\ Head(<<v>> \o s) = v /\ Tail(<<v>> \o s) = s
    OBVIOUS
  <2>8. f[n] # <<>> /\ Head(f[n]) = FrameAt(n) /\ Tail(f[n]) = f[Rest(n)]
    BY <2>2, <2>5, <2>6, <2>7, Zenon
  <2>9. Cost(f[n]) = LenAt(n) + 4 + Cost(f[Rest(n)])
    BY <1>1, <2>2, <2>8, CostTail, Zenon
  <2> QED
    BY <1>1, <1>3, <2>1, <2>2, <2>4, <2>5, <2>6, <2>8, <2>9, CostType, Zenon DEF Leads
<1> QED
  BY <1>2, <1>3, Zenon

-----------------------------------------------------------------------------
(* PushFrame *)

\* A frame that is pushed becomes the bytes nearest to head, and moves all others
\* away from it.
Stored(f) ==
  LET data == Header(Len(f)) \o f
      n == Len(f) + 4
  IN /\ \A k \in 1..Used : Back(k + n)' = Back(k)
     /\ \A k \in 1..n : Back(k)' = data[n - k + 1]

LEMMA PushStores ==
  ASSUME TypeOK, NEW f \in Seq(Byte), Len(f) \in 1..MaxFrame, HasRoom(Len(f)),
         buf' = WriteRaw(Header(Len(f)) \o f, head),
         head' = (head + Len(f) + 4) % Cap, tail' = tail
  PROVE  /\ buf' \in [0..(Cap - 1) -> Byte] /\ head' \in 0..(Cap - 1)
         /\ Used' = Used + Len(f) + 4 /\ Stored(f)
<1> DEFINE data == Header(Len(f)) \o f
           n == Len(f) + 4
           place(i) == ((i + Cap - head) % Cap) + 1
<1>0. buf \in [0..(Cap - 1) -> Byte]
  BY Zenon DEF TypeOK
<1>1. Cap \in Nat \ {0} /\ head \in 0..(Cap - 1) /\ tail \in 0..(Cap - 1)
  BY CapAssumption DEF TypeOK
<1>2. Len(f) \in Nat /\ Len(f) <= MaxFrame /\ n \in Nat /\ n >= 5
  BY RadixAssumption
<1>3. data \in Seq(Byte) /\ Len(data) = n /\ DOMAIN data = 1..n
  <2>1. Header(Len(f)) \in Seq(Byte) /\ Len(Header(Len(f))) = 4
    BY <1>2, Digits, Zenon
  <2>2. \A a, b \in Seq(Byte) : /\ a \o b \in Seq(Byte) /\ Len(a \o b) = Len(a) + Len(b)
                               /\ DOMAIN (a \o b) = 1..Len(a \o b)
    OBVIOUS
  <2>3. /\ data \in Seq(Byte) /\ Len(data) = Len(Header(Len(f))) + Len(f)
        /\ DOMAIN data = 1..Len(data)
    BY <2>1, <2>2, Zenon
  <2>4. Len(Header(Len(f))) + Len(f) = n
    BY <1>2, <2>1
  <2> QED
    BY <2>3, <2>4, Zenon
<1>4. Used \in 0..(Cap - 1) /\ Used + n <= Cap - 1
  <2>1. Used \in 0..(Cap - 1)
    BY UsedIs, Zenon
  <2> QED
    BY <1>2, <2>1 DEF HasRoom
<1> HIDE DEF data, n
<1>5. /\ head' = IF head + n < Cap THEN head + n ELSE (head + n) - Cap
      /\ head' \in 0..(Cap - 1)
  <2>1. head + n \in Nat /\ head + n < 2 * Cap
    BY <1>1, <1>2, <1>4
  <2>2. head + Len(f) + 4 = head + n
    BY <1>1, <1>2 DEF n
  <2> QED
    BY <2>1, <2>2, Wraps, Zenon
<1>6. ASSUME NEW i \in 0..(Cap - 1)
      PROVE  /\ place(i) = (IF i >= head THEN i - head ELSE (i + Cap) - head) + 1
             /\ place(i) \in 1..Cap
             /\ buf'[i] = IF place(i) \in 1..n THEN data[place(i)] ELSE buf[i]
             /\ buf'[i] \in Byte
  <2>1. (i + Cap) - head \in Nat /\ (i + Cap) - head < 2 * Cap
    BY <1>1
  <2>2. i + Cap - head = (i + Cap) - head
    BY <1>1
  <2>3. (i + Cap - head) % Cap = IF (i + Cap) - head < Cap THEN (i + Cap) - head
                                 ELSE ((i + Cap) - head) - Cap
    BY <2>1, <2>2, Wraps, Zenon
  <2>4. /\ place(i) = (IF i >= head THEN i - head ELSE (i + Cap) - head) + 1
        /\ place(i) \in 1..Cap
    BY <1>1, <2>3, SMTT(30) DEF place
  <2>5. buf'[i] = IF place(i) \in 1..n THEN data[place(i)] ELSE buf[i]
    <3>1. DOMAIN buf = 0..(Cap - 1)
      BY <1>0
    <3>2. buf' = WriteRaw(data, head)
      BY Zenon DEF data
    <3> QED
      BY <1>3, <3>1, <3>2, Zenon DEF WriteRaw
  <2> HIDE DEF place
  <2>6. buf'[i] \in Byte
    <3>1. \A k \in 1..n : data[k] \in Byte
      BY <1>3
    <3>2. buf[i] \in Byte
      BY <1>0
    <3> QED
      BY <2>5, <3>1, <3>2, Zenon
  <2> QED
    BY <2>4, <2>5, <2>6, Zenon
<1> HIDE DEF place
<1>7. buf' \in [0..(Cap - 1) -> Byte]
  <2>1. DOMAIN buf' = 0..(Cap - 1) /\ buf' = [i \in DOMAIN buf' |-> buf'[i]]
    <3>1. DOMAIN buf = 0..(Cap - 1)
      BY <1>0
    <3> QED
      BY <3>1, Zenon DEF WriteRaw
  <2> QED
    BY <1>6, <2>1, Zenon
<1>8. Used' = Used + n
  <2>1. (head + Cap) - tail \in Nat /\ (head + Cap) - tail < 2 * Cap
    BY <1>1
  <2>2. (head' + Cap) - tail \in Nat /\ (head' + Cap) - tail < 2 * Cap
    BY <1>1, <1>5
  <2>3. Used = IF (head + Cap) - tail < Cap THEN (head + Cap) - tail
               ELSE ((head + Cap) - tail) - Cap
    <3>1. head + Cap - tail = (head + Cap) - tail
      BY <1>1
    <3> QED
      BY <2>1, <3>1, Wraps, Zenon DEF Used
  <2>4. Used' = IF (head' + Cap) - tail < Cap THEN (head' + Cap) - tail
                ELSE ((head' + Cap) - tail) - Cap
    <3>1. head' + Cap - tail = (head' + Cap) - tail
      BY <1>1, <1>5
    <3> QED
      BY <2>2, <3>1, Wraps, Zenon DEF Used
  <2> QED
    BY <1>1, <1>2, <1>4, <1>5, <2>3, <2>4
<1>9. ASSUME NEW k \in 1..(Cap - 1)
      PROVE  /\ At(k)' \in 0..(Cap - 1)
             /\ At(k)' = IF k <= head' THEN head' - k ELSE (head' + Cap) - k
  <2>1. (head' + Cap) - k \in Nat /\ (head' + Cap) - k < 2 * Cap
    BY <1>1, <1>5
  <2>2. head' + Cap - k = (head' + Cap) - k
    BY <1>1, <1>5
  <2>3. At(k)' = IF (head' + Cap) - k < Cap THEN (head' + Cap) - k
                 ELSE ((head' + Cap) - k) - Cap
    BY <2>1, <2>2, Wraps, Zenon DEF At
  <2> QED
    BY <1>1, <1>5, <2>3, SMTT(30)
<1>10. ASSUME NEW k \in 1..Used
       PROVE  Back(k + n)' = Back(k)
  <2>1. k + n \in 1..(Cap - 1) /\ k \in 0..Cap
    BY <1>1, <1>2, <1>4
  <2>2. /\ At(k + n)' \in 0..(Cap - 1)
        /\ At(k + n)' = IF k + n <= head' THEN head' - (k + n) ELSE (head' + Cap) - (k + n)
    BY <1>9, <2>1, Zenon
  <2>3. At(k) = (IF k <= head THEN head - k ELSE (head + Cap) - k) /\ At(k) \in 0..(Cap - 1)
    BY <2>1, AtIs, Zenon
  <2>4. At(k + n)' = At(k)
    BY <1>1, <1>2, <1>4, <1>5, <2>1, <2>2, <2>3, SMTT(30)
  <2>5. place(At(k)) = (IF At(k) >= head THEN At(k) - head ELSE (At(k) + Cap) - head) + 1
    BY <1>6, <2>3, Zenon
  <2>6. place(At(k)) \notin 1..n
    BY <1>1, <1>2, <1>4, <2>1, <2>3, <2>5
  <2>7. buf'[At(k)] = buf[At(k)]
    BY <1>6, <2>3, <2>6, Zenon
  <2> QED
    BY <2>4, <2>7, Zenon DEF Back
<1>11. ASSUME NEW k \in 1..n
       PROVE  Back(k)' = data[n - k + 1]
  <2>1. k \in 1..(Cap - 1)
    BY <1>1, <1>2, <1>4
  <2>2. /\ At(k)' \in 0..(Cap - 1)
        /\ At(k)' = IF k <= head' THEN head' - k ELSE (head' + Cap) - k
    BY <1>9, <2>1, Zenon
  <2>3. place(At(k)') = (IF At(k)' >= head THEN At(k)' - head ELSE (At(k)' + Cap) - head) + 1
    BY <1>6, <2>2, Zenon
  <2>4. place(At(k)') = n - k + 1 /\ n - k + 1 \in 1..n
    BY <1>1, <1>2, <1>4, <1>5, <2>1, <2>2, <2>3
  <2>5. buf'[At(k)'] = data[n - k + 1]
    BY <1>6, <2>2, <2>4, Zenon
  <2> QED
    BY <2>5, Zenon DEF Back
<1>12. Used' = Used + Len(f) + 4
  <2>1. Used + n = Used + Len(f) + 4
    BY <1>2, <1>4 DEF n
  <2> QED
    BY <1>8, <2>1, Zenon
<1> QED
  BY <1>5, <1>7, <1>10, <1>11, <1>12, Zenon DEF Stored, data, n

\* The bytes nearest to head read back as the frame.
LEMMA NewestRead ==
  ASSUME Reading', NEW f \in Seq(Byte), Len(f) \in 1..MaxFrame, Len(f) + 4 <= Cap, Stored(f)
  PROVE  WholeAt(Len(f) + 4)' /\ LenAt(Len(f) + 4)' = Len(f) /\ FrameAt(Len(f) + 4)' = f
<1> DEFINE n == Len(f) + 4
           hdr == Header(Len(f))
           data == hdr \o f
<1>1. Len(f) \in Nat /\ Len(f) <= MaxFrame /\ n \in 4..Cap /\ n >= 5
  BY RadixAssumption, CapAssumption
<1>2. hdr \in Seq(Byte) /\ Len(hdr) = 4
  BY <1>1, Digits, Zenon
<1>3. \A k \in 1..n : Back(k)' = data[n - k + 1]
  BY Zenon DEF Stored
<1>4. /\ data[1] = hdr[1] /\ data[2] = hdr[2] /\ data[3] = hdr[3] /\ data[4] = hdr[4]
      /\ \A k \in 1..Len(f) : data[k + 4] = f[k]
  <2>1. \A a, b \in Seq(Byte) : /\ \A i \in 1..Len(a) : (a \o b)[i] = a[i]
                               /\ \A i \in 1..Len(b) : (a \o b)[i + Len(a)] = b[i]
    OBVIOUS
  <2> HIDE DEF hdr
  <2>2. 1 \in 1..4 /\ 2 \in 1..4 /\ 3 \in 1..4 /\ 4 \in 1..4 /\ f \in Seq(Byte)
    OBVIOUS
  <2>3. /\ \A i \in 1..Len(hdr) : data[i] = hdr[i]
        /\ \A i \in 1..Len(f) : data[i + Len(hdr)] = f[i]
    BY <1>2, <2>1, <2>2, Zenon
  <2> HIDE DEF data
  <2>4. data[1] = hdr[1] /\ data[2] = hdr[2] /\ data[3] = hdr[3] /\ data[4] = hdr[4]
    BY <1>2, <2>2, <2>3, Zenon
  <2> QED
    BY <1>2, <2>3, <2>4, Zenon
<1> HIDE DEF n, data, hdr
<1>5. Value(n)' = Len(f)
  <2>1. /\ n \in 1..n /\ n - 1 \in 1..n /\ n - 2 \in 1..n /\ n - 3 \in 1..n
        /\ n - n + 1 = 1 /\ n - (n - 1) + 1 = 2 /\ n - (n - 2) + 1 = 3 /\ n - (n - 3) + 1 = 4
    BY <1>1
  <2>2. /\ Back(n)' = hdr[1] /\ Back(n - 1)' = hdr[2]
        /\ Back(n - 2)' = hdr[3] /\ Back(n - 3)' = hdr[4]
    BY <1>3, <1>4, <2>1, Zenon
  <2>3. Len(f) = hdr[1] + Radix * (hdr[2] + Radix * (hdr[3] + Radix * hdr[4]))
    BY <1>1, Digits, Zenon DEF hdr
  <2> QED
    BY <2>2, <2>3, Zenon DEF Value
<1>6. LenAt(n)' = Len(f)
  BY <1>1, <1>5, Zenon DEF Reading
<1>7. WholeAt(n)'
  BY <1>1, <1>6 DEF WholeAt, n
<1>8. FrameAt(n)' = f
  <2>1. FrameAt(n)' = [k \in 1..Len(f) |-> Back((n - 3) - k)']
    BY <1>1, <1>5, <1>7, Zenon DEF Reading
  <2>2. ASSUME NEW k \in 1..Len(f)
        PROVE  Back((n - 3) - k)' = f[k]
    <3>1. (n - 3) - k \in 1..n /\ n - ((n - 3) - k) + 1 = k + 4
      BY <1>1 DEF n
    <3> QED
      BY <1>3, <1>4, <3>1, Zenon
  <2>3. FrameAt(n)' = [k \in 1..Len(f) |-> f[k]]
    BY <2>1, <2>2, Zenon
  <2> QED
    BY <2>3
<1> QED
  BY <1>6, <1>7, <1>8, Zenon DEF n

\* The bytes farther from head read as they did.
LEMMA OthersRead ==
  ASSUME Reading, Reading', Used \in 0..(Cap - 1), NEW f \in Seq(Byte), Stored(f),
         Used + Len(f) + 4 <= Cap, NEW m \in 0..Used, WholeAt(m)
  PROVE  /\ WholeAt(m + Len(f) + 4)' /\ LenAt(m + Len(f) + 4)' = LenAt(m)
         /\ FrameAt(m + Len(f) + 4)' = FrameAt(m)
<1> DEFINE n == Len(f) + 4
           p == m + Len(f) + 4
<1>1. /\ Len(f) \in Nat /\ n \in Nat /\ Used \in Nat /\ Used + n <= Cap
      /\ m \in 0..Used /\ p = m + n /\ Cap \in Nat
  BY CapAssumption
<1>2. m \in 4..Cap /\ p \in 4..Cap /\ m \in 4..Used
  BY <1>1 DEF WholeAt
<1>3. /\ LenAt(m) = Value(m) /\ Value(m) \in Nat
      /\ FrameAt(m) = [k \in 1..Value(m) |-> Back((m - 3) - k)]
  BY <1>2, Zenon DEF Reading
<1>4. \A k \in 1..Used : Back(k + n)' = Back(k)
  BY Zenon DEF Stored
<1> HIDE DEF n, p
<1>5. Value(p)' = Value(m)
  <2>1. /\ m \in 1..Used /\ m - 1 \in 1..Used /\ m - 2 \in 1..Used /\ m - 3 \in 1..Used
        /\ p = m + n /\ p - 1 = (m - 1) + n /\ p - 2 = (m - 2) + n /\ p - 3 = (m - 3) + n
    BY <1>1, <1>2
  <2>2. /\ Back(p)' = Back(m) /\ Back(p - 1)' = Back(m - 1)
        /\ Back(p - 2)' = Back(m - 2) /\ Back(p - 3)' = Back(m - 3)
    BY <1>4, <2>1, Zenon
  <2> QED
    BY <2>2, Zenon DEF Value
<1>6. LenAt(p)' = LenAt(m)
  BY <1>2, <1>3, <1>5, Zenon DEF Reading
<1>7. WholeAt(p)'
  <2>1. LenAt(m) > 0 /\ LenAt(m) + 4 <= m /\ LenAt(m) \in Nat
    BY <1>3, Zenon DEF WholeAt
  <2>2. p >= 4 /\ LenAt(m) + 4 <= p
    BY <1>1, <1>2, <2>1
  <2> QED
    BY <1>6, <2>1, <2>2, Zenon DEF WholeAt
<1>8. FrameAt(p)' = FrameAt(m)
  <2>1. FrameAt(p)' = [k \in 1..Value(m) |-> Back((p - 3) - k)']
    BY <1>2, <1>5, <1>7, Zenon DEF Reading
  <2>2. Value(m) + 4 <= m
    BY <1>3, Zenon DEF WholeAt
  <2>3. ASSUME NEW k \in 1..Value(m)
        PROVE  Back((p - 3) - k)' = Back((m - 3) - k)
    <3>1. (m - 3) - k \in 1..Used /\ (p - 3) - k = ((m - 3) - k) + n
      BY <1>1, <1>2, <1>3, <2>2
    <3> QED
      BY <1>4, <3>1, Zenon
  <2> QED
    BY <1>3, <2>1, <2>3, Zenon
<1> QED
  BY <1>6, <1>7, <1>8, Zenon DEF p

LEMMA AppendBehind ==
  ASSUME NEW S, NEW v \in S, NEW s \in Seq(S), NEW f \in S
  PROVE  <<v>> \o Append(s, f) = Append(<<v>> \o s, f)
<1>1. <<v>> \in Seq(S) /\ <<f>> \in Seq(S)
  OBVIOUS
<1>2. (<<v>> \o s) \o <<f>> = <<v>> \o (s \o <<f>>)
  BY <1>1, ConcatAssociative
<1>3. \A t \in Seq(S) : Append(t, f) = t \o <<f>>
  OBVIOUS
<1>4. <<v>> \o s \in Seq(S)
  BY <1>1
<1> QED
  BY <1>2, <1>3, <1>4, Zenon

\* Wherever reading finds nothing but records, it finds the frame after them.
LEMMA PushParses ==
  ASSUME TypeOK, TypeOK', NEW f \in Seq(Byte), Len(f) \in 1..MaxFrame, Stored(f),
         Used + Len(f) + 4 <= Cap, NEW g, Parse(g), NEW h, Parse(h)'
  PROVE  \A m \in 0..Used : Cost(g[m]) = m => h[m + Len(f) + 4] = Append(g[m], f)
<1> DEFINE n == Len(f) + 4
           B == {m \in 0..Used : Cost(g[m]) = m /\ h[m + Len(f) + 4] # Append(g[m], f)}
<1>1. /\ Used \in 0..(Cap - 1) /\ Len(f) \in Nat /\ n \in Nat /\ Used + n <= Cap
      /\ n >= 5 /\ Cap \in Nat /\ Used \in Nat
  <2>1. Used \in 0..(Cap - 1)
    BY UsedIs, Zenon
  <2> QED
    BY <2>1, CapAssumption, RadixAssumption
<1>2. Reading /\ Reading'
  <2>1. (TypeOK => Reading)'
    BY ReadingIs, PTL
  <2> QED
    BY <2>1, ReadingIs, Zenon
<1>3. \A k \in 0..Cap : h[k] = IF WholeAt(k)' THEN <<FrameAt(k)'>> \o h[k - LenAt(k)' - 4]
                               ELSE <<>>
  BY Zenon DEF Parse
<1>4. B = {}
  <2> SUFFICES ASSUME B # {}
               PROVE  FALSE
    OBVIOUS
  <2>1. B \subseteq Nat
    BY <1>1
  <2> HIDE DEF B
  <2>2. PICK m \in B : \A k \in B : m <= k
    BY <2>1, LeastOf, Zenon
  <2>3. m \in 0..Used /\ Cost(g[m]) = m /\ h[m + Len(f) + 4] # Append(g[m], f)
    BY Zenon DEF B
  <2>4. m \in 0..Cap /\ m + Len(f) + 4 \in 0..Cap
    BY <1>1, <2>3
  <2>5. /\ g[m] \in Seq(Seq(Byte))
        /\ IF WholeAt(m) THEN Leads(g, m) ELSE g[m] = <<>>
    BY <2>4, FrontIs, Zenon
  <2>6. CASE ~WholeAt(m)
    <3>1. g[m] = <<>> /\ m = 0
      BY <2>3, <2>5, <2>6, CostEmpty, Zenon
    <3>2. WholeAt(n)' /\ LenAt(n)' = Len(f) /\ FrameAt(n)' = f
      <4>1. Len(f) + 4 <= Cap
        BY <1>1
      <4> QED
        BY <1>2, <4>1, NewestRead, Zenon
    <3>3. n \in 0..Cap /\ n - Len(f) - 4 = 0 /\ 0 \in 0..Cap
      BY <1>1
    <3>4. h[n] = <<f>> \o h[0]
      BY <1>3, <3>2, <3>3, Zenon
    <3>5. h[0] = <<>>
      <4>1. ~WholeAt(0)'
        BY DEF WholeAt
      <4> QED
        BY <1>3, <3>3, <4>1, Zenon
    <3>6. <<f>> \o <<>> = Append(<<>>, f)
      OBVIOUS
    <3>7. m + Len(f) + 4 = n
      BY <1>1, <3>1
    <3> QED
      BY <2>3, <3>1, <3>4, <3>5, <3>6, <3>7, Zenon
  <2>7. CASE WholeAt(m)
    <3> DEFINE v == FrameAt(m)
               r == Rest(m)
    <3>1. Leads(g, m)
      BY <2>5, <2>7, Zenon
    <3>2. /\ r \in 0..(m - 1) /\ LenAt(m) \in Nat /\ v \in Seq(Byte) /\ Len(v) = LenAt(m)
          /\ g[m] = <<v>> \o g[r] /\ g[r] \in Seq(Seq(Byte)) /\ Cost(g[r]) \in Nat
          /\ Cost(g[m]) = LenAt(m) + 4 + Cost(g[r])
      BY <3>1, Zenon DEF Leads
    <3>3. r = m - LenAt(m) - 4
      BY Zenon DEF Rest
    <3> HIDE DEF v, r
    <3>4. Cost(g[r]) = r
      <4>1. m \in Int /\ LenAt(m) \in Int /\ Cost(g[r]) \in Int
        BY <1>1, <2>3, <3>2
      <4>2. m = LenAt(m) + 4 + Cost(g[r])
        BY <2>3, <3>2, Zenon
      <4> QED
        BY <3>3, <4>1, <4>2
    <3>5. r \in 0..Used /\ r \notin B
      BY <1>1, <2>2, <2>3, <3>2
    <3>6. h[r + Len(f) + 4] = Append(g[r], f)
      BY <3>4, <3>5, Zenon DEF B
    <3> DEFINE p == m + Len(f) + 4
    <3>7. WholeAt(p)' /\ LenAt(p)' = LenAt(m) /\ FrameAt(p)' = v
      BY <1>1, <1>2, <2>3, <2>7, OthersRead, Zenon DEF v
    <3>8. p - LenAt(m) - 4 = r + Len(f) + 4
      <4>1. /\ m \in Int /\ Len(f) \in Int /\ LenAt(m) \in Int
        BY <1>1, <2>3, <3>2
      <4> QED
        BY <3>3, <4>1
    <3>9. h[p] = <<v>> \o Append(g[r], f)
      BY <1>3, <2>4, <3>6, <3>7, <3>8, Zenon
    <3>10. <<v>> \o Append(g[r], f) = Append(<<v>> \o g[r], f)
      <4>1. \A s \in Seq(Seq(Byte)) : <<v>> \o Append(s, f) = Append(<<v>> \o s, f)
        <5> SUFFICES ASSUME NEW s \in Seq(Seq(Byte))
                     PROVE  <<v>> \o Append(s, f) = Append(<<v>> \o s, f)
          OBVIOUS
        <5>1. v \in Seq(Byte) /\ f \in Seq(Byte) /\ s \in Seq(Seq(Byte))
          BY <3>2
        <5> QED
          BY <5>1, AppendBehind, SMTT(30)
      <4> QED
        BY <3>2, <4>1, Zenon
    <3> QED
      BY <2>3, <3>2, <3>9, <3>10, Zenon
  <2> QED
    BY <2>6, <2>7
<1> QED
  BY <1>4, Zenon

-----------------------------------------------------------------------------
(* The steps are those of the queue *)

LEMMA FifoIs ==
  /\ \A f : Fifo!Push(f) <=> /\ Cost(Records) + Len(f) + 4 <= Cap - 1
                             /\ Records' = Append(Records, f)
                             /\ dropped' = dropped /\ popped' = popped
  /\ \A f : Fifo!Drop(f) <=>
       /\ ~(Cost(Records) + Len(f) + 4 <= Cap - 1)
       /\ dropped' = IF dropped < MaxDrops THEN dropped + 1 ELSE dropped
       /\ Records' = Records /\ popped' = popped
  /\ \A room : Fifo!Pop(room) <=>
       /\ IF Records # <<>> /\ Len(Head(Records)) + 4 <= room
          THEN popped' = Head(Records) /\ Records' = Tail(Records)
          ELSE popped' = <<>> /\ Records' = Records
       /\ dropped' = dropped
<1>1. \A q : Fifo!Cost(q) = Cost(q)
  BY Zenon DEF Fifo!Cost, Cost
<1> QED
  BY <1>1, Zenon DEF Fifo!Push, Fifo!Drop, Fifo!Pop, Fifo!HasRoom

\* What is read depends on the bytes and on head alone.
LEMMA SameParse ==
  ASSUME TypeOK, buf' = buf, head' = head, NEW g, Parse(g), NEW h, Parse(h)'
  PROVE  \A n \in 0..Cap : g[n] = h[n]
<1> DEFINE B == {n \in 0..Cap : g[n] # h[n]}
<1>1. \A n : WholeAt(n)' = WholeAt(n) /\ LenAt(n)' = LenAt(n) /\ FrameAt(n)' = FrameAt(n)
  BY Zenon DEF WholeAt, LenAt, FrameAt, At, ReadU32, ReadRaw
<1>2. \A n \in 0..Cap : /\ g[n] = IF WholeAt(n) THEN <<FrameAt(n)>> \o g[Rest(n)] ELSE <<>>
                        /\ h[n] = IF WholeAt(n) THEN <<FrameAt(n)>> \o h[Rest(n)] ELSE <<>>
  BY <1>1, Zenon DEF Parse, Rest
<1>3. B = {}
  <2> SUFFICES ASSUME B # {}
               PROVE  FALSE
    OBVIOUS
  <2>1. B \subseteq Nat
    BY CapAssumption
  <2> HIDE DEF B
  <2>2. PICK n \in B : \A m \in B : n <= m
    BY <2>1, LeastOf, Zenon
  <2>3. n \in 0..Cap /\ g[n] # h[n]
    BY Zenon DEF B
  <2>4. WholeAt(n)
    BY <1>2, <2>3, Zenon
  <2>5. Rest(n) \in 0..(n - 1)
    BY <2>3, <2>4, FrontIs, Zenon DEF Leads
  <2>6. Rest(n) \in 0..Cap /\ Rest(n) \notin B
    BY <2>2, <2>3, <2>5, CapAssumption
  <2>7. g[Rest(n)] = h[Rest(n)]
    BY <2>6, Zenon DEF B
  <2> QED
    BY <1>2, <2>3, <2>7, Zenon
<1> QED
  BY <1>3, Zenon

LEMMA ParsedNext == TypeOK' => Parsed'
<1>1. (TypeOK => Parsed)'
  BY ParsedIs, PTL
<1> QED
  BY <1>1

LEMMA SameRecords ==
  ASSUME TypeOK, TypeOK', buf' = buf, head' = head, tail' = tail
  PROVE  Records' = Records /\ Used' = Used
<1>1. PICK g : Parse(g) /\ Records = g[Used]
  BY ParsedIs, Zenon DEF Parsed
<1>2. PICK h : Parse(h)' /\ Records' = h[Used']
  BY ParsedNext, Zenon DEF Parsed
<1>3. Used' = Used /\ Used \in 0..Cap
  <2>1. Used' = Used
    BY Zenon DEF Used
  <2>2. Used \in 0..(Cap - 1)
    BY UsedIs, Zenon
  <2> QED
    BY <2>1, <2>2, CapAssumption
<1> QED
  BY <1>1, <1>2, <1>3, SameParse, Zenon

LEMMA StartPacked == Init => TypeOK /\ Packed /\ Fifo!Init
<1> SUFFICES ASSUME Init
             PROVE  TypeOK /\ Packed /\ Fifo!Init
  OBVIOUS
<1>1. Cap \in Nat \ {0} /\ 0 \in Byte
  BY CapAssumption, RadixAssumption DEF Byte
<1>2. head = 0 /\ tail = 0 /\ dropped = 0 /\ popped = <<>>
  BY Zenon DEF Init
<1>3. TypeOK
  <2>1. buf \in [0..(Cap - 1) -> Byte]
    BY <1>1, Zenon DEF Init
  <2>2. <<>> \in Seq(Byte) /\ 0 \in 0..(Cap - 1)
    BY <1>1
  <2> QED
    BY <1>2, <2>1, <2>2 DEF TypeOK
<1>4. Used = 0
  <2>1. At(0) = head
    BY <1>1, <1>2, <1>3, AtIs
  <2>2. Used = At(0)
    BY <1>2, Zenon DEF Used, At
  <2> QED
    BY <1>2, <2>1, <2>2
<1>5. Records = <<>>
  <2>1. PICK g : Parse(g) /\ Records = g[Used]
    BY <1>3, ParsedIs, Zenon DEF Parsed
  <2>2. ~WholeAt(0) /\ 0 \in 0..Cap
    BY <1>1 DEF WholeAt
  <2> QED
    BY <1>4, <2>1, <2>2, Zenon DEF Parse
<1> QED
  BY <1>2, <1>3, <1>4, <1>5, CostEmpty, Zenon DEF Packed, Fifo!Init

\* PushFrame puts the frame at the end of the queue, or drops it for want of room.
LEMMA PushStep ==
  ASSUME TypeOK, Packed, NEW f \in Frame, PushFrame(f)
  PROVE  TypeOK' /\ Packed' /\ (Fifo!Push(f) \/ Fifo!Drop(f))
<1>1. f \in Seq(Byte) /\ Len(f) \in 1..MaxFrame /\ tail' = tail /\ popped' = popped
  BY FrameAssumption, Zenon DEF PushFrame
<1>2. HasRoom(Len(f)) <=> Cost(Records) + Len(f) + 4 <= Cap - 1
  BY Zenon DEF HasRoom, Packed
<1>3. CASE ~HasRoom(Len(f))
  <2>1. /\ dropped' = IF dropped < MaxDrops THEN dropped + 1 ELSE dropped
        /\ buf' = buf /\ head' = head
    BY <1>3, Zenon DEF PushFrame
  <2>2. TypeOK'
    <3>1. dropped' \in Nat
      BY <2>1 DEF TypeOK
    <3> QED
      BY <1>1, <2>1, <3>1, Zenon DEF TypeOK
  <2>3. Records' = Records /\ Used' = Used
    BY <1>1, <2>1, <2>2, SameRecords, Zenon
  <2>4. Packed'
    BY <2>3, Zenon DEF Packed
  <2> QED
    BY <1>1, <1>2, <1>3, <2>1, <2>2, <2>3, <2>4, FifoIs, Zenon
<1>4. CASE HasRoom(Len(f))
  <2>1. /\ buf' = WriteRaw(Header(Len(f)) \o f, head) /\ dropped' = dropped
        /\ head' = (head + Len(f) + 4) % Cap
    BY <1>4, Zenon DEF PushFrame
  <2>2. /\ buf' \in [0..(Cap - 1) -> Byte] /\ head' \in 0..(Cap - 1)
        /\ Used' = Used + Len(f) + 4 /\ Stored(f)
    BY <1>1, <1>4, <2>1, PushStores, Zenon
  <2>3. TypeOK'
    BY <1>1, <2>1, <2>2, Zenon DEF TypeOK
  <2>4. Used \in 0..Used /\ Used \in 0..Cap /\ Used + Len(f) + 4 <= Cap
    <3>1. Used \in 0..(Cap - 1) /\ Used + Len(f) + 4 <= Cap - 1
      BY <1>4, UsedIs, Zenon DEF HasRoom
    <3> QED
      BY <1>1, <3>1, CapAssumption
  <2>5. PICK g : Parse(g) /\ Records = g[Used]
    BY ParsedIs, Zenon DEF Parsed
  <2>6. PICK h : Parse(h)' /\ Records' = h[Used']
    BY <2>3, ParsedNext, Zenon DEF Parsed
  <2>7. Records' = Append(Records, f)
    <3>1. Cost(g[Used]) = Used
      BY <2>5, Zenon DEF Packed
    <3>2. h[Used + Len(f) + 4] = Append(g[Used], f)
      BY <1>1, <2>2, <2>3, <2>4, <2>5, <2>6, <3>1, PushParses, Zenon
    <3> QED
      BY <2>2, <2>5, <2>6, <3>2, Zenon
  <2>8. Packed'
    <3>1. Records \in Seq(Seq(Byte))
      BY <2>4, <2>5, FrontIs, Zenon
    <3>2. Cost(Append(Records, f)) = Cost(Records) + Len(f) + 4
      BY <1>1, <3>1, CostAppend, Zenon
    <3> QED
      BY <2>2, <2>7, <3>2, Zenon DEF Packed
  <2> QED
    BY <1>1, <1>2, <1>4, <2>1, <2>3, <2>7, <2>8, FifoIs, Zenon
<1> QED
  BY <1>3, <1>4, Zenon

\* PopRecord takes the oldest frame as a whole, if the caller has room for it.
LEMMA PopStep ==
  ASSUME TypeOK, Packed, NEW maxLen \in Room, PopRecord(maxLen)
  PROVE  TypeOK' /\ Packed' /\ \E room \in 0..Cap : Fifo!Pop(room)
<1> DEFINE len == LenAt(Used)
           whole == Used >= 4 /\ len > 0 /\ len + 4 <= Used /\ len + 4 <= maxLen
<1>1. Used \in 0..(Cap - 1) /\ At(Used) = tail /\ Used \in 0..Cap /\ Cap \in Nat \ {0}
  <2>1. Used \in 0..(Cap - 1) /\ At(Used) = tail
    BY UsedIs, Zenon
  <2> QED
    BY <2>1, CapAssumption
<1>2. /\ popped' = IF whole THEN FrameAt(Used) ELSE <<>>
      /\ tail' = IF whole THEN (tail + len + 4) % Cap ELSE tail
      /\ buf' = buf /\ head' = head /\ dropped' = dropped
  BY <1>1, Zenon DEF PopRecord, LenAt, FrameAt
<1>3. whole <=> WholeAt(Used) /\ len + 4 <= maxLen
  BY Zenon DEF WholeAt
<1> HIDE DEF whole, len
<1>4. PICK g : Parse(g) /\ Records = g[Used]
  BY ParsedIs, Zenon DEF Parsed
<1>5. Cost(g[Used]) = Used /\ IF WholeAt(Used) THEN Leads(g, Used) ELSE g[Used] = <<>>
  BY <1>1, <1>4, FrontIs, Zenon DEF Packed
<1>6. maxLen \in Nat
  BY RoomAssumption
<1> DEFINE room == IF maxLen <= Cap THEN maxLen ELSE Cap
<1>7. room \in 0..Cap
  BY <1>1, <1>6
<1>8. CASE whole
  <2>1. Leads(g, Used) /\ len + 4 <= maxLen
    BY <1>3, <1>5, <1>8, Zenon
  <2>2. /\ len \in Nat /\ Rest(Used) \in 0..(Used - 1) /\ Rest(Used) = Used - len - 4
        /\ FrameAt(Used) \in Seq(Byte) /\ Len(FrameAt(Used)) = len
        /\ g[Used] # <<>> /\ Head(g[Used]) = FrameAt(Used) /\ Tail(g[Used]) = g[Rest(Used)]
        /\ Cost(g[Used]) = len + 4 + Cost(g[Rest(Used)]) /\ Cost(g[Rest(Used)]) \in Nat
    BY <2>1, Zenon DEF Leads, Rest, len
  <2>3. len + 4 <= Used
    BY <1>1, <2>2
  <2>4. /\ tail' = (tail + len + 4) % Cap /\ tail' = At(Used - (len + 4))
        /\ tail' \in 0..(Cap - 1) /\ popped' = FrameAt(Used)
    <3>1. len + 4 \in 0..Used /\ tail + len + 4 = tail + (len + 4)
      BY <1>1, <2>2, <2>3 DEF TypeOK
    <3>2. (At(Used) + (len + 4)) % Cap = At(Used - (len + 4))
      BY <1>1, <3>1, AtIs, Zenon
    <3>3. Used - (len + 4) \in 0..Cap
      BY <1>1, <3>1
    <3>4. At(Used - (len + 4)) \in 0..(Cap - 1)
      BY <3>3, AtIs, Zenon
    <3> QED
      BY <1>1, <1>2, <1>8, <3>1, <3>2, <3>4, Zenon
  <2>5. TypeOK'
    BY <1>2, <2>2, <2>4, Zenon DEF TypeOK
  <2>6. Used' = Rest(Used)
    <3> DEFINE m == Used - (len + 4)
    <3>1. m \in 0..(Cap - 1) /\ m = Rest(Used) /\ m \in 0..Cap
      BY <1>1, <2>2, <2>3
    <3> HIDE DEF m
    <3>2. tail' = IF m <= head THEN head - m ELSE (head + Cap) - m
      BY <2>4, <3>1, AtIs, Zenon DEF m
    <3>3. head \in 0..(Cap - 1)
      BY Zenon DEF TypeOK
    <3>4. (head + Cap) - tail' \in Nat /\ (head + Cap) - tail' < 2 * Cap
      BY <1>1, <2>4, <3>3
    <3>5. Used' = IF (head + Cap) - tail' < Cap THEN (head + Cap) - tail'
                  ELSE ((head + Cap) - tail') - Cap
      <4>1. head + Cap - tail' = (head + Cap) - tail'
        BY <1>1, <2>4, <3>3
      <4> QED
        BY <1>2, <3>4, <4>1, Wraps, Zenon DEF Used
    <3> QED
      BY <1>1, <2>4, <3>1, <3>2, <3>3, <3>5
  <2>7. PICK h : Parse(h)' /\ Records' = h[Used']
    BY <2>5, ParsedNext, Zenon DEF Parsed
  <2>8. Records' = Tail(Records)
    <3>1. Rest(Used) \in 0..Cap
      BY <1>1, <2>2
    <3>2. g[Rest(Used)] = h[Rest(Used)]
      BY <1>2, <1>4, <2>7, <3>1, SameParse, Zenon
    <3> QED
      BY <1>4, <2>2, <2>6, <2>7, <3>2, Zenon
  <2>9. Packed'
    <3>1. Cost(g[Rest(Used)]) = Rest(Used)
      BY <1>1, <1>5, <2>2
    <3>2. Records' = g[Rest(Used)]
      BY <1>4, <2>2, <2>8, Zenon
    <3> QED
      BY <2>6, <3>1, <3>2, Zenon DEF Packed
  <2>10. Fifo!Pop(room)
    <3>1. len + 4 <= room
      BY <1>1, <1>6, <2>1, <2>2, <2>3
    <3> HIDE DEF room
    <3> QED
      BY <1>2, <1>4, <2>2, <2>4, <2>8, <3>1, FifoIs, Zenon
  <2> QED
    BY <1>7, <2>5, <2>9, <2>10, Zenon
<1>9. CASE ~whole
  <2>1. popped' = <<>> /\ tail' = tail
    BY <1>2, <1>9, Zenon
  <2>2. TypeOK'
    <3>1. <<>> \in Seq(Byte)
      OBVIOUS
    <3> QED
      BY <1>2, <2>1, <3>1, Zenon DEF TypeOK
  <2>3. Records' = Records /\ Used' = Used
    BY <1>2, <2>1, <2>2, SameRecords, Zenon
  <2>4. Packed'
    BY <2>3, Zenon DEF Packed
  <2>5. ~(Records # <<>> /\ Len(Head(Records)) + 4 <= room)
    <3> SUFFICES ASSUME Records # <<>>, Len(Head(Records)) + 4 <= room
                 PROVE  FALSE
      OBVIOUS
    <3>1. Leads(g, Used) /\ WholeAt(Used)
      BY <1>4, <1>5, Zenon
    <3>2. Len(Head(Records)) = len /\ len \in Nat
      BY <1>4, <3>1, Zenon DEF Leads, len
    <3>3. len + 4 <= maxLen
      BY <1>1, <1>6, <3>2
    <3> QED
      BY <1>3, <1>9, <3>1, <3>3, Zenon
  <2>6. Fifo!Pop(room)
    <3> HIDE DEF room
    <3> QED
      BY <1>2, <2>1, <2>3, <2>5, FifoIs, Zenon
  <2> QED
    BY <1>7, <2>2, <2>4, <2>6, Zenon
<1> QED
  BY <1>8, <1>9, Zenon

LEMMA QueueStep ==
  ASSUME TypeOK, Packed, [Next]_vars
  PROVE  TypeOK' /\ Packed' /\ [Fifo!Next]_(Fifo!vars)
<1>1. CASE UNCHANGED vars
  <2>1. UNCHANGED <<buf, head, tail, dropped, popped>>
    BY <1>1, Zenon DEF vars
  <2>2. TypeOK'
    BY <2>1, Zenon DEF TypeOK
  <2>3. Records' = Records /\ Used' = Used
    BY <2>1, <2>2, SameRecords, Zenon
  <2> QED
    BY <2>1, <2>2, <2>3, Zenon DEF Packed, Fifo!vars
<1>2. CASE \E f \in Frame : PushFrame(f)
  BY <1>2, PushStep, Zenon DEF Fifo!Next
<1>3. CASE \E maxLen \in Room : PopRecord(maxLen)
  BY <1>3, PopStep, Zenon DEF Fifo!Next
<1> QED
  BY <1>1, <1>2, <1>3, Zenon DEF Next

-----------------------------------------------------------------------------
(* The theorems *)

\* The ring is well formed, and all of it that is in use is records.
THEOREM RingCorrect == Spec => [](TypeOK /\ Packed)
<1>1. Init => TypeOK /\ Packed
  BY StartPacked, Zenon
<1>2. TypeOK /\ Packed /\ [Next]_vars => (TypeOK /\ Packed)'
  BY QueueStep, Zenon
<1> QED
  BY <1>1, <1>2, PTL DEF Spec

\* head and tail stay in the ring and every byte is one (stream.h, ByteQueue).
THEOREM TypeCorrect == Spec => []TypeOK
BY RingCorrect, PTL

\* The ring implements the queue of whole frames: PushFrame adds a frame at its end or
\* drops it for want of room, PopRecord takes the oldest one, as it was pushed.
THEOREM QueueCorrect == Spec => ImplementsFifo
<1>1. Init => Fifo!Init
  BY StartPacked, Zenon
<1>2. TypeOK /\ Packed /\ [Next]_vars => [Fifo!Next]_(Fifo!vars)
  BY QueueStep, Zenon
<1> QED
  BY <1>1, <1>2, RingCorrect, PTL DEF Spec, ImplementsFifo, Fifo!Spec
====
