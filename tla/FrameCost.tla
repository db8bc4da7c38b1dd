----------------------------- MODULE FrameCost -----------------------------
(***************************************************************************)
(* The room records take in the frame queue and in a batch of the writer:  *)
(* a four-byte length and the frame.                                       *)
(***************************************************************************)
EXTENDS Integers, Sequences

\* bytes the records of q take
Cost(q) ==
  LET upTo[n \in 0..Len(q)] == IF n = 0 THEN 0 ELSE upTo[n - 1] + Len(q[n]) + 4
  IN upTo[Len(q)]
====
