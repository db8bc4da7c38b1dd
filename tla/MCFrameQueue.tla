---------------------------- MODULE MCFrameQueue ----------------------------
(***************************************************************************)
(* A ring of seventeen bits: two or three records fill it, the next one is *)
(* dropped, and records of five, six and seven bytes stop at every place   *)
(* of it.  One frame is too long and is refused.                           *)
(***************************************************************************)
EXTENDS FrameQueue

MCFrame == {<<1>>, <<0, 1>>, <<1, 1, 0>>, <<1, 1, 1, 1>>}
====
