----------------------------- MODULE MCInjector -----------------------------
(* Two pids for three processes in a row, so that pids are given out again. *)
EXTENDS Injector
=============================================================================
