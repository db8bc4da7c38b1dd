--------------------------- MODULE MCHookCommand ---------------------------
(* Two games, one after the other or side by side. *)
EXTENDS HookCommand
=============================================================================
