---------------------------- MODULE MCBlockCache ----------------------------
(***************************************************************************)
(* An archive of two full blocks, a smaller one that the table of files    *)
(* has no room for, and a log that is no archive.  All handles hash to the *)
(* last slot, and their group goes around the end of the table.            *)
(***************************************************************************)
EXTENDS BlockCache, TLC

CONSTANTS h1, h2

MCOpens == {<<"a", "read">>, <<"a", "overlapped">>, <<"b", "read">>, <<"log", "read">>}
MCMoves ==
  {<<"begin", 1>>, <<"current", -2>>, <<"end", -1>>, <<"other", 0>>}

Body(f, n) == [i \in 1..n |-> f \o ToString(i)]
MCContents == [f \in File |-> Body(f, IF f = "a" THEN 4 ELSE 1)]
MCHSlot == [h \in Handle |-> HandleSlots - 1]
Symmetric == Permutations(Handle)

\* No action reads `out', nor the real position of a handle the cache serves before it
\* is set again, so states that differ in these only have the same successors.
WithoutAnswer == <<Seen, ready, files, blocks, table, call>>
=============================================================================
