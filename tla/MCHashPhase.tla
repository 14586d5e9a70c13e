----------------------------- MODULE MCHashPhase -----------------------------
(***************************************************************************)
(* Instances of HashPhase, one block being a MiB: files of three blocks    *)
(* and levels that read all of it, the two ends, or the block in the       *)
(* middle; and files of two sizes, of which half is read.                  *)
(***************************************************************************)
EXTENDS HashPhase

TwoFiles    == {<<0, 0, 0>>, <<0, 1, 0>>}
MixedLevels == {<<99, "Center">>, <<67, "Edges">>, <<34, "Center">>}

\* A file that may grow, of which half is read.
TwoSizes  == {<<0, 1>>, <<0, 1, 2>>}
HalfLevel == {<<50, "Edges">>}
=============================================================================
