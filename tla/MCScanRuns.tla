----------------------------- MODULE MCScanRuns -----------------------------
(***************************************************************************)
(* An instance of ScanRuns: a directory with a file in it and a file       *)
(* beside it. What is written has the size of the one and not of the other. *)
(* The sides spell the directory in different case.                        *)
(***************************************************************************)
EXTENDS ScanRuns

ThreePaths  == {"d", "df", "g"}
ThreeAbove  == [p \in ThreePaths |-> IF p = "df" THEN {"d"} ELSE {}]
UnlikeCase  == {"d", "df"}
DataSizes   == [d \in {"x", "y", "z", "none"} |-> IF d = "z" THEN 2 ELSE 1]
OneTree     == {[p \in ThreePaths |-> CASE p = "d"  -> Dir
                                    [] p = "df" -> File("x", 0)
                                    [] p = "g"  -> File("z", 0)]}
=============================================================================
