------------------------ MODULE MCConcurrentComparer ------------------------
(* Small pairs of trees for ConcurrentComparer. LoneTree: a directory d with  *)
(* a file d/a only on the source, a directory x that cannot be listed with a  *)
(* file x/y only on the destination, and the files b and m (same size) and c  *)
(* (another size) on both: a batch of two may fill on one side, or each side  *)
(* be left with one candidate. Tree: a directory d with d/a, and b, on both.  *)
EXTENDS ConcurrentComparer

TreeKeys == {"d", "d/a", "b", "c", "m", "x", "x/y"}
Tree     == {<<0, k>> : k \in {"d", "d/a", "b"}} \cup {<<1, k>> : k \in {"d", "d/a", "b"}}
LoneTree == {<<0, k>> : k \in {"d", "d/a", "b", "c", "m"}} \cup {<<1, k>> : k \in {"b", "c", "m", "x", "x/y"}}

SideIn(tree)  == [e \in tree |-> e[1]]
KeyIn(tree)   == [e \in tree |-> e[2]]
DirsIn(tree)  == {e \in tree : e[2] \in {"d", "x"}}
BelowIn(tree) == [e \in tree |-> CASE e[2] = "d" -> {<<e[1], "d/a">>} \cap tree
                                   [] e[2] = "x" -> {<<e[1], "x/y">>} \cap tree
                                   [] OTHER      -> {}]

TreeSide == SideIn(Tree)
TreeKey  == KeyIn(Tree)
TreeBelow == BelowIn(Tree)
TreeDirs == DirsIn(Tree)

LoneSide == SideIn(LoneTree)
LoneKey  == KeyIn(LoneTree)
LoneBelow == BelowIn(LoneTree)
LoneDirs == DirsIn(LoneTree)

\* Directories are identical as they are, c differs in size, the other files are
\* hashed.
Class == [k \in TreeKeys |-> CASE k = "d" -> "Identical"
                               [] k = "c" -> "Mismatch"
                               [] OTHER   -> "Candidate"]

SourceDir == {<<0, "d">>}
DestDir   == {<<1, "x">>}
=============================================================================
