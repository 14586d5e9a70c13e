--------------------------- MODULE MCSyncExecutor ---------------------------
(* Trees of at most four entries, three levels deep: top, top\x, top\e, top\e\y.  *)
EXTENDS SyncExecutor

CONSTANTS top, x, e, y, f1, f2, l1, l2

MCPaths == {<<top>>, <<top, x>>, <<top, e>>, <<top, e, y>>}

TreesOf(objects) == {t \in [MCPaths -> objects \cup {Absent}] : WellFormed(t)}

MCSourceTrees == TreesOf({f1, l1, "dir"})
MCDestTrees   == TreesOf({f1, f2, l1, l2, "dir", "odd"})
=============================================================================
