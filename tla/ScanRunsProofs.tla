--------------------------- MODULE ScanRunsProofs ---------------------------
(***************************************************************************)
(* What one run leaves to the next is true: for any trees, directories and *)
(* contents, any number of runs, and whatever is written, copied, removed  *)
(* or locked between and during them.                                      *)
(*                                                                         *)
(* A run knows a file again by its path, size and time. So the argument is *)
(* about what is at a path, in either tree, in the listings of a run or in *)
(* the snapshot: of these, no two files share their size and time without  *)
(* being one file, because whatever is written has a time of its own and a *)
(* copy keeps the one it had. A row of the session then tells the truth of *)
(* any two of them it fits.                                                *)
(***************************************************************************)
EXTENDS ScanRuns, FiniteSetTheorems, WellFoundedInduction, TLAPS

-----------------------------------------------------------------------------
(* The inductive invariant *)

\* What a tree or a listing holds at a path.
IsEntry(e) ==
  \/ e.type = "file" /\ StatOf(e) # StatOf(Dir)
  \/ e.type \in {"dir", "link"} /\ StatOf(e) = StatOf(Dir)

Listings == {tree["A"], tree["B"], list["A"], list["B"]}
              \cup (IF snap = None THEN {} ELSE {snap.list})

\* The files at a path, wherever one is known of.
FilesAt(p) == {l[p] : l \in {k \in Listings : p \in DOMAIN k /\ k[p].type = "file"}}

\* Each listing is one of entries, and each tree is a tree.
ListingsStand ==
  /\ DOMAIN tree = Sides /\ DOMAIN locked = Sides /\ changes \in Nat
  /\ DOMAIN list = Sides /\ DOMAIN errs = Sides
  /\ \A l \in Listings : DOMAIN l \subseteq Paths /\ \A p \in DOMAIN l : IsEntry(l[p])
  /\ \A s \in Sides : \A p \in DOMAIN tree[s] : \A d \in Above[p] :
       d \in DOMAIN tree[s] /\ tree[s][d] = Dir

\* A file is known by its size and time, none of them in the future.
FilesAreKnown ==
  \A p \in Paths : \A e, f \in FilesAt(p) :
    /\ e.mtime \in Int /\ e.mtime <= changes
    /\ StatOf(e) = StatOf(f) => e = f

Capturing == opts.kind \in {"capture", "captureOnly"}

\* The phases of a run, and what it has in memory in each of them.
Control ==
  /\ pc \in {"off", "source", "hash", "write", "writing", "dest", "plan", "compare", "done"}
  /\ quiet \in BOOLEAN
  /\ opts.kind \in {"live", "offline", "capture", "captureOnly"}
  /\ opts.mode \in {"Presence", "Size", "Content"}
  /\ pc # "off" => opts.mode \in Modes
  /\ pc = "off" => ~opts.resume
  /\ opts.resume => (pc # "done" => journal # None) /\ opts.kind # "captureOnly"
  /\ ~opts.resume => plan = NoPlan
  /\ opts.kind # "offline" \/ pc = "source" => mode = opts.mode
  /\ pc = "source" => digests = <<>>
  /\ pc \in {"hash", "write", "writing"} => Capturing
  /\ pc \in {"dest", "plan"} => opts.resume
  /\ pc \in {"compare", "done"} => opts.kind # "captureOnly"
  /\ opts.kind = "offline" => snap # None
  /\ opts.kind = "offline" /\ pc \in {"dest", "plan", "compare", "done"} =>
       /\ snap.whole /\ list["A"] = snap.list /\ digests = snap.digests
       /\ mode = IF opts.mode = "Content" /\ snap.digests = <<>> /\ snap.list # <<>>
                 THEN "Size" ELSE opts.mode
  /\ pc = "writing" => snap = CutShort
  /\ Capturing /\ pc \in {"dest", "plan", "compare", "done"} =>
       /\ snap # None /\ snap.whole => snap.list = list["A"] /\ snap.digests = digests
  /\ snap # None => snap.whole \in BOOLEAN
  /\ pc \in {"plan", "compare"} /\ opts.resume => journal.mode = opts.mode
  /\ pc = "compare" /\ opts.resume =>
       plan = PlanResume(journal.rows, list, errs) /\ ~Refused(journal.rows, list, errs)

\* While nothing changes, a listing is the tree.
ListedAsIs(s) == list[s] = Visible(s) /\ errs[s] = Unlistable(s)

QuietLists ==
  quiet /\ opts.resume =>
    /\ opts.kind = "live" /\ pc \in {"dest", "plan", "compare", "done"} => ListedAsIs("A")
    /\ pc \in {"plan", "compare", "done"} => ListedAsIs("B")

\* The digest of a file that is still the one that was listed is its own.
Current(digest, l) ==
  \A p \in DOMAIN digest \cap DOMAIN l \cap DOMAIN tree["A"] :
    l[p].type = "file" /\ l[p] = tree["A"][p] => digest[p] = l[p].data

DigestsStand ==
  /\ Current(digests, list["A"])
  /\ snap # None => Current(snap.digests, snap.list)

BInv == ListingsStand /\ FilesAreKnown /\ Control /\ QuietLists /\ DigestsStand

\* A row on two files or directories.
MatchVerdicts == {"Identical", "SizeMismatch", "ContentMismatch"}
IsMatch(row)  == row.verdict \in MatchVerdicts

\* What comparing two entries says, and a row that says it of all it fits.
OfContents(e, f) == IF e.data = f.data THEN "Identical" ELSE "ContentMismatch"
Truth(e, f, m) == Matched(e, f, m, OfContents(e, f)).verdict

Tells(row, e, f, m) ==
  StatOf(e) = row.statA /\ StatOf(f) = row.statB => row.verdict = Truth(e, f, m)

\* The source files a row may be held against: the one that is there; the one
\* in the snapshot, if it has its digest; the one a capture is about to write.
Snapshotted(p) ==
  /\ snap # None /\ p \in DOMAIN snap.list
  /\ snap.whole
  /\ p \in DOMAIN snap.digests => snap.digests[p] = snap.list[p].data

SourceFiles(p) ==
  {e \in FilesAt(p) :
     \/ p \in DOMAIN tree["A"] /\ e = tree["A"][p]
     \/ Snapshotted(p) /\ e = snap.list[p]
     \/ /\ Capturing /\ pc \in {"hash", "write", "writing"}
        /\ p \in DOMAIN list["A"] /\ e = list["A"][p]}

\* The files at the path of a row that the destination has or may be given.
DestFiles(p) ==
  {f \in FilesAt(p) : \E s \in Sides : p \in DOMAIN tree[s] /\ f = tree[s][p]}

RowsTyped ==
  journal # None =>
    \A p \in DOMAIN journal.rows : LET row == journal.rows[p] IN
      /\ p \in Paths
      /\ row.verdict \in MatchVerdicts \cup ErrorVerdicts \cup {"Missing", "Extra"}
      /\ IsMatch(row) /\ row.isDirectory => row.verdict = "Identical"
      /\ IsMatch(row) /\ ~row.isDirectory =>
           /\ row.statA.mtime \in Int /\ row.statA.mtime <= changes
           /\ row.statB.mtime \in Int /\ row.statB.mtime <= changes

\* Under a mode that a later run may ask for, the rows tell the truth.
RowsTell ==
  journal # None /\ journal.mode \in Modes =>
    \A p \in DOMAIN journal.rows :
      IsMatch(journal.rows[p]) /\ ~journal.rows[p].isDirectory =>
        \A e \in SourceFiles(p), f \in DestFiles(p) :
          Tells(journal.rows[p], e, f, journal.mode)

\* No run that resumes is turned into a Size run, if Size runs are asked for:
\* the rows of its session would say Size, and the reused ones be of Content.
ModeKept == opts.resume /\ mode # opts.mode => mode \notin Modes

-----------------------------------------------------------------------------
(* Trees                                                                   *)

\* The empty sequence is the function of no argument.
LEMMA EmptyIs == DOMAIN <<>> = {}
OBVIOUS

\* What can be seen of a side is part of it.
LEMMA VisibleIs ==
  ASSUME NEW s \in Sides
  PROVE  /\ DOMAIN Visible(s) = {p \in DOMAIN tree[s] : ~Hidden(s, p)}
         /\ \A p \in DOMAIN Visible(s) : Visible(s)[p] = tree[s][p]
BY DEF Visible, Restrict

\* An entry is put at a path: nothing else appears, and what is left stands in
\* the directories it stood in.
LEMMA PutStep ==
  ASSUME ListingsStand, NEW s \in Sides, NEW p \in Paths, NEW e, Put(s, p, e)
  PROVE  /\ DOMAIN tree' = Sides /\ DOMAIN locked' = Sides
         /\ \A t \in Sides : t # s => tree'[t] = tree[t]
         /\ \A q \in DOMAIN tree'[s] : q = p \/ q \in DOMAIN tree[s]
         /\ \A q \in DOMAIN tree'[s] : tree'[s][q] = IF q = p THEN e ELSE tree[s][q]
         /\ \A t \in Sides : \A q \in DOMAIN tree'[t] : \A d \in Above[q] :
              d \in DOMAIN tree'[t] /\ tree'[t][d] = Dir
<1> DEFINE left == {q \in DOMAIN tree[s] : q \notin Paths \/ p \notin Above[q]}
           new == [q \in (DOMAIN tree[s] \ {r \in Paths : p \in Above[r]}) \cup {p} |->
                     IF q = p THEN e ELSE tree[s][q]]
<1>1. /\ tree' = [tree EXCEPT ![s] = new]
      /\ locked' = [locked EXCEPT ![s] = @ \ {p}]
      /\ \A d \in Above[p] : d \in DOMAIN tree[s] /\ tree[s][d] = Dir
  BY DEF Put
<1>2. /\ DOMAIN new = left \cup {p}
      /\ \A q \in DOMAIN new : new[q] = IF q = p THEN e ELSE tree[s][q]
  OBVIOUS
<1> HIDE DEF new
<1>3. DOMAIN tree = Sides /\ DOMAIN locked = Sides /\ tree[s] \in Listings
  BY DEF ListingsStand, Listings, Sides
<1>4. /\ DOMAIN tree' = Sides /\ DOMAIN locked' = Sides
      /\ tree'[s] = new /\ \A t \in Sides : t # s => tree'[t] = tree[t]
  BY <1>1, <1>3
<1>5. DOMAIN tree[s] \subseteq Paths
  BY <1>3 DEF ListingsStand
<1>6. ASSUME NEW q \in DOMAIN new, NEW d \in Above[q]
      PROVE  d \in DOMAIN new /\ new[d] = Dir
  <2>1. p \notin Above[p] /\ \A r \in Above[p] : Above[r] \subseteq Above[p]
    BY TreesAssumption
  <2>2. CASE q = p
    <3>1. d \in DOMAIN tree[s] /\ tree[s][d] = Dir /\ p \notin Above[d] /\ d # p
      BY <1>1, <1>6, <2>1, <2>2
    <3> QED  BY <1>2, <3>1
  <2>3. CASE q # p
    <3>1. q \in DOMAIN tree[s] /\ q \in Paths /\ p \notin Above[q]
      BY <1>2, <1>5, <1>6, <2>3
    <3>2. d \in DOMAIN tree[s] /\ tree[s][d] = Dir
      BY <1>6, <3>1 DEF ListingsStand
    <3>3. Above[d] \subseteq Above[q] /\ d # p
      BY <1>6, <3>1, TreesAssumption
    <3> QED  BY <1>2, <3>1, <3>2, <3>3
  <2> QED  BY <2>2, <2>3
<1>7. ASSUME NEW t \in Sides, NEW q \in DOMAIN tree'[t], NEW d \in Above[q]
      PROVE  d \in DOMAIN tree'[t] /\ tree'[t][d] = Dir
  <2>1. CASE t = s
    BY <1>4, <1>6, <1>7, <2>1
  <2>2. CASE t # s
    BY <1>4, <1>7, <2>2 DEF ListingsStand
  <2> QED  BY <2>1, <2>2
<1> QED
  BY <1>2, <1>4, <1>7

\* What a change of a tree leaves alone.
TreeChange == PutEntry \/ Remove \/ SetRights

LEMMA ChangeLeaves ==
  ASSUME TreeChange
  PROVE  /\ changes' = changes + 1 /\ quiet' = (pc = "off")
         /\ UNCHANGED <<run, opts, mode, pc, list, errs, digests, plan, snap, journal, report>>
BY DEF TreeChange, PutEntry, Remove, SetRights, Changed, indexVars

\* What is written now, and was nowhere before.
IsNew(g) ==
  \/ g = Dir
  \/ \E t \in Targets : g = Link(t)
  \/ \E d \in Datas : g = File(d, changes + 1)

\* A change puts at most one new entry into the trees. Whatever else is in one
\* was at its path before, in the same tree or, copied, in the source.
LEMMA ChangeStep ==
  ASSUME ListingsStand, TreeChange
  PROVE  /\ DOMAIN tree' = Sides /\ DOMAIN locked' = Sides
         /\ \A t \in Sides : \A q \in DOMAIN tree'[t] : \A d \in Above[q] :
              d \in DOMAIN tree'[t] /\ tree'[t][d] = Dir
         /\ \E g : /\ IsNew(g)
                   /\ \A t \in Sides : \A q \in DOMAIN tree'[t] :
                        /\ q \in Paths
                        /\ \/ q \in DOMAIN tree[t] /\ tree'[t][q] = tree[t][q]
                           \/ tree'[t][q] = g
                           \/ /\ t = "B" /\ q \in DOMAIN tree["A"]
                              /\ tree'["B"][q] = tree["A"][q]
<1>0. /\ DOMAIN tree = Sides /\ DOMAIN locked = Sides
      /\ \A t \in Sides : DOMAIN tree[t] \subseteq Paths
      /\ "A" \in Sides /\ "B" \in Sides
  BY DEF ListingsStand, Listings, Sides
<1>1. ASSUME NEW s \in Sides, NEW p \in Paths, NEW e, Put(s, p, e),
             IsNew(e) \/ (s = "B" /\ p \in DOMAIN tree["A"] /\ e = tree["A"][p])
      PROVE  /\ DOMAIN tree' = Sides /\ DOMAIN locked' = Sides
             /\ \A t \in Sides : \A q \in DOMAIN tree'[t] : \A d \in Above[q] :
                  d \in DOMAIN tree'[t] /\ tree'[t][d] = Dir
             /\ \E g : /\ IsNew(g)
                       /\ \A t \in Sides : \A q \in DOMAIN tree'[t] :
                            /\ q \in Paths
                            /\ \/ q \in DOMAIN tree[t] /\ tree'[t][q] = tree[t][q]
                               \/ tree'[t][q] = g
                               \/ /\ t = "B" /\ q \in DOMAIN tree["A"]
                                  /\ tree'["B"][q] = tree["A"][q]
  <2>1. /\ DOMAIN tree' = Sides /\ DOMAIN locked' = Sides
        /\ \A t \in Sides : t # s => tree'[t] = tree[t]
        /\ \A q \in DOMAIN tree'[s] : q = p \/ q \in DOMAIN tree[s]
        /\ \A q \in DOMAIN tree'[s] : tree'[s][q] = IF q = p THEN e ELSE tree[s][q]
        /\ \A t \in Sides : \A q \in DOMAIN tree'[t] : \A d \in Above[q] :
             d \in DOMAIN tree'[t] /\ tree'[t][d] = Dir
    BY <1>1, PutStep
  <2> DEFINE g == IF IsNew(e) THEN e ELSE Dir
  <2>2. IsNew(g) /\ (IsNew(e) => g = e)
    BY DEF IsNew
  <2> HIDE DEF g
  <2>3. ASSUME NEW t \in Sides, NEW q \in DOMAIN tree'[t]
        PROVE  /\ q \in Paths
               /\ \/ q \in DOMAIN tree[t] /\ tree'[t][q] = tree[t][q]
                  \/ tree'[t][q] = g
                  \/ t = "B" /\ q \in DOMAIN tree["A"] /\ tree'["B"][q] = tree["A"][q]
    <3>1. CASE t # s \/ q # p
      BY <1>0, <2>1, <2>3, <3>1
    <3>2. CASE t = s /\ q = p
      BY <1>1, <2>1, <2>2, <2>3, <3>2
    <3> QED  BY <3>1, <3>2
  <2> QED
    BY <2>1, <2>2, <2>3
<1>2. CASE PutEntry
  <2>1. PICK s \in Sides, p \in Paths :
          \/ \E d \in Datas : Put(s, p, File(d, changes + 1))
          \/ Put(s, p, Dir)
          \/ \E t \in Targets : Put(s, p, Link(t))
          \/ s = "B" /\ p \in DOMAIN tree["A"] /\ Put(s, p, tree["A"][p])
    BY <1>2 DEF PutEntry
  <2>2. /\ \A d \in Datas : IsNew(File(d, changes + 1))
        /\ IsNew(Dir) /\ \A t \in Targets : IsNew(Link(t))
    BY DEF IsNew
  <2>3. PICK e : /\ Put(s, p, e)
                 /\ IsNew(e) \/ (s = "B" /\ p \in DOMAIN tree["A"] /\ e = tree["A"][p])
    BY <2>1, <2>2
  <2> QED
    BY <1>1, <2>3
<1>3. CASE Remove
  <2>1. PICK s \in Sides, p \in Paths :
          /\ tree' = [tree EXCEPT ![s] =
               Restrict(@, {q \in DOMAIN @ : q # p /\ p \notin Above[q]})]
          /\ locked' = [locked EXCEPT ![s] = {d \in @ : d # p /\ p \notin Above[d]}]
    BY <1>3 DEF Remove
  <2> DEFINE left == {q \in DOMAIN tree[s] : q # p /\ p \notin Above[q]}
             new == Restrict(tree[s], left)
  <2>2. DOMAIN new = left /\ \A q \in left : new[q] = tree[s][q]
    BY DEF Restrict
  <2> HIDE DEF new
  <2>3. /\ DOMAIN tree' = Sides /\ DOMAIN locked' = Sides
        /\ tree'[s] = new /\ \A t \in Sides : t # s => tree'[t] = tree[t]
    BY <1>0, <2>1 DEF new
  <2>4. ASSUME NEW t \in Sides, NEW q \in DOMAIN tree'[t]
        PROVE  /\ q \in Paths
               /\ q \in DOMAIN tree[t] /\ tree'[t][q] = tree[t][q]
    BY <1>0, <2>2, <2>3, <2>4
  <2>5. ASSUME NEW t \in Sides, NEW q \in DOMAIN tree'[t], NEW d \in Above[q]
        PROVE  d \in DOMAIN tree'[t] /\ tree'[t][d] = Dir
    <3>1. q \in Paths /\ q \in DOMAIN tree[t] /\ d \in DOMAIN tree[t] /\ tree[t][d] = Dir
      BY <2>4, <2>5 DEF ListingsStand
    <3>2. CASE t # s
      BY <2>3, <3>1, <3>2
    <3>3. CASE t = s
      <4>1. p \notin Above[q] /\ Above[d] \subseteq Above[q]
        BY <2>2, <2>3, <2>5, <3>1, <3>3, TreesAssumption
      <4> QED  BY <2>2, <2>3, <2>5, <3>1, <3>3, <4>1
    <3> QED  BY <3>2, <3>3
  <2>6. IsNew(Dir)
    BY DEF IsNew
  <2> QED
    BY <2>3, <2>4, <2>5, <2>6
<1>4. CASE SetRights
  <2>1. tree' = tree /\ DOMAIN locked' = Sides
    BY <1>0, <1>4 DEF SetRights
  <2>2. IsNew(Dir)
    BY DEF IsNew
  <2> QED
    BY <1>0, <2>1, <2>2 DEF ListingsStand
<1> QED
  BY <1>2, <1>3, <1>4 DEF TreeChange

-----------------------------------------------------------------------------
(* The files that are known of                                             *)

\* What is new is an entry, and a file has the time of the change.
LEMMA NewIs ==
  ASSUME changes \in Nat, NEW g, IsNew(g)
  PROVE  IsEntry(g) /\ (g.type = "file" => g.mtime = changes + 1)
<1>1. CASE g = Dir \/ \E t \in Targets : g = Link(t)
  BY <1>1 DEF IsEntry, StatOf, Dir, Link
<1>2. ASSUME NEW d \in Datas, g = File(d, changes + 1)
      PROVE  IsEntry(g) /\ g.mtime = changes + 1
  <2>1. g.type = "file" /\ g.mtime = changes + 1
    BY <1>2 DEF File
  <2>2. StatOf(g).mtime = changes + 1 /\ StatOf(Dir).mtime = 0
    BY <2>1 DEF StatOf, Dir
  <2> QED  BY <2>1, <2>2 DEF IsEntry
<1> QED  BY <1>1, <1>2 DEF IsNew

\* A step that puts nothing into the listings that was in none of them.
NothingNew ==
  \A l \in Listings' : \A p \in DOMAIN l :
    \E k \in Listings : p \in DOMAIN k /\ l[p] = k[p]

\* It adds to no path a file to know.
LEMMA NothingNewKeeps ==
  ASSUME ListingsStand, FilesAreKnown, NothingNew, UNCHANGED <<tree, locked, changes>>,
         DOMAIN list' = Sides, DOMAIN errs' = Sides
  PROVE  /\ ListingsStand' /\ FilesAreKnown'
         /\ \A p \in Paths : FilesAt(p)' \subseteq FilesAt(p)
<1>1. ASSUME NEW l \in Listings', NEW p \in DOMAIN l
      PROVE  p \in Paths /\ IsEntry(l[p])
  BY <1>1 DEF NothingNew, ListingsStand
<1>2. ListingsStand'
  BY <1>1 DEF ListingsStand
<1>3. ASSUME NEW p \in Paths, NEW e \in FilesAt(p)'
      PROVE  e \in FilesAt(p)
  <2>1. PICK l \in Listings' : p \in DOMAIN l /\ l[p].type = "file" /\ e = l[p]
    BY <1>3 DEF FilesAt
  <2>2. PICK k \in Listings : p \in DOMAIN k /\ l[p] = k[p]
    BY <2>1 DEF NothingNew
  <2> QED  BY <2>1, <2>2 DEF FilesAt
<1>4. FilesAreKnown'
  BY <1>3 DEF FilesAreKnown
<1> QED  BY <1>2, <1>3, <1>4

\* A change adds one at most, and its time is that of no other.
LEMMA ChangeKeeps ==
  ASSUME ListingsStand, FilesAreKnown, TreeChange
  PROVE  /\ ListingsStand' /\ FilesAreKnown'
         /\ \A p \in Paths : \A e \in FilesAt(p)' : e \in FilesAt(p) \/ e.mtime = changes + 1
<1>1. /\ DOMAIN tree' = Sides /\ DOMAIN locked' = Sides
      /\ \A t \in Sides : \A q \in DOMAIN tree'[t] : \A d \in Above[q] :
           d \in DOMAIN tree'[t] /\ tree'[t][d] = Dir
  BY ChangeStep
<1>2. PICK g :
        /\ IsNew(g)
        /\ \A t \in Sides : \A q \in DOMAIN tree'[t] :
             /\ q \in Paths
             /\ \/ q \in DOMAIN tree[t] /\ tree'[t][q] = tree[t][q]
                \/ tree'[t][q] = g
                \/ t = "B" /\ q \in DOMAIN tree["A"] /\ tree'["B"][q] = tree["A"][q]
  BY ChangeStep
<1>3. changes \in Nat /\ changes' = changes + 1 /\ UNCHANGED <<list, errs, snap>>
  BY ChangeLeaves DEF ListingsStand
<1>4. IsEntry(g) /\ (g.type = "file" => g.mtime = changes + 1)
  BY <1>2, <1>3, NewIs
<1>5. ASSUME NEW l \in Listings', NEW p \in DOMAIN l
      PROVE  p \in Paths /\ (l[p] = g \/ \E k \in Listings : p \in DOMAIN k /\ l[p] = k[p])
  <2>1. CASE \E t \in Sides : l = tree'[t]
    <3>1. PICK t \in Sides : l = tree'[t]
      BY <2>1
    <3>2. tree["A"] \in Listings /\ tree[t] \in Listings
      BY DEF Listings, Sides
    <3>3. l[p] = tree'[t][p] /\ p \in DOMAIN tree'[t]
      BY <1>5, <3>1
    <3>4. /\ p \in Paths
          /\ \/ p \in DOMAIN tree[t] /\ l[p] = tree[t][p]
             \/ l[p] = g
             \/ p \in DOMAIN tree["A"] /\ l[p] = tree["A"][p]
      BY <1>2, <3>3
    <3> QED  BY <3>2, <3>4
  <2>2. CASE l \in Listings
    BY <1>5, <2>2 DEF ListingsStand
  <2>3. (\E t \in Sides : l = tree'[t]) \/ l \in Listings
    BY <1>3, <1>5 DEF Listings, Sides
  <2> QED  BY <2>1, <2>2, <2>3
<1>6. ListingsStand'
  <2>1. ASSUME NEW l \in Listings', NEW p \in DOMAIN l
        PROVE  p \in Paths /\ IsEntry(l[p])
    BY <1>4, <1>5, <2>1 DEF ListingsStand
  <2> QED  BY <1>1, <1>3, <2>1 DEF ListingsStand
<1>7. ASSUME NEW p \in Paths, NEW e \in FilesAt(p)'
      PROVE  e \in FilesAt(p) \/ (e = g /\ e.mtime = changes + 1)
  <2>1. PICK l \in Listings' : p \in DOMAIN l /\ l[p].type = "file" /\ e = l[p]
    BY <1>7 DEF FilesAt
  <2> QED  BY <1>4, <1>5, <2>1 DEF FilesAt
<1>8. FilesAreKnown'
  <2> SUFFICES ASSUME NEW p \in Paths, NEW e \in FilesAt(p)', NEW f \in FilesAt(p)'
               PROVE  /\ e.mtime \in Int /\ e.mtime <= changes'
                      /\ StatOf(e) = StatOf(f) => e = f
    BY DEF FilesAreKnown
  <2>1. /\ e \in FilesAt(p) \/ (e = g /\ e.mtime = changes + 1)
        /\ f \in FilesAt(p) \/ (f = g /\ f.mtime = changes + 1)
    BY <1>7
  <2>2. \A x \in FilesAt(p) : x.mtime \in Int /\ x.mtime <= changes
    BY DEF FilesAreKnown
  <2>3. StatOf(e) = StatOf(f) => e.mtime = f.mtime
    BY DEF StatOf
  <2>4. e.mtime \in Int /\ e.mtime <= changes'
    BY <1>3, <2>1, <2>2
  <2>5. StatOf(e) = StatOf(f) => e = f
    BY <1>3, <2>1, <2>2, <2>3 DEF FilesAreKnown
  <2> QED  BY <2>4, <2>5
<1> QED  BY <1>6, <1>7, <1>8

\* A known file that is in the source after a change was there before it.
LEMMA SourceKept ==
  ASSUME ListingsStand, FilesAreKnown, TreeChange,
         NEW p \in Paths, p \in DOMAIN tree'["A"], tree'["A"][p] \in FilesAt(p)
  PROVE  p \in DOMAIN tree["A"] /\ tree["A"][p] = tree'["A"][p]
<1> DEFINE e == tree'["A"][p]
<1>1. PICK g :
        /\ IsNew(g)
        /\ \A t \in Sides : \A q \in DOMAIN tree'[t] :
             /\ q \in Paths
             /\ \/ q \in DOMAIN tree[t] /\ tree'[t][q] = tree[t][q]
                \/ tree'[t][q] = g
                \/ t = "B" /\ q \in DOMAIN tree["A"] /\ tree'["B"][q] = tree["A"][q]
  BY ChangeStep
<1>2. changes \in Nat /\ (g.type = "file" => g.mtime = changes + 1)
  BY <1>1, NewIs DEF ListingsStand
<1>3. e.type = "file" /\ e.mtime \in Int /\ e.mtime <= changes
  BY DEF FilesAreKnown, FilesAt
<1>4. e # g
  BY <1>2, <1>3
<1> QED  BY <1>1, <1>4 DEF Sides

\* A known file that is in a tree after a change was in one before it.
LEMMA DestKept ==
  ASSUME ListingsStand, FilesAreKnown, TreeChange,
         NEW p \in Paths, NEW e \in DestFiles(p)'
  PROVE  e \in DestFiles(p) \/ e.mtime = changes + 1
<1>1. e \in FilesAt(p) \/ e.mtime = changes + 1
  BY ChangeKeeps DEF DestFiles
<1>2. PICK s \in Sides : p \in DOMAIN tree'[s] /\ e = tree'[s][p]
  BY DEF DestFiles
<1>3. PICK g :
        /\ IsNew(g)
        /\ \A t \in Sides : \A q \in DOMAIN tree'[t] :
             /\ q \in Paths
             /\ \/ q \in DOMAIN tree[t] /\ tree'[t][q] = tree[t][q]
                \/ tree'[t][q] = g
                \/ t = "B" /\ q \in DOMAIN tree["A"] /\ tree'["B"][q] = tree["A"][q]
  BY ChangeStep
<1>4. (\E t \in Sides : p \in DOMAIN tree[t] /\ e = tree[t][p]) \/ e = g
  BY <1>2, <1>3 DEF Sides
<1>5. e.type = "file" /\ changes \in Nat
  BY DEF DestFiles, FilesAt, ListingsStand
<1>6. e = g => e.mtime = changes + 1
  BY <1>3, <1>5, NewIs
<1> QED  BY <1>1, <1>4, <1>6 DEF DestFiles

\* Digests stand when a tree changes: what they are of is there, or is not.
LEMMA DigestsKept ==
  ASSUME BInv, TreeChange
  PROVE  DigestsStand'
<1>1. UNCHANGED <<digests, list, snap>> /\ ListingsStand /\ FilesAreKnown /\ DigestsStand
  BY ChangeLeaves DEF BInv
<1>2. ASSUME NEW digest, NEW l \in Listings, Current(digest, l),
             NEW p \in DOMAIN digest \cap DOMAIN l \cap DOMAIN tree'["A"],
             l[p].type = "file", l[p] = tree'["A"][p]
      PROVE  digest[p] = l[p].data
  <2>1. p \in Paths /\ l[p] \in FilesAt(p)
    BY <1>1, <1>2 DEF FilesAt, ListingsStand
  <2>2. p \in DOMAIN tree["A"] /\ tree["A"][p] = l[p]
    BY <1>1, <1>2, <2>1, SourceKept
  <2> QED  BY <1>2, <2>2 DEF Current
<1>3. list["A"] \in Listings /\ (snap # None => snap.list \in Listings)
  BY DEF Listings
<1> QED  BY <1>1, <1>2, <1>3 DEF DigestsStand, Current

\* A change of a tree keeps the invariant.
LEMMA ChangeBInv ==
  ASSUME BInv, TreeChange
  PROVE  BInv'
<1>1. ListingsStand' /\ FilesAreKnown' /\ DigestsStand'
  BY ChangeKeeps, DigestsKept DEF BInv
<1>2. /\ quiet' = (pc = "off")
      /\ UNCHANGED <<opts, mode, pc, list, errs, digests, plan, snap, journal>>
  BY ChangeLeaves
<1>3. Control'
  BY <1>2 DEF BInv, Control, Capturing
<1>4. QuietLists'
  BY <1>2 DEF BInv, Control, QuietLists
<1> QED  BY <1>1, <1>3, <1>4 DEF BInv

-----------------------------------------------------------------------------
(* The steps of a run                                                      *)

\* The invariant holds at the start.
LEMMA InitBInv == Init => BInv
<1> SUFFICES ASSUME Init PROVE BInv
  OBVIOUS
<1>1. /\ tree \in [Sides -> Trees] /\ changes = 0
      /\ locked = NoErrors /\ list = Empty /\ errs = NoErrors /\ digests = <<>>
      /\ snap = None /\ journal = None /\ plan = NoPlan
      /\ pc = "off" /\ opts = NoOptions /\ mode = NoOptions.mode /\ quiet = TRUE
  BY DEF Init
<1>2. \A l \in Listings : \A p \in DOMAIN l : \E s \in Sides : p \in DOMAIN tree[s] /\ l = tree[s]
  BY <1>1, EmptyIs DEF Listings, Empty, Sides
<1>3. ASSUME NEW s \in Sides, NEW p \in DOMAIN tree[s]
      PROVE  /\ p \in Paths /\ IsEntry(tree[s][p])
             /\ tree[s][p].type = "file" => tree[s][p].mtime \in Int /\ tree[s][p].mtime <= 0
  <2> DEFINE e == tree[s][p]
  <2>1. p \in Paths
        /\ \/ e = Dir \/ \E x \in Targets : e = Link(x)
           \/ /\ e.type = "file" /\ StatOf(e) # StatOf(Dir)
              /\ e.mtime \in Int /\ e.mtime <= 0
    BY <1>1, <1>3, TreesAssumption
  <2> HIDE DEF e
  <2>2. e = Dir \/ (\E x \in Targets : e = Link(x)) => IsEntry(e) /\ e.type # "file"
    BY DEF IsEntry, Dir, Link, StatOf
  <2>3. e.type = "file" /\ StatOf(e) # StatOf(Dir) => IsEntry(e)
    BY DEF IsEntry
  <2>4. IsEntry(e) /\ (e.type = "file" => e.mtime \in Int /\ e.mtime <= 0)
    BY <2>1, <2>2, <2>3
  <2> QED  BY <2>1, <2>4 DEF e
<1>4. ListingsStand
  <2>1. \A l \in Listings : DOMAIN l \subseteq Paths /\ \A p \in DOMAIN l : IsEntry(l[p])
    BY <1>2, <1>3
  <2> QED  BY <1>1, <2>1, TreesAssumption DEF ListingsStand, Empty, NoErrors
<1>5. FilesAreKnown
  <2> SUFFICES ASSUME NEW p \in Paths, NEW e \in FilesAt(p), NEW f \in FilesAt(p)
               PROVE  /\ e.mtime \in Int /\ e.mtime <= changes
                      /\ StatOf(e) = StatOf(f) => e = f
    BY DEF FilesAreKnown
  <2>1. PICK s \in Sides : p \in DOMAIN tree[s] /\ e = tree[s][p] /\ e.type = "file"
    BY <1>2 DEF FilesAt
  <2>2. PICK t \in Sides : p \in DOMAIN tree[t] /\ f = tree[t][p] /\ f.type = "file"
    BY <1>2 DEF FilesAt
  <2>3. e.mtime \in Int /\ e.mtime <= changes
    BY <1>1, <1>3, <2>1
  <2>4. tree[s] \in Trees /\ tree[t] \in Trees
    BY <1>1
  <2>5. StatOf(e) = StatOf(f) => e = f
    BY <2>1, <2>2, <2>4, TreesAssumption
  <2> QED  BY <2>3, <2>5
<1>6. Control
  BY <1>1 DEF Control, NoOptions, Capturing
<1>7. QuietLists /\ DigestsStand
  BY <1>1, EmptyIs DEF QuietLists, DigestsStand, Current, NoOptions
<1> QED  BY <1>4, <1>5, <1>6, <1>7 DEF BInv

\* What a run that is over leaves in memory.
LEMMA OverIs ==
  ASSUME ListingsStand, Over
  PROVE  /\ pc' = "off" /\ opts' = NoOptions /\ mode' = NoOptions.mode /\ plan' = NoPlan
         /\ digests' = <<>> /\ list' = Empty /\ errs' = NoErrors
         /\ DOMAIN list' = Sides /\ DOMAIN errs' = Sides
         /\ \A s \in Sides : list'[s] = <<>>
         /\ quiet' = TRUE
BY DEF Over, Empty, NoErrors

\* Such a run keeps the invariant, whatever it has saved.
LEMMA OverBInv ==
  ASSUME BInv, Over, UNCHANGED <<tree, locked, changes, snap>>
  PROVE  BInv'
<1>1. ListingsStand /\ FilesAreKnown /\ Control /\ DigestsStand
  BY DEF BInv
<1>2. NothingNew
  BY <1>1, OverIs, EmptyIs DEF NothingNew, Listings, Sides
<1>3. ListingsStand' /\ FilesAreKnown'
  BY <1>1, <1>2, OverIs, NothingNewKeeps
<1>4. Control'
  BY <1>1, OverIs DEF Control, Capturing, NoOptions
<1>5. QuietLists' /\ DigestsStand'
  BY <1>1, OverIs, EmptyIs DEF QuietLists, DigestsStand, Current, NoOptions
<1> QED  BY <1>3, <1>4, <1>5 DEF BInv

\* A run starts with nothing in memory.
LEMMA StartBInv ==
  ASSUME BInv, StartRun
  PROVE  BInv'
<1>1. ListingsStand /\ FilesAreKnown /\ Control /\ DigestsStand
  BY DEF BInv
<1>2. /\ opts' \in [kind : Kinds, mode : Modes, resume : BOOLEAN]
      /\ opts'.resume => journal # None /\ opts'.kind # "captureOnly"
      /\ opts'.kind = "offline" => snap # None
      /\ mode' = opts'.mode
      /\ pc' = IF opts'.kind = "live" /\ ~opts'.resume THEN "compare" ELSE "source"
      /\ list' = Empty /\ errs' = NoErrors /\ digests' = <<>> /\ plan' = NoPlan
      /\ quiet' = TRUE
      /\ UNCHANGED <<tree, locked, changes, snap, journal>>
  BY DEF StartRun, treeVars
<1>3. /\ DOMAIN list' = Sides /\ DOMAIN errs' = Sides
      /\ \A s \in Sides : list'[s] = <<>>
  BY <1>2 DEF Empty, NoErrors
<1>4. NothingNew
  BY <1>1, <1>2, <1>3, EmptyIs DEF NothingNew, Listings, Sides
<1>5. ListingsStand' /\ FilesAreKnown'
  BY <1>1, <1>2, <1>3, <1>4, NothingNewKeeps
<1>6. /\ opts'.kind \in {"live", "offline", "capture", "captureOnly"} /\ opts'.mode \in Modes
      /\ opts'.mode \in {"Presence", "Size", "Content"} /\ opts'.resume \in BOOLEAN
  BY <1>2, ScanRunsAssumption
<1>7. Control'
  BY <1>1, <1>2, <1>6 DEF Control, Capturing
<1>8. QuietLists' /\ DigestsStand'
  BY <1>1, <1>2, <1>3, EmptyIs DEF QuietLists, DigestsStand, Current, Sides
<1> QED  BY <1>5, <1>7, <1>8 DEF BInv

\* What can be seen of a side is in its tree, which is a listing.
LEMMA SeenIsListed ==
  ASSUME NEW s \in Sides, NEW p \in DOMAIN Visible(s)
  PROVE  /\ tree[s] \in Listings
         /\ p \in DOMAIN tree[s] /\ Visible(s)[p] = tree[s][p]
BY VisibleIs DEF Listings, Sides

\* The source is listed.
LEMMA ListSourceBInv ==
  ASSUME BInv, ListSource
  PROVE  BInv'
<1>1. ListingsStand /\ FilesAreKnown /\ Control /\ QuietLists /\ DigestsStand
  BY DEF BInv
<1>2. /\ pc = "source" /\ opts.kind # "offline"
      /\ list' = [list EXCEPT !["A"] = Visible("A")]
      /\ errs' = [errs EXCEPT !["A"] = IF opts.kind = "live" THEN Unlistable("A") ELSE {}]
      /\ pc' = IF opts.kind = "live" THEN AfterSource ELSE "hash"
      /\ UNCHANGED <<tree, locked, changes, opts, mode, digests, plan, snap, journal, quiet>>
  BY DEF ListSource, treeVars
<1>3. /\ DOMAIN list' = Sides /\ DOMAIN errs' = Sides
      /\ list'["A"] = Visible("A") /\ list'["B"] = list["B"]
      /\ opts.kind = "live" => errs'["A"] = Unlistable("A")
  BY <1>1, <1>2 DEF ListingsStand, Sides
<1>4. NothingNew
  BY <1>2, <1>3, SeenIsListed DEF NothingNew, Listings, Sides
<1>5. ListingsStand' /\ FilesAreKnown'
  BY <1>1, <1>2, <1>3, <1>4, NothingNewKeeps
<1>6. Control'
  BY <1>1, <1>2 DEF Control, Capturing, AfterSource
<1>7. QuietLists'
  <2>1. Visible("A")' = Visible("A") /\ Unlistable("A")' = Unlistable("A")
    BY <1>2 DEF Visible, Unlistable, Hidden
  <2>2. pc' \notin {"plan", "done"} /\ (opts.resume => pc' # "compare")
    BY <1>2 DEF AfterSource
  <2> QED  BY <1>2, <1>3, <2>1, <2>2 DEF QuietLists, ListedAsIs
<1>8. DigestsStand'
  \* Nothing has been hashed yet.
  <2>1. digests' = <<>>
    BY <1>1, <1>2 DEF Control
  <2> QED  BY <1>1, <1>2, <2>1, EmptyIs DEF DigestsStand, Current
<1> QED  BY <1>5, <1>6, <1>7, <1>8 DEF BInv

\* The source is hashed: each digest is of the file as it is now.
LEMMA HashBInv ==
  ASSUME BInv, HashSourceIndex
  PROVE  BInv'
<1>1. ListingsStand /\ FilesAreKnown /\ Control /\ QuietLists /\ DigestsStand
  BY DEF BInv
<1>2. /\ pc = "hash" /\ pc' = "write"
      /\ \A p \in DOMAIN digests' : digests'[p] = tree["A"][p].data
      /\ UNCHANGED <<tree, locked, changes, opts, mode, list, errs, plan, snap, journal, quiet>>
  BY EmptyIs DEF HashSourceIndex, treeVars
<1>3. NothingNew
  BY <1>2 DEF NothingNew, Listings
<1>4. ListingsStand' /\ FilesAreKnown'
  BY <1>1, <1>2, <1>3, NothingNewKeeps DEF ListingsStand
<1>5. Control'
  BY <1>1, <1>2 DEF Control, Capturing
<1>6. QuietLists' /\ DigestsStand'
  BY <1>1, <1>2 DEF QuietLists, DigestsStand, Current
<1> QED  BY <1>4, <1>5, <1>6 DEF BInv

\* The snapshot is truncated, written, or left cut short.
LEMMA SnapshotBInv ==
  ASSUME BInv, BeginSnapshot \/ (EndSnapshot /\ opts.kind # "captureOnly")
  PROVE  BInv'
<1>1. ListingsStand /\ FilesAreKnown /\ Control /\ QuietLists /\ DigestsStand
  BY DEF BInv
<1>2. /\ pc \in {"write", "writing"} /\ Capturing
      /\ pc = "write" => pc' = "writing" /\ snap' = CutShort
      /\ pc = "writing" =>
           /\ pc' = AfterSource /\ opts.kind = "capture"
           /\ snap' = CutShort \/ snap' = [whole |-> TRUE, list |-> list["A"], digests |-> digests]
      /\ UNCHANGED <<tree, locked, changes, opts, mode, list, errs, digests, plan, journal, quiet>>
  BY <1>1 DEF BeginSnapshot, EndSnapshot, treeVars, indexVars, Control, Capturing
<1>3. /\ snap' = CutShort \/ snap' = [whole |-> TRUE, list |-> list["A"], digests |-> digests]
      /\ pc = "write" => snap' = CutShort
  BY <1>1, <1>2
<1>4. \/ snap'.list = <<>> /\ snap'.digests = <<>> /\ snap'.whole = FALSE
      \/ /\ snap'.list = list["A"] /\ snap'.digests = digests /\ snap'.whole = TRUE
         /\ pc = "writing"
  BY <1>2, <1>3 DEF CutShort
<1>5. NothingNew
  <2>1. ASSUME NEW l \in Listings', NEW p \in DOMAIN l
        PROVE  l \in {tree["A"], tree["B"], list["A"], list["B"]}
    BY <1>2, <1>4, <2>1, EmptyIs DEF Listings
  <2> QED  BY <2>1 DEF NothingNew, Listings
<1>6. ListingsStand' /\ FilesAreKnown'
  BY <1>1, <1>2, <1>5, NothingNewKeeps DEF ListingsStand
<1>7. Control'
  <2>1. CASE pc = "write"
    BY <1>1, <1>2, <1>4, <2>1 DEF Control, Capturing
  <2>2. CASE pc = "writing"
    <3>1. pc' = IF opts.resume THEN "dest" ELSE "compare"
      BY <1>2, <2>2 DEF AfterSource
    <3> QED  BY <1>1, <1>2, <1>4, <2>2, <3>1 DEF Control, Capturing
  <2> QED  BY <1>2, <2>1, <2>2
<1>8. QuietLists'
  BY <1>1, <1>2 DEF QuietLists, AfterSource, Capturing
<1>9. DigestsStand'
  BY <1>1, <1>2, <1>4, EmptyIs DEF DigestsStand, Current
<1> QED  BY <1>6, <1>7, <1>8, <1>9 DEF BInv

\* The source is taken from the snapshot.
LEMMA ReadBInv ==
  ASSUME BInv, ReadSnapshot
  PROVE  BInv'
<1>1. ListingsStand /\ FilesAreKnown /\ Control /\ QuietLists /\ DigestsStand
  BY DEF BInv
<1>2. /\ pc = "source" /\ opts.kind = "offline" /\ snap # None /\ snap.whole
      /\ list' = [list EXCEPT !["A"] = snap.list] /\ digests' = snap.digests
      /\ mode' = IF opts.mode = "Content" /\ snap.digests = <<>> /\ snap.list # <<>>
                 THEN "Size" ELSE opts.mode
      /\ pc' = IF opts.resume THEN "dest" ELSE "compare"
      /\ UNCHANGED <<tree, locked, changes, opts, errs, plan, snap, journal, quiet>>
  BY <1>1 DEF ReadSnapshot, treeVars, AfterSource, Control
<1>3. DOMAIN list' = Sides /\ list'["A"] = snap.list /\ list'["B"] = list["B"]
  BY <1>1, <1>2 DEF ListingsStand, Sides
<1>4. NothingNew
  BY <1>2, <1>3 DEF NothingNew, Listings
<1>5. ListingsStand' /\ FilesAreKnown'
  BY <1>1, <1>2, <1>3, <1>4, NothingNewKeeps DEF ListingsStand
<1>6. Control'
  BY <1>1, <1>2, <1>3 DEF Control, Capturing
<1>7. QuietLists' /\ DigestsStand'
  BY <1>1, <1>2, <1>3 DEF QuietLists, DigestsStand, Current
<1> QED  BY <1>5, <1>6, <1>7 DEF BInv

\* The destination is listed.
LEMMA ListDestBInv ==
  ASSUME BInv, ListDest
  PROVE  BInv'
<1>1. ListingsStand /\ FilesAreKnown /\ Control /\ QuietLists /\ DigestsStand
  BY DEF BInv
<1>2. /\ pc = "dest" /\ pc' = "plan" /\ journal.mode = opts.mode
      /\ list' = [list EXCEPT !["B"] = Visible("B")]
      /\ errs' = [errs EXCEPT !["B"] = Unlistable("B")]
      /\ UNCHANGED <<tree, locked, changes, opts, mode, digests, plan, snap, journal, quiet>>
  BY DEF ListDest, treeVars, Compatible
<1>3. /\ DOMAIN list' = Sides /\ DOMAIN errs' = Sides
      /\ list'["B"] = Visible("B") /\ list'["A"] = list["A"]
      /\ errs'["B"] = Unlistable("B") /\ errs'["A"] = errs["A"]
  BY <1>1, <1>2 DEF ListingsStand, Sides
<1>4. NothingNew
  BY <1>2, <1>3, SeenIsListed DEF NothingNew, Listings, Sides
<1>5. ListingsStand' /\ FilesAreKnown'
  BY <1>1, <1>2, <1>3, <1>4, NothingNewKeeps
<1>6. Control'
  BY <1>1, <1>2, <1>3 DEF Control, Capturing
<1>7. QuietLists'
  <2>1. /\ Visible("A")' = Visible("A") /\ Unlistable("A")' = Unlistable("A")
        /\ Visible("B")' = Visible("B") /\ Unlistable("B")' = Unlistable("B")
    BY <1>2 DEF Visible, Unlistable, Hidden
  <2> QED  BY <1>1, <1>2, <1>3, <2>1 DEF QuietLists, ListedAsIs
<1>8. DigestsStand'
  BY <1>1, <1>2, <1>3 DEF DigestsStand, Current
<1> QED  BY <1>5, <1>6, <1>7, <1>8 DEF BInv

\* The plan is made.
LEMMA PlanBInv ==
  ASSUME BInv, MakePlan
  PROVE  BInv'
<1>1. ListingsStand /\ FilesAreKnown /\ Control /\ QuietLists /\ DigestsStand
  BY DEF BInv
<1>2. /\ pc = "plan" /\ pc' = "compare" /\ opts.resume
      /\ ~Refused(journal.rows, list, errs) /\ plan' = PlanResume(journal.rows, list, errs)
      /\ UNCHANGED <<tree, locked, changes, opts, mode, list, errs, digests, snap, journal, quiet>>
  BY <1>1 DEF MakePlan, treeVars, indexVars, Control
<1>3. NothingNew
  BY <1>2 DEF NothingNew, Listings
<1>4. ListingsStand' /\ FilesAreKnown'
  BY <1>1, <1>2, <1>3, NothingNewKeeps DEF ListingsStand
<1>5. Control'
  BY <1>1, <1>2 DEF Control, Capturing
<1>6. QuietLists' /\ DigestsStand'
  <2>1. \A s \in Sides : Visible(s)' = Visible(s) /\ Unlistable(s)' = Unlistable(s)
    BY <1>2 DEF Visible, Unlistable, Hidden
  <2> QED  BY <1>1, <1>2, <2>1 DEF QuietLists, ListedAsIs, DigestsStand, Current, Sides
<1> QED  BY <1>4, <1>5, <1>6 DEF BInv

\* A comparison is complete.
LEMMA CompareBInv ==
  ASSUME BInv, Compare
  PROVE  BInv'
<1>1. ListingsStand /\ FilesAreKnown /\ Control /\ QuietLists /\ DigestsStand
  BY DEF BInv
<1>2. /\ pc = "compare" /\ pc' = "done"
      /\ UNCHANGED <<tree, locked, changes, opts, mode, list, errs, digests, plan, snap, quiet>>
  BY DEF Compare, treeVars, indexVars
<1>3. NothingNew
  BY <1>2 DEF NothingNew, Listings
<1>4. ListingsStand' /\ FilesAreKnown'
  BY <1>1, <1>2, <1>3, NothingNewKeeps DEF ListingsStand
<1>5. Control'
  BY <1>1, <1>2 DEF Control, Capturing
<1>6. QuietLists' /\ DigestsStand'
  <2>1. \A s \in Sides : Visible(s)' = Visible(s) /\ Unlistable(s)' = Unlistable(s)
    BY <1>2 DEF Visible, Unlistable, Hidden
  <2> QED  BY <1>1, <1>2, <2>1 DEF QuietLists, ListedAsIs, DigestsStand, Current, Sides
<1> QED  BY <1>4, <1>5, <1>6 DEF BInv

\* A capture that compares nothing ends with its snapshot.
LEMMA CaptureBInv ==
  ASSUME BInv, EndSnapshot, opts.kind = "captureOnly"
  PROVE  BInv'
<1>1. ListingsStand /\ FilesAreKnown /\ Control /\ DigestsStand
  BY DEF BInv
<1>2. /\ Over /\ UNCHANGED <<tree, locked, changes, journal>>
      /\ snap' = snap \/ snap' = [whole |-> TRUE, list |-> list["A"], digests |-> digests]
  BY DEF EndSnapshot, treeVars
<1>3. CASE snap' = snap
  BY <1>2, <1>3, OverBInv
<1>4. CASE snap' = [whole |-> TRUE, list |-> list["A"], digests |-> digests]
  <2>1. /\ snap'.list = list["A"] /\ snap'.digests = digests /\ snap'.whole = TRUE
    BY <1>4
  <2>2. NothingNew
    BY <1>1, <1>2, <2>1, OverIs, EmptyIs DEF NothingNew, Listings, Sides
  <2>3. ListingsStand' /\ FilesAreKnown'
    BY <1>1, <1>2, <2>2, OverIs, NothingNewKeeps
  <2>4. Control'
    <3>1. /\ pc' = "off" /\ opts' = NoOptions /\ mode' = NoOptions.mode /\ plan' = NoPlan
          /\ digests' = <<>> /\ quiet' = TRUE /\ snap'.whole \in BOOLEAN
      BY <1>1, <1>2, <2>1, OverIs
    <3> QED  BY <3>1 DEF Control, Capturing, NoOptions
  <2>5. QuietLists' /\ DigestsStand'
    BY <1>1, <1>2, <2>1, OverIs, EmptyIs DEF QuietLists, DigestsStand, Current, NoOptions
  <2> QED  BY <2>3, <2>4, <2>5 DEF BInv
<1> QED  BY <1>2, <1>3, <1>4

\* Every step keeps the invariant.
LEMMA NextBInv == BInv /\ [Next]_vars => BInv'
<1> SUFFICES ASSUME BInv, [Next]_vars PROVE BInv'
  OBVIOUS
<1>1. CASE TreeChange
  BY <1>1, ChangeBInv
<1>2. CASE StartRun
  BY <1>2, StartBInv
<1>3. CASE ListSource
  BY <1>3, ListSourceBInv
<1>4. CASE HashSourceIndex
  BY <1>4, HashBInv
<1>5. CASE BeginSnapshot
  BY <1>5, SnapshotBInv
<1>6. CASE EndSnapshot /\ opts.kind # "captureOnly"
  BY <1>6, SnapshotBInv
<1>7. CASE ReadSnapshot
  BY <1>7, ReadBInv
<1>8. CASE ListDest
  BY <1>8, ListDestBInv
<1>9. CASE MakePlan
  BY <1>9, PlanBInv
<1>10. CASE Compare
  BY <1>10, CompareBInv
<1>11. CASE Fail \/ Interrupt \/ Stop
  BY <1>11, OverBInv DEF Fail, Interrupt, Stop, treeVars
<1>12. CASE EndSnapshot /\ opts.kind = "captureOnly"
  BY <1>12, CaptureBInv
<1>13. CASE UNCHANGED vars
  BY <1>13 DEF vars, BInv, ListingsStand, FilesAreKnown, FilesAt, Listings, Control, Capturing,
     QuietLists, ListedAsIs, Visible, Unlistable, Hidden, DigestsStand, Current
<1> QED
  BY <1>1, <1>2, <1>3, <1>4, <1>5, <1>6, <1>7, <1>8, <1>9, <1>10, <1>11, <1>12, <1>13
     DEF Next, TreeChange

\* The listings and the session of every state are as the invariant says.
THEOREM InvariantBInv == Spec => []BInv
<1>1. Init => BInv
  BY InitBInv
<1>2. BInv /\ [Next]_vars => BInv'
  BY NextBInv
<1> QED  BY <1>1, <1>2, PTL DEF Spec

-----------------------------------------------------------------------------
(* What a resumed run covers                                               *)

\* Of paths there is one that is in none of the others.
LEMMA Topmost ==
  ASSUME NEW S \in SUBSET Paths, S # {}
  PROVE  \E q \in S : Above[q] \cap S = {}
<1> DEFINE Higher(q) == Above[q] \cap S
           T == {Higher(q) : q \in S}
           R == StrictSubsetOrdering(Paths)
<1>1. IsWellFoundedOn(R, FiniteSubsetsOf(Paths))
  BY FS_StrictSubsetOrderingWellFounded
<1>2. T \subseteq FiniteSubsetsOf(Paths) /\ T # {}
  <2>1. FiniteSubsetsOf(Paths) = SUBSET Paths
    BY FS_FiniteSubsetsOfFinite, ResumePlanAssumption
  <2>2. \A q \in S : Higher(q) \in SUBSET Paths
    OBVIOUS
  <2> HIDE DEF Higher
  <2>3. T \subseteq SUBSET Paths
    BY <2>2
  <2>4. T # {}
    OBVIOUS
  <2> QED  BY <2>1, <2>3, <2>4
<1>3. PICK x \in T : \A y \in T : ~(<<y, x>> \in R)
  <2> HIDE DEF T, R
  <2> QED  BY <1>1, <1>2, WFMin
<1>4. PICK q \in S : x = Higher(q)
  BY <1>3
<1>5. ASSUME NEW r \in Higher(q)
      PROVE  FALSE
  <2>1. r \in S /\ r \in Paths /\ q \in Paths /\ r \notin Above[r] /\ Above[r] \subseteq Above[q]
    BY TreesAssumption
  <2>2. Higher(r) \subseteq Higher(q) /\ Higher(r) # Higher(q)
    BY <2>1
  <2>3. <<Higher(r), Higher(q)>> \in R
    BY <2>2 DEF StrictSubsetOrdering
  <2> QED  BY <1>3, <1>4, <2>1, <2>3
<1> QED  BY <1>5

\* What is hidden is under a directory that is reported.
LEMMA HiddenIsReported ==
  ASSUME ListingsStand, NEW s \in Sides, NEW p \in DOMAIN tree[s], Hidden(s, p)
  PROVE  \E d \in Unlistable(s) : d \in Above[p]
<1>1. tree[s] \in Listings
  BY DEF Listings, Sides
<1>2. p \in Paths /\ Above[p] \cap locked[s] \in SUBSET Paths
  BY <1>1, ResumePlanAssumption DEF ListingsStand
<1>3. PICK q \in Above[p] \cap locked[s] : Above[q] \cap (Above[p] \cap locked[s]) = {}
  BY <1>2, Topmost DEF Hidden
<1>4. Above[q] \subseteq Above[p]
  BY <1>2, <1>3, TreesAssumption
<1>5. ~Hidden(s, q)
  BY <1>3, <1>4 DEF Hidden
<1>6. q \in DOMAIN tree[s]
  BY <1>3 DEF ListingsStand
<1> QED  BY <1>3, <1>5, <1>6 DEF Unlistable

\* The plan of a resumed run: a row is reused, or its path is in the remainder.
LEMMA PlanIs ==
  ASSUME BInv, pc = "compare", opts.resume
  PROVE  /\ DOMAIN plan.reused =
              {p \in DOMAIN journal.rows : Reusable(p, journal.rows[p], list, errs)}
         /\ \A p \in DOMAIN plan.reused : plan.reused[p] = journal.rows[p]
         /\ \A s \in Sides : plan.remainder[s] =
              {p \in DOMAIN list[s] :
                 p \in DOMAIN journal.rows => ~Reusable(p, journal.rows[p], list, errs)}
<1>1. plan = PlanResume(journal.rows, list, errs)
  BY DEF BInv, Control
<1> QED  BY <1>1 DEF PlanResume, Restrict, Remainder

\* The paths of the rows of a comparison.
LEMMA RowsAre ==
  /\ DOMAIN Merge(plan.reused, NewRows) =
       DOMAIN plan.reused \cup DOMAIN SourceEntries \cup DOMAIN DestEntries
  /\ \A p \in DOMAIN Merge(plan.reused, NewRows) :
       Merge(plan.reused, NewRows)[p] =
         IF p \in DOMAIN SourceEntries \cup DOMAIN DestEntries THEN NewRows[p] ELSE plan.reused[p]
  /\ DOMAIN NewRows = DOMAIN SourceEntries \cup DOMAIN DestEntries
<1>1. DOMAIN NewRows = DOMAIN SourceEntries \cup DOMAIN DestEntries
  BY DEF NewRows, Compared
<1> HIDE DEF NewRows
<1> QED  BY <1>1 DEF Merge

\* The paths of a resumed run are those reused, and of the rest those that are
\* listed, and still there if they are of the destination.
LEMMA ResumedEntries ==
  ASSUME BInv, pc = "compare", opts.resume
  PROVE  /\ DOMAIN SourceEntries = plan.remainder["A"]
         /\ \A p \in DOMAIN SourceEntries : SourceEntries[p] = list["A"][p]
         /\ DOMAIN DestEntries = plan.remainder["B"] \cap DOMAIN Visible("B")
         /\ \A p \in DOMAIN DestEntries : DestEntries[p] = Visible("B")[p]
BY DEF SourceEntries, DestEntries, FreshLive, Restrict

\* A run over a destination that is as it was listed has a row for every path
\* that is listed, and for no other.
LEMMA ResumedRows ==
  ASSUME BInv, pc = "compare", opts.resume, DOMAIN Visible("B") = DOMAIN list["B"]
  PROVE  DOMAIN Merge(plan.reused, NewRows) = DOMAIN list["A"] \cup DOMAIN list["B"]
<1>1. ASSUME NEW p \in DOMAIN plan.reused
      PROVE  p \in DOMAIN list["A"] \cup DOMAIN list["B"]
  <2>1. Listed(p, list) = Expected(journal.rows[p].verdict)
    BY <1>1, PlanIs DEF Reusable
  <2>2. Expected(journal.rows[p].verdict) # {}
    BY DEF Expected, Sides
  <2> QED  BY <2>1, <2>2 DEF Listed, Sides
<1>2. ASSUME NEW s \in Sides, NEW p \in DOMAIN list[s]
      PROVE  p \in DOMAIN plan.reused \cup plan.remainder[s]
  BY <1>2, PlanIs
<1>3. ASSUME NEW s \in Sides
      PROVE  plan.remainder[s] \subseteq DOMAIN list[s]
  BY PlanIs
<1> QED  BY <1>1, <1>2, <1>3, RowsAre, ResumedEntries DEF Sides

\* Only a comparison ends a run with a result.
LEMMA DoneByCompare ==
  ASSUME [Next]_vars, pc # "done", pc' = "done"
  PROVE  Compare
BY DEF Next, vars, PutEntry, Remove, SetRights, Changed, StartRun, ListSource, HashSourceIndex,
   BeginSnapshot, EndSnapshot, ReadSnapshot, ListDest, MakePlan, Fail, Interrupt, Stop, Over,
   AfterSource

\* A path of the session without a row is on no side, but below a directory that
\* could not be listed and that this side spells otherwise than the row.
LEMMA Forgotten ==
  ASSUME BInv, Compare, opts.resume, opts.kind = "live", quiet,
         NEW p \in DOMAIN journal.rows, p \notin DOMAIN report'.rows, NEW s \in Sides,
         p \in DOMAIN tree[s]
  PROVE  /\ s # SpelledAs(journal.rows[p].verdict)
         /\ Above[p] \cap locked[s] \cap Respelt # {}
<1>1. ListingsStand /\ Control /\ pc = "compare"
  BY DEF BInv, Compare
<1>2. \A t \in Sides : ListedAsIs(t)
  BY <1>1 DEF BInv, QuietLists, Sides
<1>3. report'.rows = Merge(plan.reused, NewRows)
  BY DEF Compare
<1>4. p \notin DOMAIN list["A"] \cup DOMAIN list["B"]
  BY <1>1, <1>2, <1>3, ResumedRows DEF ListedAsIs, Sides
<1>5. Listed(p, list) = {} /\ ~Refused(journal.rows, list, errs)
  BY <1>1, <1>4 DEF Listed, Sides, Control
<1>6. ~InError(p, journal.rows[p], errs)
  BY <1>5 DEF Refused
<1>7. Hidden(s, p)
  BY <1>2, <1>4, VisibleIs DEF ListedAsIs, Sides
<1>8. PICK d \in Unlistable(s) : d \in Above[p]
  BY <1>1, <1>7, HiddenIsReported
<1>9. d \in errs[s] /\ d \in locked[s]
  BY <1>2, <1>8 DEF ListedAsIs, Unlistable
<1> QED  BY <1>6, <1>8, <1>9 DEF InError, AtOrUnder

\* A resumed run of two live sides that completes forgets no path of the session
\* that is still there (PlanResume gives up when it cannot tell), whatever the trees
\* are and however many runs there were; the one exception is a path below a
\* directory that cannot be listed on the side that spells it otherwise than the row.
THEOREM NothingForgottenThm == Spec => NothingForgotten
<1>1. BInv /\ [Next]_vars =>
        (pc = "compare" /\ pc' = "done" /\ opts.resume /\ opts.kind = "live" /\ quiet =>
           \A p \in DOMAIN journal.rows :
             \A s \in Sides :
               p \notin DOMAIN report'.rows /\ p \in DOMAIN tree[s] =>
                 /\ s # SpelledAs(journal.rows[p].verdict)
                 /\ Above[p] \cap locked[s] \cap Respelt # {})
  BY DoneByCompare, Forgotten
<1> QED  BY <1>1, InvariantBInv, PTL DEF Spec, NothingForgotten

-----------------------------------------------------------------------------
(* What a session says                                                     *)

SessionTells == RowsTyped /\ RowsTell

\* Any other step leaves the trees alone. It may write what a capture listed,
\* and a capture may list the source.
LEMMA OtherStep ==
  ASSUME BInv, [Next]_vars, ~TreeChange
  PROVE  /\ UNCHANGED <<tree, changes>>
         /\ \/ snap' = snap \/ snap' = CutShort
            \/ pc = "writing" /\ snap' = [whole |-> TRUE, list |-> list["A"], digests |-> digests]
         /\ pc' \in {"hash", "write", "writing"} =>
              \/ list' = list /\ pc \in {"hash", "write", "writing"}
              \/ list'["A"] = Visible("A")
<1>1. Control /\ DOMAIN list = Sides
  BY DEF BInv, ListingsStand
<1>2. CASE UNCHANGED vars
  BY <1>1, <1>2 DEF vars
<1>3. CASE StartRun
  BY <1>1, <1>3 DEF StartRun, treeVars
<1>4. CASE ListSource
  BY <1>1, <1>4 DEF ListSource, treeVars, Sides
<1>5. CASE HashSourceIndex \/ BeginSnapshot
  BY <1>1, <1>5 DEF HashSourceIndex, BeginSnapshot, treeVars, indexVars
<1>6. CASE EndSnapshot
  BY <1>1, <1>6 DEF EndSnapshot, Over, AfterSource, treeVars, indexVars
<1>7. CASE ReadSnapshot \/ ListDest \/ MakePlan \/ Compare
  BY <1>1, <1>7 DEF ReadSnapshot, ListDest, MakePlan, Compare, AfterSource, treeVars, indexVars
<1>8. CASE Fail \/ Interrupt \/ Stop
  BY <1>1, <1>8 DEF Fail, Interrupt, Stop, Over, treeVars
<1> QED  BY <1>2, <1>3, <1>4, <1>5, <1>6, <1>7, <1>8 DEF Next, TreeChange

\* So it adds no file that a row could be held against.
LEMMA OtherFiles ==
  ASSUME BInv, [Next]_vars, ~TreeChange, NEW p
  PROVE  SourceFiles(p)' \subseteq SourceFiles(p) /\ DestFiles(p)' \subseteq DestFiles(p)
<1>1. /\ UNCHANGED <<tree, changes>>
      /\ \/ snap' = snap \/ snap' = CutShort
         \/ pc = "writing" /\ snap' = [whole |-> TRUE, list |-> list["A"], digests |-> digests]
      /\ pc' \in {"hash", "write", "writing"} =>
           \/ list' = list /\ pc \in {"hash", "write", "writing"}
           \/ list'["A"] = Visible("A")
  BY OtherStep
<1>2. ASSUME NEW l \in Listings, p \in DOMAIN l, l[p].type = "file"
      PROVE  l[p] \in FilesAt(p)
  BY <1>2 DEF FilesAt
<1>3. ASSUME NEW f \in DestFiles(p)'
      PROVE  f \in DestFiles(p)
  <2>1. PICK s \in Sides : p \in DOMAIN tree[s] /\ f = tree[s][p] /\ f.type = "file"
    BY <1>1, <1>3 DEF DestFiles, FilesAt
  <2>2. tree[s] \in Listings
    BY DEF Listings, Sides
  <2> QED  BY <1>2, <2>1, <2>2 DEF DestFiles
<1>4. ASSUME NEW e, e.type = "file", p \in DOMAIN tree["A"], e = tree["A"][p]
      PROVE  e \in SourceFiles(p)
  BY <1>2, <1>4 DEF SourceFiles, Listings
<1>5. ASSUME NEW e, e.type = "file", pc \in {"hash", "write", "writing"},
             p \in DOMAIN list["A"], e = list["A"][p]
      PROVE  e \in SourceFiles(p)
  <2>1. Capturing
    BY <1>5 DEF BInv, Control
  <2> QED  BY <1>2, <1>5, <2>1 DEF SourceFiles, Listings
<1>6. ASSUME NEW e, e.type = "file", Snapshotted(p), e = snap.list[p]
      PROVE  e \in SourceFiles(p)
  BY <1>2, <1>6 DEF SourceFiles, Listings, Snapshotted
<1>7. ASSUME NEW e \in SourceFiles(p)'
      PROVE  e \in SourceFiles(p)
  <2>1. e.type = "file"
    BY <1>7 DEF SourceFiles, FilesAt
  <2>2. \/ p \in DOMAIN tree["A"] /\ e = tree["A"][p]
        \/ Snapshotted(p)' /\ e = snap'.list[p]
        \/ /\ pc' \in {"hash", "write", "writing"}
           /\ p \in DOMAIN list'["A"] /\ e = list'["A"][p]
    BY <1>1, <1>7 DEF SourceFiles
  <2>3. CASE Snapshotted(p)' /\ e = snap'.list[p]
    <3>1. CASE snap' = snap
      BY <1>6, <2>1, <2>3, <3>1 DEF Snapshotted
    <3>2. CASE snap' = CutShort
      BY <2>3, <3>2 DEF Snapshotted, CutShort
    <3>3. CASE pc = "writing" /\ snap' = [whole |-> TRUE, list |-> list["A"], digests |-> digests]
      BY <1>5, <2>1, <2>3, <3>3 DEF Snapshotted
    <3> QED  BY <1>1, <3>1, <3>2, <3>3
  <2>4. CASE /\ pc' \in {"hash", "write", "writing"}
             /\ p \in DOMAIN list'["A"] /\ e = list'["A"][p]
    <3>1. CASE list' = list /\ pc \in {"hash", "write", "writing"}
      BY <1>5, <2>1, <2>4, <3>1
    <3>2. CASE list'["A"] = Visible("A")
      BY <1>4, <2>1, <2>4, <3>2, VisibleIs DEF Sides
    <3> QED  BY <1>1, <2>4, <3>1, <3>2
  <2> QED  BY <1>4, <2>1, <2>2, <2>3, <2>4
<1> QED  BY <1>3, <1>7

\* A session that is not saved again tells of the trees as it did.
LEMMA SessionKept ==
  ASSUME BInv, SessionTells, [Next]_vars, UNCHANGED journal
  PROVE  SessionTells'
<1>1. ListingsStand /\ FilesAreKnown
  BY DEF BInv
<1>2. changes \in Nat
  BY <1>1 DEF ListingsStand
<1>3. CASE TreeChange
  <2>1. changes' = changes + 1 /\ UNCHANGED <<list, pc, opts, snap>>
    BY <1>3, ChangeLeaves
  <2>2. RowsTyped'
    BY <1>2, <2>1 DEF SessionTells, RowsTyped
  <2>3. ASSUME NEW p \in Paths, NEW e \in SourceFiles(p)', e.mtime # changes + 1
        PROVE  e \in SourceFiles(p)
    <3>1. e \in FilesAt(p)
      BY <1>1, <1>3, <2>3, ChangeKeeps DEF SourceFiles
    <3>2. \/ p \in DOMAIN tree'["A"] /\ e = tree'["A"][p]
          \/ Snapshotted(p) /\ e = snap.list[p]
          \/ /\ Capturing /\ pc \in {"hash", "write", "writing"}
             /\ p \in DOMAIN list["A"] /\ e = list["A"][p]
      BY <2>1, <2>3 DEF SourceFiles, Snapshotted, Capturing
    <3>3. p \in DOMAIN tree'["A"] /\ e = tree'["A"][p] => p \in DOMAIN tree["A"] /\ e = tree["A"][p]
      BY <1>1, <1>3, <3>1, SourceKept
    <3> QED  BY <3>1, <3>2, <3>3 DEF SourceFiles
  <2>4. ASSUME NEW p \in Paths, NEW f \in DestFiles(p)', f.mtime # changes + 1
        PROVE  f \in DestFiles(p)
    BY <1>1, <1>3, <2>4, DestKept
  <2>5. ASSUME journal # None, journal.mode \in Modes, NEW p \in DOMAIN journal.rows,
               IsMatch(journal.rows[p]), ~journal.rows[p].isDirectory,
               NEW e \in SourceFiles(p)', NEW f \in DestFiles(p)',
               StatOf(e) = journal.rows[p].statA, StatOf(f) = journal.rows[p].statB
        PROVE  journal.rows[p].verdict = Truth(e, f, journal.mode)
    <3>1. /\ p \in Paths
          /\ journal.rows[p].statA.mtime \in Int /\ journal.rows[p].statA.mtime <= changes
          /\ journal.rows[p].statB.mtime \in Int /\ journal.rows[p].statB.mtime <= changes
      BY <2>5 DEF SessionTells, RowsTyped
    <3>2. e.mtime = journal.rows[p].statA.mtime /\ f.mtime = journal.rows[p].statB.mtime
      BY <2>5 DEF StatOf
    <3>3. e.mtime # changes + 1 /\ f.mtime # changes + 1
      BY <1>2, <3>1, <3>2
    <3>4. e \in SourceFiles(p) /\ f \in DestFiles(p)
      BY <2>3, <2>4, <2>5, <3>1, <3>3
    <3> QED  BY <2>5, <3>4 DEF SessionTells, RowsTell, Tells
  <2> QED  BY <2>2, <2>5 DEF SessionTells, RowsTell, Tells
<1>4. CASE ~TreeChange
  <2>1. UNCHANGED changes
    BY <1>4, OtherStep
  <2>2. \A p : SourceFiles(p)' \subseteq SourceFiles(p) /\ DestFiles(p)' \subseteq DestFiles(p)
    BY <1>4, OtherFiles
  <2>3. RowsTyped'
    BY <2>1 DEF SessionTells, RowsTyped
  <2>4. RowsTell'
    BY <2>2 DEF SessionTells, RowsTell, Tells
  <2> QED  BY <2>3, <2>4 DEF SessionTells
<1> QED  BY <1>3, <1>4

\* What is compared is what a listing holds.
LEMMA ComparedEntries ==
  ASSUME BInv, pc = "compare", NEW p
  PROVE  /\ p \in DOMAIN SourceEntries =>
              \E l \in Listings : p \in DOMAIN l /\ SourceEntries[p] = l[p]
         /\ p \in DOMAIN DestEntries =>
              p \in DOMAIN tree["B"] /\ DestEntries[p] = tree["B"][p]
<1>1. "A" \in Sides /\ "B" \in Sides
  BY DEF Sides
<1>2. p \in DOMAIN DestEntries => p \in DOMAIN Visible("B") /\ DestEntries[p] = Visible("B")[p]
  BY DEF DestEntries, Restrict
<1>3. p \in DOMAIN Visible("B") => p \in DOMAIN tree["B"] /\ Visible("B")[p] = tree["B"][p]
  BY <1>1, VisibleIs
<1>4. CASE FreshLive
  <2>1. SourceEntries = Visible("A")
    BY <1>4 DEF SourceEntries, FreshLive
  <2> QED  BY <1>1, <1>2, <1>3, <2>1, SeenIsListed
<1>5. CASE ~FreshLive /\ opts.resume
  <2>1. p \in DOMAIN SourceEntries => p \in DOMAIN list["A"] /\ SourceEntries[p] = list["A"][p]
    BY <1>5, ResumedEntries, PlanIs, <1>1
  <2> QED  BY <1>2, <1>3, <2>1 DEF Listings
<1>6. CASE ~FreshLive /\ ~opts.resume
  <2>1. SourceEntries = list["A"]
    BY <1>6 DEF SourceEntries
  <2> QED  BY <1>2, <1>3, <2>1 DEF Listings
<1> QED  BY <1>4, <1>5, <1>6

OfFiles(a, b, m, content) ==
  CASE m = "Presence"                    -> "Identical"
    [] m # "Presence" /\ a.size # b.size -> "SizeMismatch"
    [] m = "Size" /\ a.size = b.size     -> "Identical"
    [] OTHER                             -> content

\* The verdict on two entries is one of those there are; on two files it is
\* that of their sizes, or what is said of their contents.
LEMMA MatchedIs ==
  ASSUME NEW m, NEW a, NEW b, IsEntry(a), IsEntry(b), NEW content
  PROVE  LET row == Matched(a, b, m, content) IN
         /\ row.statA = StatOf(a) /\ row.statB = StatOf(b) /\ row.isDirectory \in BOOLEAN
         /\ row.isDirectory => row.verdict = "Identical"
         /\ row.verdict = content \/ row.verdict \in MatchVerdicts
         /\ a.type = "file" /\ b.type = "file" =>
              ~row.isDirectory /\ row.verdict = OfFiles(a, b, m, content)
         /\ ~(a.type = "file" /\ b.type = "file") =>
              \A c : Matched(a, b, m, c) = row
<1> DEFINE files == a.type = "file" /\ b.type = "file"
           other(c) ==
             CASE a.type = "link" /\ b.type = "link" /\ a.data = b.data -> Row("Identical", TRUE, StatOf(a), StatOf(b))
               [] a.type = "link" /\ b.type = "link" /\ a.data # b.data -> Row("ContentMismatch", FALSE, StatOf(a), StatOf(b))
               [] a.type = "dir" /\ b.type = "dir" -> Row("Identical", TRUE, StatOf(a), StatOf(b))
               [] a.type # b.type -> Row("SizeMismatch", FALSE, StatOf(a), StatOf(b))
<1>1. a.type \in {"file", "dir", "link"} /\ b.type \in {"file", "dir", "link"}
  BY DEF IsEntry
<1>2. CASE files
  <2>1. \A c : Matched(a, b, m, c) = Row(OfFiles(a, b, m, c), FALSE, StatOf(a), StatOf(b))
    BY <1>2 DEF Matched, OfFiles
  <2>2. OfFiles(a, b, m, content) = content \/ OfFiles(a, b, m, content) \in MatchVerdicts
    BY DEF MatchVerdicts, OfFiles
  <2>3. LET row == Row(OfFiles(a, b, m, content), FALSE, StatOf(a), StatOf(b)) IN
        /\ row.statA = StatOf(a) /\ row.statB = StatOf(b) /\ row.isDirectory = FALSE
        /\ row.verdict = OfFiles(a, b, m, content)
    BY DEF Row
  <2> HIDE DEF other
  <2> QED  BY <1>2, <2>1, <2>2, <2>3
<1>3. CASE ~files
  <2>1. \A c : Matched(a, b, m, c) = other(c)
    BY <1>1, <1>3 DEF Matched
  <2>2. /\ other(content).statA = StatOf(a) /\ other(content).statB = StatOf(b)
        /\ other(content).isDirectory \in BOOLEAN
        /\ other(content).isDirectory => other(content).verdict = "Identical"
        /\ other(content).verdict \in MatchVerdicts
    BY <1>1, <1>3 DEF Row, MatchVerdicts
  <2> QED  BY <1>3, <2>1, <2>2
<1> QED  BY <1>2, <1>3

\* What is said of the contents of two files is one of the verdicts.
LEMMA ContentVerdictIs ==
  ASSUME NEW p
  PROVE  ContentVerdict(p) \in MatchVerdicts \cup ErrorVerdicts
BY DEF ContentVerdict, MatchVerdicts, ErrorVerdicts

\* Two files that were compared, as the rows may be held against them: what is
\* said of their contents, if anything, is true.
LEMMA ContentTells ==
  ASSUME BInv, pc = "compare",
         NEW p \in DOMAIN SourceEntries \cap DOMAIN DestEntries,
         SourceEntries[p] \in SourceFiles(p), ContentVerdict(p) \in MatchVerdicts
  PROVE  ContentVerdict(p) = OfContents(SourceEntries[p], DestEntries[p])
<1> DEFINE e == SourceEntries[p]
<1>1. ListingsStand /\ FilesAreKnown /\ Control /\ DigestsStand
  BY DEF BInv
<1>2. p \in DOMAIN tree["B"] /\ DestEntries[p] = tree["B"][p]
  BY ComparedEntries
<1>3. /\ e.type = "file" /\ e \in FilesAt(p) /\ p \in Paths
      /\ \/ p \in DOMAIN tree["A"] /\ e = tree["A"][p]
         \/ Snapshotted(p) /\ e = snap.list[p]
  <2>1. e.type = "file" /\ e \in FilesAt(p)
    BY DEF SourceFiles, FilesAt
  <2>2. p \in Paths
    BY <1>1, <2>1 DEF FilesAt, ListingsStand
  <2> QED  BY <2>1, <2>2 DEF SourceFiles
<1>4. CASE FromIndex
  <2>1. SourceEntries[p] = list["A"][p] /\ p \in DOMAIN list["A"]
    <3>1. ~FreshLive
      BY <1>4 DEF FromIndex, FreshLive
    <3>2. CASE opts.resume
      BY <3>2, ResumedEntries, PlanIs DEF Sides
    <3>3. CASE ~opts.resume
      BY <3>1, <3>3 DEF SourceEntries
    <3> QED  BY <3>2, <3>3
  <2>2. p \in DOMAIN digests
        /\ ContentVerdict(p) = IF digests[p] = DestEntries[p].data
                               THEN "Identical" ELSE "ContentMismatch"
    BY <1>2, <1>4 DEF ContentVerdict, MatchVerdicts
  <2>3. digests[p] = e.data
    <3>1. CASE p \in DOMAIN tree["A"] /\ e = tree["A"][p]
      BY <1>1, <1>3, <2>1, <2>2, <3>1 DEF DigestsStand, Current
    <3>2. CASE Snapshotted(p) /\ e = snap.list[p]
      <4>1. digests = snap.digests
        BY <1>1, <1>4, <3>2 DEF Control, Capturing, FromIndex, Snapshotted
      <4> QED  BY <2>2, <3>2, <4>1 DEF Snapshotted
    <3> QED  BY <1>3, <3>1, <3>2
  <2> QED  BY <2>2, <2>3 DEF OfContents
<1>5. CASE ~FromIndex
  <2> DEFINE now == tree["A"][p]
  <2>1. /\ p \in DOMAIN tree["A"] /\ now.type = "file" /\ StatOf(now) = StatOf(e)
        /\ ContentVerdict(p) = IF now.data = DestEntries[p].data
                               THEN "Identical" ELSE "ContentMismatch"
    BY <1>2, <1>5 DEF ContentVerdict, MatchVerdicts
  <2>2. now \in FilesAt(p)
    BY <2>1 DEF FilesAt, Listings
  <2>3. now = e
    BY <1>1, <1>3, <2>1, <2>2 DEF FilesAreKnown
  <2> QED  BY <2>1, <2>3 DEF OfContents
<1> QED  BY <1>4, <1>5

\* An entry with the size and time of a file is that file.
LEMMA FileIsKnown ==
  ASSUME ListingsStand, FilesAreKnown, NEW p, NEW e \in FilesAt(p),
         NEW l \in Listings, p \in DOMAIN l, StatOf(l[p]) = StatOf(e)
  PROVE  l[p] = e
<1>1. PICK k \in Listings : p \in DOMAIN k /\ k[p] = e /\ e.type = "file"
  BY DEF FilesAt
<1>2. p \in Paths /\ IsEntry(l[p]) /\ IsEntry(e)
  BY <1>1 DEF ListingsStand
<1>3. l[p].type = "file"
  BY <1>1, <1>2 DEF IsEntry
<1>4. l[p] \in FilesAt(p)
  BY <1>3 DEF FilesAt
<1> QED  BY <1>2, <1>4 DEF FilesAreKnown

\* A new row is a row, and tells the truth of the files it may be held against.
LEMMA NewRowTells ==
  ASSUME BInv, pc = "compare", NEW p \in DOMAIN NewRows
  PROVE  /\ p \in Paths
         /\ NewRows[p].verdict \in MatchVerdicts \cup ErrorVerdicts \cup {"Missing", "Extra"}
         /\ IsMatch(NewRows[p]) /\ NewRows[p].isDirectory => NewRows[p].verdict = "Identical"
         /\ IsMatch(NewRows[p]) /\ ~NewRows[p].isDirectory =>
              /\ NewRows[p].statA.mtime \in Int /\ NewRows[p].statA.mtime <= changes
              /\ NewRows[p].statB.mtime \in Int /\ NewRows[p].statB.mtime <= changes
              /\ \A e \in SourceFiles(p), f \in DestFiles(p) : Tells(NewRows[p], e, f, mode)
<1> DEFINE a == SourceEntries[p]
           b == DestEntries[p]
<1>1. ListingsStand /\ FilesAreKnown /\ changes \in Nat
  BY DEF BInv, ListingsStand
<1>2. /\ p \in DOMAIN SourceEntries \/ p \in DOMAIN DestEntries
      /\ p \in DOMAIN SourceEntries => \E l \in Listings : p \in DOMAIN l /\ a = l[p]
      /\ p \in DOMAIN DestEntries => p \in DOMAIN tree["B"] /\ b = tree["B"][p]
  BY RowsAre, ComparedEntries
<1>3. tree["B"] \in Listings
  BY DEF Listings
<1>4. p \in Paths
  BY <1>1, <1>2, <1>3 DEF ListingsStand
<1>5. CASE p \notin DOMAIN SourceEntries \/ p \notin DOMAIN DestEntries
  <2>1. NewRows[p].verdict \in {"Missing", "Extra"}
    BY <1>2, <1>5 DEF NewRows, Compared, Row
  <2> QED  BY <1>4, <2>1 DEF IsMatch, MatchVerdicts
<1>6. CASE p \in DOMAIN SourceEntries /\ p \in DOMAIN DestEntries
  <2> DEFINE row == Matched(a, b, mode, ContentVerdict(p))
  <2>1. NewRows[p] = row
    BY <1>6 DEF NewRows, Compared
  <2>2. PICK l \in Listings : p \in DOMAIN l /\ a = l[p]
    BY <1>2, <1>6
  <2>3. b = tree["B"][p] /\ p \in DOMAIN tree["B"]
    BY <1>2, <1>6
  <2>4. IsEntry(a) /\ IsEntry(b)
    BY <1>1, <1>3, <2>2, <2>3 DEF ListingsStand
  <2>5. ContentVerdict(p) \in MatchVerdicts \cup ErrorVerdicts
    BY ContentVerdictIs
  <2> HIDE DEF a, b
  <2>6. /\ row.statA = StatOf(a) /\ row.statB = StatOf(b) /\ row.isDirectory \in BOOLEAN
        /\ row.isDirectory => row.verdict = "Identical"
        /\ row.verdict = ContentVerdict(p) \/ row.verdict \in MatchVerdicts
        /\ a.type = "file" /\ b.type = "file" =>
             row.verdict = OfFiles(a, b, mode, ContentVerdict(p))
    BY <2>4, MatchedIs
  <2> HIDE DEF row
  <2>7. ASSUME NEW x \in {a, b}
        PROVE  StatOf(x).mtime \in Int /\ StatOf(x).mtime <= changes
    <3>1. PICK k \in Listings : p \in DOMAIN k /\ x = k[p]
      BY <1>3, <2>2, <2>3
    <3>2. CASE x.type = "file"
      <4>1. x \in FilesAt(p)
        BY <3>1, <3>2 DEF FilesAt
      <4> QED  BY <1>1, <1>4, <4>1 DEF FilesAreKnown, StatOf
    <3>3. CASE x.type # "file"
      <4>1. StatOf(x) = StatOf(Dir)
        BY <2>4, <3>3 DEF IsEntry
      <4>2. StatOf(Dir).mtime = 0
        BY DEF StatOf, Dir
      <4> QED  BY <1>1, <4>1, <4>2
    <3> QED  BY <3>2, <3>3
  <2>8. ASSUME IsMatch(row), NEW e \in SourceFiles(p), NEW f \in DestFiles(p),
               StatOf(e) = row.statA, StatOf(f) = row.statB
        PROVE  row.verdict = Truth(e, f, mode)
    <3>1. e \in FilesAt(p) /\ f \in FilesAt(p) /\ e.type = "file" /\ f.type = "file"
      BY <2>8 DEF SourceFiles, DestFiles, FilesAt
    <3>2. a = e /\ b = f
      BY <1>1, <1>3, <2>2, <2>3, <2>6, <2>8, <3>1, FileIsKnown
    <3>3. Truth(e, f, mode) = OfFiles(a, b, mode, OfContents(a, b))
      BY <2>4, <3>1, <3>2, MatchedIs DEF Truth
    <3>4. row.verdict = OfFiles(a, b, mode, ContentVerdict(p))
      BY <2>6, <3>1, <3>2
    <3>5. CASE row.verdict = ContentVerdict(p)
      <4>1. ContentVerdict(p) = OfContents(a, b)
        BY <1>6, <2>8, <3>2, <3>5, ContentTells DEF a, b, IsMatch
      <4> QED  BY <3>3, <3>4, <4>1
    <3>6. CASE row.verdict # ContentVerdict(p)
      BY <3>3, <3>4, <3>6 DEF OfFiles
    <3> QED  BY <3>5, <3>6
  <2>9. row.verdict \in MatchVerdicts \cup ErrorVerdicts
    BY <2>5, <2>6
  <2> QED  BY <1>4, <2>1, <2>6, <2>7, <2>8, <2>9 DEF Tells
<1> QED  BY <1>5, <1>6

\* The rows that are saved, new and reused, tell the truth under the mode of the
\* run, unless the reused ones are of another.
LEMMA SessionSaved ==
  ASSUME BInv, SessionTells, ModeKept, [Next]_vars, Compare \/ Interrupt
  PROVE  SessionTells'
<1>1. Control /\ pc = "compare" /\ pc' # "compare"
  BY DEF BInv, Compare, Interrupt, Over
<1>2. UNCHANGED <<tree, changes>> /\ ~TreeChange
  <2>1. ~TreeChange
    BY <1>1, ChangeLeaves
  <2> QED  BY <2>1, OtherStep
<1>3. \A p : SourceFiles(p)' \subseteq SourceFiles(p) /\ DestFiles(p)' \subseteq DestFiles(p)
  BY <1>2, OtherFiles
<1>4. /\ journal'.mode = mode
      /\ \A p \in DOMAIN journal'.rows :
           \/ p \in DOMAIN NewRows /\ journal'.rows[p] = NewRows[p]
           \/ p \in DOMAIN plan.reused /\ journal'.rows[p] = plan.reused[p]
  <2> DEFINE new == NewRows
  <2> HIDE DEF new
  <2>1. \A some \in SUBSET DOMAIN new : \A p \in DOMAIN Restrict(new, some) :
          p \in DOMAIN new /\ Restrict(new, some)[p] = new[p]
    BY DEF Restrict
  <2>2. \A f, g : \A p \in DOMAIN Merge(f, g) :
          \/ p \in DOMAIN g /\ Merge(f, g)[p] = g[p]
          \/ p \in DOMAIN f /\ Merge(f, g)[p] = f[p]
    BY DEF Merge
  <2>3. \/ journal' = [mode |-> mode, rows |-> Merge(plan.reused, new)]
        \/ \E some \in SUBSET DOMAIN new :
             journal' = [mode |-> mode, rows |-> Merge(plan.reused, Restrict(new, some))]
    BY DEF Compare, Interrupt, new
  <2>4. CASE journal' = [mode |-> mode, rows |-> Merge(plan.reused, new)]
    BY <2>2, <2>4 DEF new
  <2>5. ASSUME NEW some \in SUBSET DOMAIN new,
               journal' = [mode |-> mode, rows |-> Merge(plan.reused, Restrict(new, some))]
        PROVE  /\ journal'.mode = mode
               /\ \A p \in DOMAIN journal'.rows :
                    \/ p \in DOMAIN new /\ journal'.rows[p] = new[p]
                    \/ p \in DOMAIN plan.reused /\ journal'.rows[p] = plan.reused[p]
    <3> DEFINE rows == Merge(plan.reused, Restrict(new, some))
    <3>1. \A p \in DOMAIN rows :
            \/ p \in DOMAIN Restrict(new, some) /\ rows[p] = Restrict(new, some)[p]
            \/ p \in DOMAIN plan.reused /\ rows[p] = plan.reused[p]
      BY <2>2
    <3>2. journal'.mode = mode /\ journal'.rows = rows
      BY <2>5
    <3> HIDE DEF rows
    <3> QED  BY <2>1, <2>5, <3>1, <3>2
  <2> QED  BY <2>3, <2>4, <2>5 DEF new
<1>5. ASSUME NEW p \in DOMAIN plan.reused
      PROVE  /\ opts.resume /\ journal # None /\ journal.mode = opts.mode /\ opts.mode \in Modes
             /\ p \in DOMAIN journal.rows /\ plan.reused[p] = journal.rows[p]
  <2>1. opts.resume
    BY <1>1, <1>5, EmptyIs DEF Control, NoPlan
  <2> QED  BY <1>1, <1>5, <2>1, PlanIs DEF Control
<1>6. RowsTyped'
  BY <1>1, <1>2, <1>4, <1>5, NewRowTells DEF SessionTells, RowsTyped
<1>7. RowsTell'
  <2> SUFFICES ASSUME mode \in Modes, NEW p \in DOMAIN journal'.rows,
                      IsMatch(journal'.rows[p]), ~journal'.rows[p].isDirectory,
                      NEW e \in SourceFiles(p), NEW f \in DestFiles(p)
               PROVE  Tells(journal'.rows[p], e, f, mode)
    BY <1>3, <1>4 DEF RowsTell, Tells
  <2>1. CASE p \in DOMAIN NewRows /\ journal'.rows[p] = NewRows[p]
    BY <1>1, <2>1, NewRowTells
  <2>2. CASE p \in DOMAIN plan.reused /\ journal'.rows[p] = plan.reused[p]
    <3>1. journal.mode = mode
      BY <1>5, <2>2 DEF ModeKept
    <3> QED  BY <1>5, <2>2, <3>1 DEF SessionTells, RowsTell
  <2> QED  BY <1>4, <2>1, <2>2
<1> QED  BY <1>6, <1>7 DEF SessionTells

\* Every step keeps what the session says, if its mode is kept.
LEMMA NextSessionTells == BInv /\ SessionTells /\ ModeKept /\ [Next]_vars => SessionTells'
<1> SUFFICES ASSUME BInv, SessionTells, ModeKept, [Next]_vars PROVE SessionTells'
  OBVIOUS
<1>1. Compare \/ Interrupt \/ UNCHANGED journal
  BY DEF Next, vars, PutEntry, Remove, SetRights, Changed, StartRun, ListSource, HashSourceIndex,
     BeginSnapshot, EndSnapshot, ReadSnapshot, ListDest, MakePlan, Fail, Stop
<1> QED  BY <1>1, SessionSaved, SessionKept

-----------------------------------------------------------------------------
(* Results                                                                 *)

\* The verdicts of a comparison that nothing disturbs: on two entries,
LEMMA FullIs ==
  ASSUME NEW la, NEW lb, NEW p \in DOMAIN la, p \in DOMAIN lb
  PROVE  FullVerdicts(la, lb)[p] = Matched(la[p], lb[p], mode, OfContents(la[p], lb[p])).verdict
<1> DEFINE same == SameContent(la, lb)
           rows == Compared(la, lb, mode, same)
<1>1. same[p] = OfContents(la[p], lb[p])
  BY DEF SameContent, OfContents
<1> HIDE DEF same
<1>2. p \in DOMAIN rows /\ rows[p] = Matched(la[p], lb[p], mode, same[p])
  BY DEF Compared
<1> HIDE DEF rows
<1>3. FullVerdicts(la, lb)[p] = rows[p].verdict
  BY <1>2 DEF FullVerdicts, VerdictsOf, rows, same
<1> QED  BY <1>1, <1>2, <1>3

\* on one of the source alone,
LEMMA FullIsMissing ==
  ASSUME NEW la, NEW lb, NEW p \in DOMAIN la, p \notin DOMAIN lb
  PROVE  FullVerdicts(la, lb)[p] = "Missing"
<1> DEFINE rows == Compared(la, lb, mode, SameContent(la, lb))
<1>1. p \in DOMAIN rows /\ rows[p] = Row("Missing", IsDirectory(la[p]), StatOf(la[p]), None)
  BY DEF Compared
<1> HIDE DEF rows
<1>2. FullVerdicts(la, lb)[p] = rows[p].verdict
  BY <1>1 DEF FullVerdicts, VerdictsOf, rows
<1> QED  BY <1>1, <1>2 DEF Row

\* and on one of the destination alone.
LEMMA FullIsExtra ==
  ASSUME NEW la, NEW lb, NEW p \in DOMAIN lb, p \notin DOMAIN la
  PROVE  FullVerdicts(la, lb)[p] = "Extra"
<1> DEFINE rows == Compared(la, lb, mode, SameContent(la, lb))
<1>1. p \in DOMAIN rows /\ rows[p] = Row("Extra", IsDirectory(lb[p]), None, StatOf(lb[p]))
  BY DEF Compared
<1> HIDE DEF rows
<1>2. FullVerdicts(la, lb)[p] = rows[p].verdict
  BY <1>1 DEF FullVerdicts, VerdictsOf, rows
<1> QED  BY <1>1, <1>2 DEF Row

\* None of them is an error.
LEMMA FullIsNoError ==
  ASSUME NEW la, NEW lb, NEW p \in DOMAIN la \cup DOMAIN lb,
         p \in DOMAIN la => IsEntry(la[p]), p \in DOMAIN lb => IsEntry(lb[p])
  PROVE  FullVerdicts(la, lb)[p] \notin ErrorVerdicts
<1> DEFINE same == OfContents(la[p], lb[p])
<1>1. same \in MatchVerdicts
  BY DEF MatchVerdicts, OfContents
<1>2. CASE p \in DOMAIN la /\ p \in DOMAIN lb
  <2>1. FullVerdicts(la, lb)[p] = Matched(la[p], lb[p], mode, same).verdict
    BY <1>2, FullIs
  <2>2. Matched(la[p], lb[p], mode, same).verdict \in MatchVerdicts
    BY <1>1, <1>2, MatchedIs
  <2> QED  BY <2>1, <2>2 DEF MatchVerdicts, ErrorVerdicts
<1>3. CASE p \notin DOMAIN la \/ p \notin DOMAIN lb
  BY <1>3, FullIsMissing, FullIsExtra DEF ErrorVerdicts
<1> QED  BY <1>2, <1>3

\* A new row has the verdict of such a comparison, but for what is said of the
\* contents of two files.
LEMMA NewIsFresh ==
  ASSUME BInv, pc = "compare", NEW p \in DOMAIN NewRows, NEW la, NEW lb, lb = Visible("B"),
         p \in DOMAIN la <=> p \in DOMAIN SourceEntries,
         p \in DOMAIN la => la[p] = SourceEntries[p],
         p \in DOMAIN lb <=> p \in DOMAIN DestEntries
  PROVE  \/ NewRows[p].verdict = FullVerdicts(la, lb)[p]
         \/ /\ mode \notin {"Presence", "Size"}
            /\ p \in DOMAIN la /\ p \in DOMAIN lb /\ la[p].type = "file" /\ lb[p].type = "file"
            /\ NewRows[p].verdict = ContentVerdict(p)
            /\ FullVerdicts(la, lb)[p] = OfContents(la[p], lb[p])
<1> DEFINE same == OfContents(la[p], lb[p])
<1>1. /\ p \in DOMAIN la \/ p \in DOMAIN lb
      /\ p \in DOMAIN lb => lb[p] = DestEntries[p]
      /\ p \in DOMAIN la => \E l \in Listings : p \in DOMAIN l /\ la[p] = l[p]
      /\ p \in DOMAIN lb => p \in DOMAIN tree["B"] /\ lb[p] = tree["B"][p]
  BY RowsAre, ComparedEntries, VisibleIs DEF Sides
<1>2. (p \in DOMAIN la => IsEntry(la[p])) /\ (p \in DOMAIN lb => IsEntry(lb[p]))
  BY <1>1 DEF BInv, ListingsStand, Listings
<1>3. CASE p \notin DOMAIN la \/ p \notin DOMAIN lb
  <2>1. NewRows[p].verdict = IF p \notin DOMAIN lb THEN "Missing" ELSE "Extra"
    BY <1>1, <1>3 DEF NewRows, Compared, Row
  <2>2. FullVerdicts(la, lb)[p] = IF p \notin DOMAIN lb THEN "Missing" ELSE "Extra"
    <3>1. CASE p \in DOMAIN la /\ p \notin DOMAIN lb
      BY <3>1, FullIsMissing
    <3>2. CASE p \in DOMAIN lb /\ p \notin DOMAIN la
      BY <3>2, FullIsExtra
    <3> QED  BY <1>1, <1>3, <3>1, <3>2
  <2> QED  BY <2>1, <2>2
<1>4. CASE p \in DOMAIN la /\ p \in DOMAIN lb
  <2>1. NewRows[p] = Matched(la[p], lb[p], mode, ContentVerdict(p))
    BY <1>1, <1>4 DEF NewRows, Compared
  <2>2. FullVerdicts(la, lb)[p] = Matched(la[p], lb[p], mode, same).verdict
    BY <1>4, FullIs
  <2>3. CASE la[p].type = "file" /\ lb[p].type = "file"
    <3>1. /\ NewRows[p].verdict = OfFiles(la[p], lb[p], mode, ContentVerdict(p))
          /\ FullVerdicts(la, lb)[p] = OfFiles(la[p], lb[p], mode, same)
      BY <1>2, <1>4, <2>1, <2>2, <2>3, MatchedIs
    <3> QED  BY <1>4, <2>3, <3>1 DEF OfFiles
  <2>4. CASE ~(la[p].type = "file" /\ lb[p].type = "file")
    <3>1. Matched(la[p], lb[p], mode, same) = Matched(la[p], lb[p], mode, ContentVerdict(p))
      BY <1>2, <1>4, <2>4, MatchedIs
    <3> QED  BY <2>1, <2>2, <3>1
  <2> QED  BY <2>3, <2>4
<1> QED  BY <1>3, <1>4

\* And so has a reused one, where there is no link.
LEMMA ReusedIsFresh ==
  ASSUME BInv, SessionTells, pc = "compare", opts.resume, mode = opts.mode,
         NEW p \in DOMAIN plan.reused, list["B"] = Visible("B"),
         p \in DOMAIN list["A"] /\ list["A"][p].type = "file" => list["A"][p] \in SourceFiles(p),
         ~IsLink(p, list["A"]), ~IsLink(p, list["B"])
  PROVE  plan.reused[p].verdict = FullVerdicts(list["A"], list["B"])[p]
<1> DEFINE row == journal.rows[p]
           a == list["A"][p]
           b == list["B"][p]
           same == OfContents(a, b)
<1>1. /\ Control /\ ListingsStand
      /\ journal # None /\ journal.mode = mode /\ journal.mode \in Modes
      /\ p \in DOMAIN journal.rows /\ plan.reused[p] = row
      /\ Reusable(p, row, list, errs)
  BY PlanIs DEF BInv, Control
<1>2. row.verdict \in MatchVerdicts \cup {"Missing", "Extra"}
  BY <1>1 DEF SessionTells, RowsTyped, Reusable
<1>3. Listed(p, list) = Expected(row.verdict)
  BY <1>1 DEF Reusable
<1>4. CASE row.verdict = "Missing"
  <2>1. p \in DOMAIN list["A"] /\ p \notin DOMAIN list["B"]
    BY <1>3, <1>4 DEF Listed, Expected, Sides
  <2> QED  BY <1>1, <1>4, <2>1, FullIsMissing
<1>5. CASE row.verdict = "Extra"
  <2>1. p \in DOMAIN list["B"] /\ p \notin DOMAIN list["A"]
    BY <1>3, <1>5 DEF Listed, Expected, Sides
  <2> QED  BY <1>1, <1>5, <2>1, FullIsExtra
<1>6. CASE row.verdict \in MatchVerdicts
  <2>1. Expected(row.verdict) = Sides
    BY <1>6 DEF Expected, MatchVerdicts
  <2>2. p \in DOMAIN list["A"] /\ p \in DOMAIN list["B"]
    BY <1>3, <2>1 DEF Listed, Sides
  <2>3. FullVerdicts(list["A"], list["B"])[p] = Matched(a, b, mode, same).verdict
    BY <2>2, FullIs
  <2>4. IsEntry(a) /\ IsEntry(b)
    BY <1>1, <2>2 DEF ListingsStand, Listings
  <2>5. /\ IsDirectory(a) = row.isDirectory /\ IsDirectory(b) = row.isDirectory
        /\ ~row.isDirectory => StatOf(a) = row.statA /\ StatOf(b) = row.statB
    BY <1>1, <2>1 DEF Reusable, Unchanged, Sides
  <2>6. CASE row.isDirectory
    <3>1. a.type = "dir" /\ b.type = "dir"
      BY <2>2, <2>4, <2>5, <2>6 DEF IsDirectory, IsEntry, IsLink
    <3>2. row.verdict = "Identical"
      BY <1>1, <1>6, <2>6 DEF SessionTells, RowsTyped, IsMatch
    <3>3. Matched(a, b, mode, same).verdict = "Identical"
      BY <3>1 DEF Matched, Row
    <3> QED  BY <1>1, <2>3, <3>2, <3>3
  <2>7. CASE ~row.isDirectory
    <3>1. a.type = "file" /\ b.type = "file"
      BY <2>5, <2>7 DEF IsDirectory
    <3>2. a \in SourceFiles(p)
      BY <2>2, <3>1
    <3>3. p \in DOMAIN tree["B"] /\ b = tree["B"][p]
      BY <2>2, VisibleIs DEF Sides
    <3>4. b \in DestFiles(p)
      BY <3>1, <3>3 DEF DestFiles, FilesAt, Listings, Sides
    <3>5. Tells(row, a, b, mode)
      BY <1>1, <1>6, <2>7, <3>2, <3>4 DEF SessionTells, RowsTell, IsMatch
    <3> QED  BY <1>1, <2>3, <2>5, <2>7, <3>5 DEF Tells, Truth
  <2> QED  BY <2>6, <2>7
<1> QED  BY <1>2, <1>4, <1>5, <1>6

\* A resumed run over trees that stand still says what a fresh one would.
LEMMA ResumedIsFresh ==
  ASSUME BInv, SessionTells, pc = "compare", quiet, opts.resume, opts.kind = "live"
  PROVE  LET rows  == Merge(plan.reused, NewRows)
             fresh == FullVerdicts(Visible("A"), Visible("B"))
         IN /\ DOMAIN rows = DOMAIN fresh
            /\ \A p \in DOMAIN rows :
                 (\A s \in Sides : ~IsLink(p, tree[s])) => rows[p].verdict = fresh[p]
<1> DEFINE la == list["A"]
           lb == list["B"]
           rows == Merge(plan.reused, NewRows)
<1>1. /\ Control /\ mode = opts.mode
      /\ la = Visible("A") /\ lb = Visible("B")
  BY DEF BInv, Control, QuietLists, ListedAsIs
<1>2. DOMAIN rows = DOMAIN la \cup DOMAIN lb
  BY <1>1, ResumedRows
<1>3. DOMAIN FullVerdicts(la, lb) = DOMAIN la \cup DOMAIN lb
  BY DEF FullVerdicts, VerdictsOf, Compared
<1>4. /\ \A p \in DOMAIN la : p \in DOMAIN tree["A"] /\ la[p] = tree["A"][p] /\ ~Hidden("A", p)
      /\ \A p \in DOMAIN lb : p \in DOMAIN tree["B"] /\ lb[p] = tree["B"][p]
  BY <1>1, VisibleIs DEF Sides
<1>5. /\ DOMAIN SourceEntries = plan.remainder["A"]
      /\ \A p \in DOMAIN SourceEntries : SourceEntries[p] = la[p]
      /\ DOMAIN DestEntries = plan.remainder["B"] \cap DOMAIN Visible("B")
  BY ResumedEntries
<1>6. ASSUME NEW p \in DOMAIN rows, \A s \in Sides : ~IsLink(p, tree[s])
      PROVE  rows[p].verdict = FullVerdicts(la, lb)[p]
  <2>1. CASE p \in DOMAIN SourceEntries \cup DOMAIN DestEntries
    <3>1. rows[p] = NewRows[p] /\ p \in DOMAIN NewRows
      BY <2>1, RowsAre
    <3>2. /\ p \in DOMAIN la <=> p \in DOMAIN SourceEntries
          /\ p \in DOMAIN lb <=> p \in DOMAIN DestEntries
      BY <1>1, <1>5, <2>1, PlanIs DEF Sides
    <3>3. CASE rows[p].verdict # FullVerdicts(la, lb)[p]
      <4>1. /\ p \in DOMAIN la /\ p \in DOMAIN lb /\ la[p].type = "file"
            /\ NewRows[p].verdict = ContentVerdict(p)
            /\ FullVerdicts(la, lb)[p] = OfContents(la[p], lb[p])
        BY <1>1, <1>5, <3>1, <3>2, <3>3, NewIsFresh
      <4>2. /\ SourceEntries[p] = tree["A"][p] /\ p \in DOMAIN tree["A"]
            /\ ~Hidden("A", p) /\ tree["A"][p].type = "file" /\ ~FromIndex
        BY <1>4, <1>5, <3>2, <4>1 DEF FromIndex
      <4>3. ContentVerdict(p) = OfContents(la[p], lb[p])
        BY <1>4, <4>1, <4>2 DEF ContentVerdict, OfContents
      <4> QED  BY <3>1, <4>1, <4>3
    <3> QED  BY <3>3
  <2>2. CASE p \notin DOMAIN SourceEntries \cup DOMAIN DestEntries
    <3>1. rows[p] = plan.reused[p] /\ p \in DOMAIN plan.reused
      BY <2>2, RowsAre
    <3>2. ~IsLink(p, la) /\ ~IsLink(p, lb)
      BY <1>4, <1>6 DEF IsLink, Sides
    <3>3. p \in DOMAIN la /\ la[p].type = "file" => la[p] \in SourceFiles(p)
      BY <1>4 DEF SourceFiles, FilesAt, Listings
    <3> QED  BY <1>1, <3>1, <3>2, <3>3, ReusedIsFresh
  <2> QED  BY <2>1, <2>2
<1> QED  BY <1>1, <1>2, <1>3, <1>6

\* The result of a comparison is that one, and stands until a tree changes.
LEMMA NextResumeEqualsFresh ==
  BInv /\ SessionTells /\ ResumeEqualsFresh /\ [Next]_vars => ResumeEqualsFresh'
<1> SUFFICES ASSUME BInv, SessionTells, ResumeEqualsFresh, [Next]_vars,
                    pc' = "done", quiet', opts'.resume, opts'.kind = "live"
             PROVE  LET fresh == FullVerdicts(Visible("A"), Visible("B"))' IN
                    /\ DOMAIN report'.rows = DOMAIN fresh
                    /\ \A p \in DOMAIN report'.rows :
                         (\A s \in Sides : ~IsLink(p, tree'[s])) =>
                           report'.rows[p].verdict = fresh[p]
  BY DEF ResumeEqualsFresh, Settled
<1>1. ASSUME UNCHANGED <<tree, locked, mode>>
      PROVE  FullVerdicts(Visible("A"), Visible("B"))' = FullVerdicts(Visible("A"), Visible("B"))
  BY <1>1 DEF FullVerdicts, Visible, Hidden
<1>2. CASE pc # "done"
  <2>1. Compare
    BY <1>2, DoneByCompare
  <2>2. /\ pc = "compare" /\ UNCHANGED <<tree, locked, mode, opts, quiet>>
        /\ report'.rows = Merge(plan.reused, NewRows)
    BY <2>1 DEF Compare, treeVars
  <2> QED  BY <1>1, <2>2, ResumedIsFresh
<1>3. CASE pc = "done"
  <2>1. UNCHANGED vars
    <3>1. ~TreeChange
      BY <1>3, ChangeLeaves
    <3> QED
      BY <1>3, <3>1 DEF Next, TreeChange, StartRun, ListSource, HashSourceIndex, BeginSnapshot,
         EndSnapshot, ReadSnapshot, ListDest, MakePlan, Fail, Compare, Interrupt, Stop
  <2>2. UNCHANGED <<tree, locked, mode, opts, quiet, report>>
    BY <2>1 DEF vars
  <2> QED  BY <1>1, <1>3, <2>2 DEF ResumeEqualsFresh, Settled
<1> QED  BY <1>2, <1>3

\* An offline run whose snapshot holds what was captured, and whose mode is the
\* one asked for if it resumes, says of the destination what a comparison with
\* that capture would say.
Undisturbed == \A p \in DOMAIN snap.digests : snap.digests[p] = snap.list[p].data

Faithful(rows) ==
  LET expected == FullVerdicts(snap.list, Visible("B")) IN
  /\ DOMAIN rows = DOMAIN expected
  /\ \A p \in DOMAIN rows :
       IF rows[p].verdict = "ReadError"
       THEN snap.digests # <<>> /\ p \notin DOMAIN snap.digests
       ELSE \/ rows[p].verdict = expected[p]
            \/ opts.resume /\ (IsLink(p, snap.list) \/ IsLink(p, tree["B"]))

LEMMA OfflineFaithful ==
  ASSUME BInv, SessionTells, pc = "compare", quiet, opts.kind = "offline", Undisturbed,
         opts.resume => mode = opts.mode
  PROVE  Faithful(Merge(plan.reused, NewRows))
<1> DEFINE la == snap.list
           lb == Visible("B")
           rows == Merge(plan.reused, NewRows)
<1>1. /\ Control /\ list["A"] = la /\ digests = snap.digests /\ snap # None /\ snap.whole
      /\ mode = IF opts.mode = "Content" /\ digests = <<>> /\ la # <<>> THEN "Size" ELSE opts.mode
      /\ opts.resume => list["B"] = lb
      /\ ~opts.resume => plan.reused = <<>>
  BY DEF BInv, Control, QuietLists, ListedAsIs, NoPlan
<1>2. /\ DOMAIN SourceEntries \subseteq DOMAIN la
      /\ \A p \in DOMAIN SourceEntries : SourceEntries[p] = la[p]
      /\ DOMAIN DestEntries \subseteq DOMAIN lb
      /\ ~opts.resume => DOMAIN SourceEntries = DOMAIN la /\ DOMAIN DestEntries = DOMAIN lb
  <2>1. CASE opts.resume
    BY <1>1, <2>1, ResumedEntries, PlanIs DEF Sides
  <2>2. CASE ~opts.resume
    BY <1>1, <2>2 DEF SourceEntries, DestEntries, FreshLive
  <2> QED  BY <2>1, <2>2
<1>3. DOMAIN rows = DOMAIN la \cup DOMAIN lb
  <2>1. CASE opts.resume
    BY <1>1, <2>1, ResumedRows
  <2>2. CASE ~opts.resume
    BY <1>1, <1>2, <2>2, RowsAre, EmptyIs
  <2> QED  BY <2>1, <2>2
<1>4. DOMAIN FullVerdicts(la, lb) = DOMAIN la \cup DOMAIN lb
  BY DEF FullVerdicts, VerdictsOf, Compared
<1>5. \A p \in DOMAIN lb : p \in DOMAIN tree["B"] /\ lb[p] = tree["B"][p]
  BY VisibleIs DEF Sides
<1>6. ASSUME NEW p \in DOMAIN rows
      PROVE  FullVerdicts(la, lb)[p] # "ReadError"
  <2>1. (p \in DOMAIN la => IsEntry(la[p])) /\ (p \in DOMAIN lb => IsEntry(lb[p]))
    BY <1>1, <1>5 DEF BInv, ListingsStand, Listings
  <2> QED  BY <1>3, <2>1, FullIsNoError DEF ErrorVerdicts
<1>7. ASSUME NEW p \in DOMAIN rows
      PROVE  IF rows[p].verdict = "ReadError"
             THEN digests # <<>> /\ p \notin DOMAIN digests
             ELSE \/ rows[p].verdict = FullVerdicts(la, lb)[p]
                  \/ opts.resume /\ (IsLink(p, la) \/ IsLink(p, tree["B"]))
  <2>1. CASE p \in DOMAIN SourceEntries \cup DOMAIN DestEntries
    <3>1. rows[p] = NewRows[p] /\ p \in DOMAIN NewRows
      BY <2>1, RowsAre
    <3>2. /\ p \in DOMAIN la <=> p \in DOMAIN SourceEntries
          /\ p \in DOMAIN lb <=> p \in DOMAIN DestEntries
      <4>1. CASE opts.resume
        BY <1>1, <2>1, <4>1, ResumedEntries, PlanIs DEF Sides
      <4>2. CASE ~opts.resume
        BY <1>2, <4>2
      <4> QED  BY <4>1, <4>2
    <3>3. CASE rows[p].verdict # FullVerdicts(la, lb)[p]
      <4>1. /\ mode \notin {"Presence", "Size"} /\ p \in DOMAIN la /\ p \in DOMAIN lb
            /\ NewRows[p].verdict = ContentVerdict(p)
            /\ FullVerdicts(la, lb)[p] = OfContents(la[p], lb[p])
        BY <1>2, <3>1, <3>2, <3>3, NewIsFresh
      <4>2. ContentVerdict(p) = IF p \notin DOMAIN digests THEN "ReadError"
                                ELSE IF digests[p] = lb[p].data THEN "Identical" ELSE "ContentMismatch"
        BY <1>5, <4>1 DEF ContentVerdict, FromIndex
      <4>3. p \notin DOMAIN digests
        BY <1>1, <3>1, <3>3, <4>1, <4>2 DEF OfContents, Undisturbed
      <4>4. digests # <<>>
        <5>1. la # <<>> /\ opts.mode = "Content"
          BY <1>1, <4>1, EmptyIs DEF Control
        <5> QED  BY <1>1, <4>1, <5>1
      <4> QED  BY <3>1, <4>1, <4>2, <4>3, <4>4
    <3> QED  BY <1>6, <3>3
  <2>2. CASE p \notin DOMAIN SourceEntries \cup DOMAIN DestEntries
    <3>1. rows[p] = plan.reused[p] /\ p \in DOMAIN plan.reused /\ opts.resume
      BY <1>1, <2>2, RowsAre, EmptyIs
    <3>2. rows[p].verdict # "ReadError"
      BY <3>1, PlanIs DEF Reusable, ErrorVerdicts
    <3>3. CASE ~IsLink(p, la) /\ ~IsLink(p, lb)
      <4>1. p \in DOMAIN la /\ la[p].type = "file" => la[p] \in SourceFiles(p)
        BY <1>1 DEF SourceFiles, FilesAt, Listings, Snapshotted, Undisturbed
      <4>2. rows[p].verdict = FullVerdicts(la, lb)[p]
        BY <1>1, <3>1, <3>3, <4>1, ReusedIsFresh
      <4> QED  BY <3>2, <4>2
    <3>4. CASE IsLink(p, la) \/ IsLink(p, lb)
      BY <1>5, <3>1, <3>2, <3>4 DEF IsLink
    <3> QED  BY <3>3, <3>4
  <2> QED  BY <2>1, <2>2
<1> QED  BY <1>1, <1>3, <1>4, <1>7 DEF Faithful

\* Such a result stands until a tree changes or the next run starts.
LEMMA NextOfflineIsFaithful ==
  BInv /\ SessionTells /\ OfflineIsFaithful /\ [Next]_vars => OfflineIsFaithful'
<1>1. OfflineIsFaithful <=>
        (Settled /\ opts.kind = "offline" /\ Undisturbed /\ (opts.resume => mode = opts.mode) =>
           Faithful(report.rows))
  BY DEF OfflineIsFaithful, Undisturbed, Faithful
<1>2. OfflineIsFaithful' <=>
        (Settled' /\ opts'.kind = "offline" /\ Undisturbed' /\ (opts'.resume => mode' = opts'.mode) =>
           Faithful(report.rows)')
  BY DEF OfflineIsFaithful, Undisturbed, Faithful
<1> SUFFICES ASSUME BInv, SessionTells, OfflineIsFaithful, [Next]_vars,
                    pc' = "done", quiet', opts'.kind = "offline", Undisturbed',
                    opts'.resume => mode' = opts'.mode
             PROVE  Faithful(report.rows)'
  BY <1>2 DEF Settled
<1>3. ASSUME UNCHANGED <<tree, locked, mode, opts, snap>>
      PROVE  /\ Undisturbed' <=> Undisturbed
             /\ \A rows : rows = report'.rows => (Faithful(report.rows)' <=> Faithful(rows))
  <2>1. FullVerdicts(snap.list, Visible("B"))' = FullVerdicts(snap.list, Visible("B"))
    BY <1>3 DEF FullVerdicts, Visible, Hidden
  <2> QED  BY <1>3, <2>1 DEF Undisturbed, Faithful
<1>4. CASE pc # "done"
  <2>1. Compare
    BY <1>4, DoneByCompare
  <2>2. /\ pc = "compare" /\ UNCHANGED <<tree, locked, mode, opts, quiet, snap>>
        /\ report'.rows = Merge(plan.reused, NewRows)
    BY <2>1 DEF Compare, treeVars
  <2> QED  BY <1>3, <2>2, OfflineFaithful
<1>5. CASE pc = "done"
  <2>1. UNCHANGED vars
    <3>1. ~TreeChange
      BY <1>5, ChangeLeaves
    <3> QED
      BY <1>5, <3>1 DEF Next, TreeChange, StartRun, ListSource, HashSourceIndex, BeginSnapshot,
         EndSnapshot, ReadSnapshot, ListDest, MakePlan, Fail, Compare, Interrupt, Stop
  <2>2. UNCHANGED <<tree, locked, mode, opts, quiet, report, snap, pc>>
    BY <2>1 DEF vars
  <2> QED  BY <1>1, <1>3, <1>5, <2>2 DEF Settled
<1> QED  BY <1>4, <1>5

-----------------------------------------------------------------------------
(* Theorems                                                                *)

\* A session is empty, and a result there is none, at first.
LEMMA InitSession == Init => SessionTells /\ ResumeEqualsFresh /\ OfflineIsFaithful
BY DEF Init, SessionTells, RowsTyped, RowsTell, ResumeEqualsFresh, OfflineIsFaithful, Settled

\* The rows of the session tell the truth of every file they fit, whatever runs
\* they come from, if no run has its mode changed under it while it resumes.
THEOREM SessionTellsThm == Spec /\ []ModeKept => []SessionTells
<1>1. Init => SessionTells
  BY InitSession
<1>2. BInv /\ SessionTells /\ ModeKept /\ [Next]_vars => SessionTells'
  BY NextSessionTells
<1> QED  BY <1>1, <1>2, InvariantBInv, PTL DEF Spec

\* A resumed run over trees that do not change under it reports what a fresh run
\* would (ScanController::run with PlanResume), on the same condition.
THEOREM ResumeEqualsFreshThm == Spec /\ []ModeKept => []ResumeEqualsFresh
<1>1. Init => ResumeEqualsFresh
  BY InitSession
<1>2. BInv /\ SessionTells /\ ResumeEqualsFresh /\ [Next]_vars => ResumeEqualsFresh'
  BY NextResumeEqualsFresh
<1> QED  BY <1>1, <1>2, InvariantBInv, SessionTellsThm, PTL DEF Spec

\* An offline run says of the destination what a comparison with the source as
\* it was captured would say, on the same condition.
THEOREM OfflineIsFaithfulThm == Spec /\ []ModeKept => []OfflineIsFaithful
<1>1. Init => OfflineIsFaithful
  BY InitSession
<1>2. BInv /\ SessionTells /\ OfflineIsFaithful /\ [Next]_vars => OfflineIsFaithful'
  BY NextOfflineIsFaithful
<1> QED  BY <1>1, <1>2, InvariantBInv, SessionTellsThm, PTL DEF Spec

\* The condition is met where runs in Content and in Size mode do not share a
\* session: a mode is changed from the one to the other, and by nothing else.
THEOREM ModeKeptThm ==
  ASSUME ~({"Content", "Size"} \subseteq Modes)
  PROVE  Spec => []ModeKept
<1>1. ASSUME BInv, opts.resume, mode # opts.mode
      PROVE  mode \notin Modes
  <2>1. Control
    BY <1>1 DEF BInv
  <2>2. opts.kind = "offline" /\ pc \in {"dest", "plan", "compare", "done"} /\ opts.mode \in Modes
    BY <1>1, <2>1 DEF Control, Capturing
  <2>3. opts.mode = "Content" /\ mode = "Size"
    BY <1>1, <2>1, <2>2 DEF Control
  <2> QED  BY <2>2, <2>3
<1>2. BInv => ModeKept
  BY <1>1 DEF ModeKept
<1> QED  BY <1>2, InvariantBInv, PTL

\* So then both hold of every behaviour.
COROLLARY OneModeResumes ==
  ASSUME ~({"Content", "Size"} \subseteq Modes)
  PROVE  Spec => []ResumeEqualsFresh /\ []OfflineIsFaithful
<1>1. Spec => []ModeKept
  BY ModeKeptThm
<1> QED  BY <1>1, ResumeEqualsFreshThm, OfflineIsFaithfulThm, PTL
=============================================================================
