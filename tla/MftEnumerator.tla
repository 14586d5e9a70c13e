--------------------------- MODULE MftEnumerator ----------------------------
(***************************************************************************)
(* A side index built from the raw MFT: MftEnumerator::enumerate           *)
(* (src/Filesystem/MftEnumerator.cpp) and BuildSideIndex, which rebuilds   *)
(* the index with Win32 if it fails (src/ScanController.cpp).              *)
(*                                                                         *)
(* Every record is parsed in a sweep, an extension record being merged     *)
(* into its base record if that was parsed before it; attribute lists are  *)
(* followed when all are parsed; then the tree is walked from the root by  *)
(* the index of each directory, and by the names of the records. A         *)
(* directory that does not resolve is walked with Win32. The volume may be *)
(* damaged, and may change under the reader. Fixups, run lists and         *)
(* attribute headers are abstracted to whether a record or a block can be  *)
(* read; timing and diagnostics are left out.                              *)
(*                                                                         *)
(* Definitions marked "Wrong" are no part of the model: each is a plausible *)
(* mistake in the definition that follows it, which a property must catch. *)
(***************************************************************************)
EXTENDS NtfsVolume

CONSTANT VolumeRootRec  \* the record of the root of the volume: 5 in NTFS

VARIABLES
  pc,          \* where the build is
  backend,     \* the enumerator that runs
  rootRef,     \* the reference of the root that Win32 gives
  next,        \* the next record to parse
  recs,        \* recs[n]: what is known of record n
  work,        \* directories to walk
  incomplete,  \* a directory was unreadable both ways
  out,         \* entries reported
  errors,      \* directories reported as unreadable
  ok,          \* what the build returns
  stopped      \* it was cancelled

enumVars == <<pc, backend, rootRef, next, recs, work, incomplete, out, errors, ok, stopped>>
vars == <<tree, layout, touched, changes, seen, pc, backend, rootRef, next, recs, work,
          incomplete, out, errors, ok, stopped>>

Unparsed == FreeRecord @@ [parsed |-> FALSE, index |-> None]

Init ==
  /\ VolumeInit
  /\ pc = "open" /\ backend = "mft" /\ rootRef = Ref(Top) /\ next = 0
  /\ recs = [n \in Recs |-> Unparsed]
  /\ work = <<>> /\ incomplete = FALSE
  /\ out = <<>> /\ errors = {}
  /\ ok = FALSE /\ stopped = FALSE

-----------------------------------------------------------------------------
(* Parsing and merging *)

ParseRecord(r) == r @@ [parsed |-> TRUE, index |-> None]

\* An index piece is known if it overlaps one that is.
VcnRangeKnown(pieces, p) == \E q \in pieces : p.low <= q.high /\ p.high >= q.low

\* The parts of record x that belong to its base record b. A name brings the
\* time with it.
Merge(b, x, parts) ==
  [b EXCEPT
     !.root   = IF "root" \in parts /\ @ = None THEN x.root ELSE @,
     !.pieces = IF "tail" \in parts
                THEN @ \cup {p \in x.pieces : ~VcnRangeKnown(b.pieces, p)} ELSE @,
     !.names  = IF "names" \in parts
                THEN @ \o SelectSeq(x.names, LAMBDA n : n \notin ToSet(b.names)) ELSE @,
     !.time   = @ \/ (x.time /\ parts \cap {"names", "time"} # {})]

Valid(ref) == recs[ref.rec].parsed /\ recs[ref.rec].inUse /\ recs[ref.rec].seq = ref.seq

\* MergePassAFromRecord: into a base record parsed before.
MergePassA(n, r) ==
  IF r.base # None /\ r.base.rec # n /\ Valid(r.base)
  THEN [recs EXCEPT ![n] = r,
                    ![r.base.rec] = Merge(@, r, {"root", "tail", "names", "time"})]
  ELSE [recs EXCEPT ![n] = r]

\* Wrong: the names in the list are left to pass A.
MergePassBNoNames(n, entries) ==
  FoldSet(LAMBDA e, r : IF e.rec # n /\ Valid(e) THEN Merge(r, recs[e.rec], {e.type} \ {"names"}) ELSE r,
          recs[n], entries)

\* MergePassBFromList: what the list says is elsewhere.
MergePassB(n, entries) ==
  FoldSet(LAMBDA e, r : IF e.rec # n /\ Valid(e) THEN Merge(r, recs[e.rec], {e.type}) ELSE r,
          recs[n], entries)

-----------------------------------------------------------------------------
(* The children of a directory *)

\* ReadIndexAllocationStream: the clusters from the lowest piece on, up to the
\* size that piece tells, which is 0 unless the piece is the first.
Blocks(r) ==
  IF r.pieces = {} THEN {}
  ELSE LET first == CHOOSE p \in r.pieces : \A q \in r.pieces : p.low <= q.low IN
       {v \in 0 .. first.size - 1 : \E p \in r.pieces : v \in p.low .. p.high}

BlockOf(r, v) == ReadBlock((CHOOSE p \in r.pieces : TRUE).of, v)

TornBlocks(r) == {v \in Blocks(r) : BlockOf(r, v).used /\ BlockOf(r, v).torn}

\* Parsing ends at the first torn block; unused blocks are skipped.
ParsedIndex(r) ==
  (IF r.root = None THEN {} ELSE r.root)
  \cup UNION {BlockOf(r, v).entries :
                v \in {v \in Blocks(r) : BlockOf(r, v).used /\ \A t \in TornBlocks(r) : v < t}}

\* A directory whose index was resolved before is not resolved again.
Children(r) == IF r.index = None THEN ParsedIndex(r) ELSE r.index

NeedsFallback(r) ==
  \/ r.index = None /\ (TornBlocks(r) # {} \/ (r.root = None /\ ParsedIndex(r) = {}))
  \/ \E c \in Children(r) : ~Valid(c.ref)

\* PickWin32Name: the last WIN32 name, the first of both kinds, or the first.
PickWin32Name(names) ==
  LET with(ns) == {i \in DOMAIN names : names[i].ns = ns} IN
  IF with("win32") # {} THEN names[Max(with("win32"))].name
  ELSE IF with("both") # {} THEN names[Min(with("both"))].name
  ELSE names[1].name

\* ChildNameOf, and the key of the index for a record that has no name. The DOS
\* key of an entry sorts before the other.
ChildNameOf(n, d, keys) ==
  LET names == recs[n].names
      here  == {i \in DOMAIN names : names[i].parent = [rec |-> d, seq |-> recs[d].seq]}
      win   == {i \in here : names[i].ns = "win32"}
  IN
  IF win # {} THEN names[Min(win)].name
  ELSE IF here # {} THEN names[Max(here)].name
  ELSE IF names # <<>> THEN PickWin32Name(names)
  ELSE IF \E k \in keys : k.dos THEN CHOOSE k \in keys : k.dos
  ELSE CHOOSE k \in keys : TRUE

\* Wrong: a name that gives the directory under any sequence number will do,
\* and records that are no longer in use still count.
NamedChildrenStale(d) ==
  {n \in Recs :
     /\ recs[n].parsed /\ recs[n].base = None
     /\ \E i \in DOMAIN recs[n].names : recs[n].names[i].parent.rec = d}

\* The records whose names give the directory as their parent.
NamedChildren(d) ==
  {n \in Recs :
     /\ recs[n].parsed /\ recs[n].inUse /\ recs[n].base = None
     /\ \E i \in DOMAIN recs[n].names :
          recs[n].names[i].parent = [rec |-> d, seq |-> recs[d].seq]}

IsMetafile(n) == \E o \in Metafiles : BaseOf[o] = n

\* The children to report: one for each record, however many links it has here.
Kids(d) ==
  LET listed == Children(recs[d])
      Keys(n) == {c.name : c \in {c \in listed : c.ref.rec = n}} IN
  {[rec |-> n, name |-> ChildNameOf(n, d, Keys(n))] :
     n \in {m \in {c.ref.rec : c \in listed} \cup NamedChildren(d) : ~IsMetafile(m)}}

-----------------------------------------------------------------------------
(* The build *)

Frame(by, rec, path)    == [by |-> by, rec |-> rec, path |-> path]
Entry(path, kind, time, rec) == [path |-> path, kind |-> kind, time |-> time, rec |-> rec]

EndBuild(result) ==
  /\ pc' = "done" /\ ok' = result
  /\ UNCHANGED <<backend, out, errors>>

\* Wrong: what was found is kept.
ReturnKeeping(result) == EndBuild(result)

\* The index is built again from nothing if the MFT was not enough.
Return(result) ==
  IF backend = "mft" /\ ~result
  THEN /\ backend' = "win32" /\ pc' = "root"
       /\ out' = <<>> /\ errors' = {}
       /\ UNCHANGED ok
  ELSE EndBuild(result)

\* The reference of the root is Win32's; then the volume is opened, and record 0
\* read, which tells where the others are. The build is refused as well if the
\* root is not on a local NTFS volume, or this one cannot be opened or has an odd
\* geometry.
Open ==
  /\ pc = "open"
  /\ \/ Return(FALSE) /\ UNCHANGED rootRef
     \/ /\ StatusOf(Top) \notin {"gone", "lost"} /\ ~BadRecord(0)
        /\ rootRef' = Ref(Top)
        /\ pc' = "sweep"
        /\ UNCHANGED <<backend, out, errors, ok>>
  /\ UNCHANGED <<volumeVars, next, recs, work, incomplete, stopped>>

\* A read that fails is the last of its run.
Unread(n) ==
  \E m \in 0 .. n : FailedRead(m) /\ RunStarts \cap (m + 1 .. n) = {}

Sweep ==
  /\ pc = "sweep"
  /\ recs' = IF Unread(next) \/ BadRecord(next) THEN recs
             ELSE MergePassA(next, ParseRecord(RecordAt(next)))
  /\ next' = next + 1
  /\ pc' = IF next = LastRec THEN "lists" ELSE "sweep"
  /\ UNCHANGED <<volumeVars, backend, rootRef, work, incomplete, out, errors, ok, stopped>>

\* Pass B.
FollowLists ==
  /\ pc = "lists"
  /\ recs' = [n \in Recs |->
       IF recs[n].parsed /\ recs[n].inUse /\ recs[n].list.entries # {}
       THEN MergePassB(n, ReadList(recs[n].list))
       ELSE recs[n]]
  /\ pc' = "check"
  /\ UNCHANGED <<volumeVars, backend, rootRef, next, work, incomplete, out, errors, ok, stopped>>

\* The root must be the directory Win32 meant. If it is the root of the volume
\* it is its own parent.
CheckRoot ==
  /\ pc = "check"
  /\ IF /\ recs[rootRef.rec].inUse /\ recs[rootRef.rec].seq = rootRef.seq /\ recs[rootRef.rec].dir
        /\ rootRef.rec = VolumeRootRec =>
             \E i \in DOMAIN recs[rootRef.rec].names : recs[rootRef.rec].names[i].parent = rootRef
     THEN /\ work' = <<Frame("mft", rootRef.rec, <<>>)>>
          /\ pc' = "walk"
          /\ UNCHANGED <<backend, out, errors, ok>>
     ELSE Return(FALSE) /\ UNCHANGED work
  /\ UNCHANGED <<volumeVars, rootRef, next, recs, incomplete, stopped>>

\* A Win32 walk starts if its root can be opened and is a directory.
Opens(path) ==
  LET o == ObjectAt(path) IN
  o # None /\ KindOf[o] = "dir" /\ StatusOf(o) # "gone"

Push(kids, by) == SetToSeq({Frame(by, k.rec, k.path) : k \in {k \in kids : k.kind = "dir"}})

\* The top of the stack of directories is its head.
WalkMft ==
  /\ pc = "walk" /\ work # <<>> /\ Head(work).by = "mft"
  /\ LET d == Head(work).rec
         path == Head(work).path
         kids == {Entry(Append(path, k.name),
                        IF recs[k.rec].link THEN "link" ELSE IF recs[k.rec].dir THEN "dir" ELSE "file",
                        recs[k.rec].time, k.rec) : k \in Kids(d)}
     IN
     /\ recs' = [recs EXCEPT ![d].index = Children(recs[d])]
     /\ IF ~NeedsFallback(recs[d])
        THEN /\ out' = out \o SetToSeq(kids)
             /\ work' = Push(kids, "mft") \o Tail(work)
             /\ UNCHANGED <<errors, incomplete>>
        ELSE IF Opens(path)
        THEN /\ work' = <<Frame("win32", d, path)>> \o Tail(work)
             /\ UNCHANGED <<out, errors, incomplete>>
        ELSE /\ errors' = errors \cup {path}
             /\ incomplete' = TRUE
             /\ work' = Tail(work)
             /\ UNCHANGED out
  /\ UNCHANGED <<volumeVars, pc, backend, rootRef, next, ok, stopped>>

\* One directory of a Win32 walk, whatever is at its path now.
WalkWin32 ==
  /\ pc = "walk" /\ work # <<>> /\ Head(work).by = "win32"
  /\ LET path == Head(work).path
         o    == ObjectAt(path)
         kids == {Entry(Append(path, k[2]), KindOf[k[1]], TRUE, BaseOf[k[1]]) : k \in Listing(o)}
     IN
     IF o # None /\ StatusOf(o) = "lost"
     THEN Return(FALSE) /\ work' = <<>>
     ELSE /\ IF o # None /\ KindOf[o] = "dir" /\ StatusOf(o) = "ok"
             THEN /\ out' = out \o SetToSeq(kids)
                  /\ work' = Push(kids, "win32") \o Tail(work)
                  /\ UNCHANGED errors
             ELSE /\ errors' = errors \cup {path}
                  /\ work' = Tail(work)
                  /\ UNCHANGED out
          /\ UNCHANGED <<pc, backend, ok>>
  /\ UNCHANGED <<volumeVars, rootRef, next, recs, incomplete, stopped>>

EndWalk ==
  /\ pc = "walk" /\ work = <<>>
  /\ Return(backend = "win32" \/ ~incomplete)
  /\ UNCHANGED <<volumeVars, rootRef, next, recs, work, incomplete, stopped>>

\* The Win32 build, after the MFT.
StartWin32 ==
  /\ pc = "root"
  /\ IF Opens(<<>>)
     THEN /\ work' = <<Frame("win32", BaseOf[Top], <<>>)>>
          /\ pc' = "walk"
          /\ UNCHANGED <<backend, out, errors, ok>>
     ELSE Return(FALSE) /\ UNCHANGED work
  /\ UNCHANGED <<volumeVars, rootRef, next, recs, incomplete, stopped>>

\* Both enumerators return true when they see the flag; the caller looks at it.
Cancel ==
  /\ pc # "done"
  /\ pc' = "done" /\ ok' = TRUE /\ stopped' = TRUE
  /\ UNCHANGED <<volumeVars, backend, rootRef, next, recs, work, incomplete, out, errors>>

Change == pc # "done" /\ ChangeVolume /\ UNCHANGED enumVars

Next ==
  \/ Open \/ Sweep \/ FollowLists \/ CheckRoot
  \/ WalkMft \/ WalkWin32 \/ EndWalk \/ StartWin32
  \/ Cancel \/ Change

Spec == Init /\ [][Next]_vars

-----------------------------------------------------------------------------
(* Properties *)

\* Directories that a failed read did not leave without a part of their
\* attributes: it may have taken the records of what is in them as well.
Sound == {o \in Shown \ touched : layout.moved = o /\ layout.out # {} => ~Unread(ExtRec)}

\* What stayed where it was and can be had.
Kept == {o \in Sound : Whole(o)}

\* MftEnumerator.cpp: "A partial index is never reported as a successful scan".
\* If the build succeeds, everything that stayed where it was and whose records
\* could be read is in the index once under each of its paths, with its kind
\* and its time, or is under a directory reported as unreadable: wherever the
\* attributes are kept, whatever single part of the volume is damaged, and
\* whatever else is renamed, moved, deleted or created meanwhile. Only below a
\* directory of which a failed read took a part nothing is promised.
SuccessIsComplete ==
  pc = "done" /\ ok /\ ~stopped =>
    \A o \in Kept \ {Top} : \A p \in PathsThrough(o, Sound) :
      \/ \E e \in errors : IsPrefix(e, p)
      \/ /\ Cardinality({i \in DOMAIN out : out[i].path = p}) = 1
         /\ \E i \in DOMAIN out : /\ out[i].path = p
                                  /\ out[i].kind = KindOf[o] /\ out[i].time

\* Nothing is reported that has not been: no extension record, record of a
\* deleted file or file of the volume itself becomes an entry, and what did not
\* change is reported where it is, under its name, whatever else changes
\* meanwhile. What is renamed or moved between the reading of its record and of
\* the index of its directory may get the name it has in another directory.
NothingInvented ==
  \A i \in DOMAIN out : \E o \in ObjectsEver(out[i].path) : BaseOf[o] = out[i].rec

\* README.md: "The MFT is an optimization, not a dependency". The build fails
\* only if Win32 cannot walk the root either.
FailsOnlyWithWin32 ==
  pc = "done" /\ ~ok => \E o \in Objects : StatusOf(o) = "lost" \/ (o = Top /\ StatusOf(o) = "gone")

\* MftEnumerator.h speaks of "the same loop-safety guarantee as
\* Win32Enumerator": no directory is walked below itself.
LoopSafe ==
  \A i \in DOMAIN out : out[i].kind = "dir" =>
    /\ out[i].rec # rootRef.rec
    /\ \A j \in DOMAIN out :
         out[j].rec = out[i].rec => ~IsStrictPrefix(out[i].path, out[j].path)
=============================================================================
