----------------------------- MODULE NtfsVolume -----------------------------
(***************************************************************************)
(* What MftEnumerator (src/Filesystem/MftEnumerator.cpp) reads: a tree of  *)
(* files and directories, the file records and index blocks in which an    *)
(* NTFS volume keeps it, and the tree as Win32 shows it. None of this is   *)
(* code of the program; it is what its parser and its tests take a volume  *)
(* to be.                                                                  *)
(*                                                                         *)
(* An object has a base record. If its attributes outgrow it some of them  *)
(* are in an extension record, whose number may be above or below, and the *)
(* base record has a list of them, in it or in a cluster. A directory has  *)
(* an index root and, if that does not hold its entries, index blocks in   *)
(* two clusters. A link of an object is a name in a directory; it may have *)
(* a DOS name beside it. The record of a deleted object keeps its content  *)
(* until it is used again, under the next sequence number; so does the     *)
(* extension record.                                                       *)
(***************************************************************************)
EXTENDS Integers, Sequences, FiniteSets, SequencesExt

CONSTANTS
  Objects,      \* files and directories
  Top,          \* the root of the scan
  KindOf,       \* KindOf[o]: "dir", "file" or "link" (a directory reparse point)
  BaseOf,       \* BaseOf[o]: the number of its base record
  RunStarts,    \* the records at which a run of clusters of the MFT starts
  Metafiles,    \* objects of the volume itself, which Win32 does not show
  FirstTree,    \* the tree at first
  NewNames,     \* names a change may give
  Layouts,      \* how the volume keeps it
  MaxTroubles,  \* bound: damaged parts and changes of the tree together
  None          \* no extension record, no index root, no base record

VARIABLES
  tree,     \* tree[o]: whether it exists, its sequence number and its links
  layout,   \* what is where, and what is damaged
  touched,  \* objects that were changed
  changes,  \* changes so far
  seen      \* the links there have been

volumeVars == <<tree, layout, touched, changes, seen>>

LastRec == Cardinality(Objects) + 1
Recs    == 0 .. LastRec

ASSUME NtfsVolumeAssumption ==
  /\ Top \in Objects /\ KindOf[Top] = "dir" /\ Metafiles \subseteq Objects
  /\ BaseOf \in [Objects -> 0 .. LastRec - 1]
  /\ \A o \in Objects : BaseOf[o] # 1 /\ (BaseOf[o] = 0 => o \in Metafiles)
  /\ RunStarts \subseteq Recs /\ 0 \in RunStarts
  /\ \A o, p \in Objects : BaseOf[o] = BaseOf[p] => o = p
  /\ MaxTroubles \in Nat

Ref(o)  == [rec |-> BaseOf[o], seq |-> tree[o].seq]
Win(n)  == [is |-> n, dos |-> FALSE]
Dos(n)  == [is |-> n, dos |-> TRUE]
Live    == {o \in Objects : tree[o].live}
LinksOf(o) == ToSet(tree[o].links)

Part(part, rec, vcn)    == [part |-> part, rec |-> rec, vcn |-> vcn]
Damaged(part, rec, vcn) == Part(part, rec, vcn) \in layout.damaged

-----------------------------------------------------------------------------
(* Records *)

\* The $FILE_NAME attributes: of a link with a DOS name, that one is first.
\* A damaged one names its parent under a sequence number it never had.
FileName(o, l, ns, n) ==
  [parent |-> [rec |-> BaseOf[l.parent],
               seq |-> IF Damaged("parent", BaseOf[o], 0) THEN 99 ELSE l.seq],
   ns |-> ns, name |-> n]

NamesOf(o) ==
  FlattenSeq([i \in DOMAIN tree[o].links |->
    LET l == tree[o].links[i] IN
    IF o \in layout.short
    THEN <<FileName(o, l, "dos", Dos(l.name)), FileName(o, l, "win32", Win(l.name))>>
    ELSE <<FileName(o, l, IF i = 1 THEN "both" ELSE "win32", Win(l.name))>>])

\* The entries of a directory index.
IndexEntries(d) ==
  UNION {{[ref |-> Ref(o), name |-> Win(l.name)] : l \in {l \in LinksOf(o) : l.parent = d}}
         \cup {[ref |-> Ref(o), name |-> Dos(l.name)] :
                 l \in {l \in LinksOf(o) : l.parent = d /\ o \in layout.short}} : o \in Live}

IsDir(o)       == KindOf[o] # "file"
RootOf(d)      == IF d \in layout.blocks THEN {} ELSE IndexEntries(d)
MovedPart(o,x) == layout.moved = o /\ x \in layout.out

\* $INDEX_ALLOCATION: one piece of two clusters, or two pieces of one. The
\* size of the whole is in the piece that starts at cluster 0.
PiecesOf(d, inBase) ==
  IF d \notin layout.blocks \/ ~IsDir(d) THEN {}
  ELSE IF ~MovedPart(d, "tail")
       THEN IF inBase THEN {[of |-> d, low |-> 0, high |-> 1, size |-> 2]} ELSE {}
  ELSE IF inBase THEN {[of |-> d, low |-> 0, high |-> 0, size |-> 2]}
                 ELSE {[of |-> d, low |-> 1, high |-> 1, size |-> 0]}

ExtRec == IF layout.below THEN 1 ELSE LastRec

ListOf(o) ==
  IF layout.moved = o
  THEN [apart |-> layout.apart,
        entries |-> {[type |-> x, rec |-> ExtRec, seq |-> tree[o].seq] : x \in layout.out}]
  ELSE [apart |-> FALSE, entries |-> {}]

Has(o, x, inBase) == MovedPart(o, x) # inBase

Content(o, inBase) ==
  [inUse |-> tree[o].live,
   seq   |-> tree[o].seq,
   dir   |-> inBase /\ IsDir(o),
   link  |-> inBase /\ KindOf[o] = "link",
   base  |-> IF inBase THEN None ELSE Ref(o),
   names |-> IF Has(o, "names", inBase) THEN NamesOf(o) ELSE <<>>,
   time  |-> Has(o, "time", inBase),
   root  |-> IF IsDir(o) /\ Has(o, "root", inBase) THEN RootOf(o) ELSE None,
   pieces |-> PiecesOf(o, inBase),
   list  |-> IF inBase THEN ListOf(o) ELSE [apart |-> FALSE, entries |-> {}]]

FreeRecord ==
  [inUse |-> FALSE, seq |-> 1, dir |-> FALSE, link |-> FALSE, base |-> None, names |-> <<>>,
   time |-> FALSE, root |-> None, pieces |-> {}, list |-> [apart |-> FALSE, entries |-> {}]]

\* What is in record n of the MFT.
RecordAt(n) ==
  IF \E o \in Objects : BaseOf[o] = n THEN Content(CHOOSE o \in Objects : BaseOf[o] = n, TRUE)
  ELSE IF n = ExtRec /\ layout.moved # None THEN Content(layout.moved, FALSE)
  ELSE FreeRecord

\* A record without a valid header, or one that cannot be read by itself.
BadRecord(n) == Damaged("record", n, 0)

\* The volume does not give the clusters from record n on when they are read in
\* one piece with those that follow.
FailedRead(n) == Damaged("read", n, 0)

\* A cluster that cannot be read is left as zeros in the buffer.
ReadBlock(d, v) ==
  IF Damaged("lost", BaseOf[d], v)
  THEN [used |-> FALSE, torn |-> FALSE, entries |-> {}]
  ELSE [used |-> TRUE, torn |-> Damaged("torn", BaseOf[d], v),
        entries |-> {e \in IndexEntries(d) : e.ref.rec % 2 # v}]

\* A list in a cluster that cannot be read has no entries.
ReadList(list) ==
  IF list.apart /\ Damaged("list", 0, 0) THEN {} ELSE list.entries

-----------------------------------------------------------------------------
(* The tree as Win32 shows it *)

\* The paths of an object that lead through the given objects only.
RECURSIVE PathsThrough(_, _)
PathsThrough(o, over) ==
  IF o \notin over THEN {}
  ELSE IF o = Top THEN {<<>>}
  ELSE UNION {{Append(p, Win(l.name)) : p \in PathsThrough(l.parent, over)} : l \in LinksOf(o)}

Shown      == Live \ Metafiles
PathsOf(o) == PathsThrough(o, Shown)

\* "ok", or why a directory cannot be listed: access is denied, it cannot be
\* opened at all, or the device is gone.
StatusOf(d) == layout.status[d]

\* The object at a path, or None.
ObjectAt(p) ==
  IF \E o \in Objects : p \in PathsOf(o) THEN CHOOSE o \in Objects : p \in PathsOf(o) ELSE None

Listing(d) ==
  UNION {{<<o, Win(l.name)>> : l \in {l \in LinksOf(o) : l.parent = d}} : o \in Shown \ {Top}}

\* Every attribute of the object can be had: its extension record can be read,
\* and is found by the list or comes after the base record.
Whole(o) ==
  layout.moved = o /\ layout.out # {} =>
    /\ ~BadRecord(ExtRec)
    /\ layout.below => ~(layout.apart /\ Damaged("list", 0, 0))

SeenNow == UNION {{[child |-> o, parent |-> l.parent, name |-> l.name] : l \in LinksOf(o)} : o \in Shown}

\* The names an object may be known by in a directory it has been in: any of
\* its names if it was changed, the DOS name only if the names are in another
\* record, which may be lost or belong to another object when it is read.
NamesEver(o, d) ==
  {x \in UNION {{Win(h.name), Dos(h.name)} :
                  h \in {h \in seen : h.child = o /\ (h.parent = d \/ o \in touched)}} :
     x.dos => o \in layout.short /\ MovedPart(o, "names")}

\* The objects that may be known by a path.
RECURSIVE ObjectsEver(_)
ObjectsEver(p) ==
  IF p = <<>> THEN {Top}
  ELSE {h.child : h \in {h \in seen : /\ h.parent \in ObjectsEver(Front(p))
                                    /\ Last(p) \in NamesEver(h.child, h.parent)}}

-----------------------------------------------------------------------------
(* Changes while it is read *)

VolumeInit ==
  /\ tree = FirstTree
  /\ layout \in Layouts
  /\ touched = {} /\ changes = 0
  /\ seen = SeenNow

Under(o, d) == \E p \in PathsOf(d), q \in PathsOf(o) : IsPrefix(p, q)
Link(d, n)  == [parent |-> d, seq |-> tree[d].seq, name |-> n]
Taken(d, n) == \E o \in Live : \E l \in LinksOf(o) : l.parent = d /\ l.name = n
Dirs        == {o \in Live : KindOf[o] = "dir"}

\* A link gets another name, or its own name in another directory.
Relink(o, i) ==
  LET l == tree[o].links[i] IN
  \E d \in Dirs, n \in NewNames \cup {l.name} :
    /\ ~Taken(d, n) /\ ~Under(d, o)
    /\ d = l.parent \/ n = l.name
    /\ \A m \in LinksOf(o) \ {l} : m.parent # d
    /\ tree' = [tree EXCEPT ![o].links[i] = Link(d, n)]

Delete(o) ==
  /\ \A p \in Live : \A l \in LinksOf(p) : l.parent # o
  /\ tree' = [tree EXCEPT ![o].live = FALSE]

\* Deleted, and its record taken by an object that is created somewhere.
Reuse(o) ==
  \E d \in Dirs \ {o}, n \in NewNames :
    /\ \A p \in Live : \A l \in LinksOf(p) : l.parent # o
    /\ ~Taken(d, n)
    /\ tree' = [tree EXCEPT ![o] =
         [live |-> TRUE, seq |-> @.seq + 1, links |-> <<Link(d, n)>>]]

ChangeVolume ==
  /\ changes + Cardinality(layout.damaged) < MaxTroubles
  /\ changes' = changes + 1 /\ UNCHANGED layout
  /\ \E o \in Live \ (Metafiles \cup {Top}) :
       /\ \/ \E i \in DOMAIN tree[o].links : Relink(o, i)
          \/ Delete(o)
          \/ Reuse(o)
       /\ touched' = touched \cup {o}
  /\ seen' = seen \cup SeenNow'
=============================================================================
