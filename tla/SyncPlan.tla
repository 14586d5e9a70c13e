------------------------------ MODULE SyncPlan ------------------------------
(***************************************************************************)
(* From the rows of a comparison to the actions of a synchronisation       *)
(* (src/Sync/SyncPlan.cpp), over trees: what lies at every path of a side. *)
(* Paths are sequences of names. Files and links are told apart by what    *)
(* they hold; "odd" is a reparse point of a kind the program does not      *)
(* support.                                                                *)
(*                                                                         *)
(* A plan is a set of actions with the order in which they run. Within a   *)
(* group the code sorts by the length of the path, which puts ancestors    *)
(* first (creating) or last (deleting) and says nothing else of the order. *)
(*                                                                         *)
(* Definitions marked "Wrong" are no part of the model: each is a plausible *)
(* mistake in the definition that follows it, which a property must catch. *)
(***************************************************************************)
EXTENDS Integers, Sequences, FiniteSets, SequencesExt

CONSTANTS
  Paths,   \* the paths at which something may lie
  Files,   \* contents of regular files
  Links,   \* targets of symbolic links and junctions
  Absent   \* nothing

Objects == Files \cup Links \cup {"dir", "odd"}

ASSUME TreesAssumption ==
  /\ IsFiniteSet(Paths) /\ Paths \subseteq Seq(UNION {Range(p) : p \in Paths})
  /\ Files \cap Links = {} /\ {"dir", "odd"} \cap (Files \cup Links) = {}
  /\ Absent \notin Objects

Above(p)   == {q \in Paths : IsStrictPrefix(q, p)}
Beneath(p) == {q \in Paths : IsStrictPrefix(p, q)}

\* A tree: whatever lies beneath another path lies in directories.
WellFormed(t) ==
  \A p \in Paths : t[p] # Absent => \A q \in Above(p) : t[q] = "dir"

Trees == {t \in [Paths -> Objects \cup {Absent}] : WellFormed(t)}

Within(t, p)   == {q \in Beneath(p) : t[q] # Absent}
Children(t, p) == {q \in Within(t, p) : Len(q) = Len(p) + 1}

-----------------------------------------------------------------------------
(* The rows of a comparison of s with d *)

\* finalizeMissingExtra: of the directories, only those without a row below.
Unmatched(s, d) ==
  LET only == {p \in Paths : s[p] # Absent /\ d[p] = Absent}
  IN  {p \in only : s[p] = "dir" => Beneath(p) \cap only = {}}

Missing(s, d) == Unmatched(s, d)
Extra(s, d)   == Unmatched(d, s)

Both(s, d) == {p \in Paths : s[p] # Absent /\ d[p] # Absent}

\* ReadError: a reparse point that is not supported, on either side.
Unreadable(s, d) == {p \in Both(s, d) : "odd" \in {s[p], d[p]}}

\* SizeMismatch and ContentMismatch, another type or another content.
Mismatched(s, d) == {p \in Both(s, d) \ Unreadable(s, d) : s[p] # d[p]}

-----------------------------------------------------------------------------
(* BuildSyncPlan and BuildSingleActionPlan *)

Ops == {"DirCreate", "FileDelete", "LinkDelete", "DirDelete", "FileCopy",
        "FileReplace", "LinkCreate", "LinkReplace"}

Action(op, p) == [op |-> op, path |-> p]

AppendMissingLike(p, o) ==
  CASE o \in Files -> {Action("FileCopy", p)}
    [] o \in Links -> {Action("LinkCreate", p)}
    [] o = "dir"   -> {Action("DirCreate", p)}
    [] o = "odd"   -> {}

AppendExtraLike(p, o) ==
  CASE o \in Files -> {Action("FileDelete", p)}
    [] o \in Links -> {Action("LinkDelete", p)}
    [] o = "dir"   -> {Action("DirDelete", p)}
    [] o = "odd"   -> {}

\* A directory in the way of a file or a link is deleted first; a directory to
\* be created makes its own way.
AppendMismatchReplace(p, src, dst) ==
  LET clear == IF dst = "dir" THEN {Action("DirDelete", p)} ELSE {}
  IN  CASE src \in Files -> clear \cup {Action("FileReplace", p)}
        [] src \in Links -> clear \cup {Action("LinkReplace", p)}
        [] src = "dir"   -> {Action("DirCreate", p)}

RowActions(s, d, p) ==
  CASE p \in Missing(s, d)    -> AppendMissingLike(p, s[p])
    [] p \in Extra(s, d)      -> AppendExtraLike(p, d[p])
    [] p \in Mismatched(s, d) -> AppendMismatchReplace(p, s[p], d[p])
    [] OTHER                  -> {}

Rows(s, d) == Missing(s, d) \cup Extra(s, d) \cup Mismatched(s, d) \cup Unreadable(s, d)

PlannedExtra(s, d) == {p \in Extra(s, d) : d[p] # "odd"}

\* Wrong: a path does not claim itself.
ClaimsBelowOnly(s, d, p) == Beneath(p) \cap (Rows(s, d) \ Extra(s, d)) # {}

\* A row that is not Extra at the path or below it.
IsClaimedBySource(s, d, p) ==
  ({p} \cup Beneath(p)) \cap (Rows(s, d) \ Extra(s, d)) # {}

\* Directories above an Extra row that may be deleted once they are empty.
Ancestors(s, d) ==
  {q \in UNION {Above(p) : p \in PlannedExtra(s, d)} : ~IsClaimedBySource(s, d, q)}

SyncActions(s, d) ==
  (UNION {RowActions(s, d, p) : p \in Rows(s, d)})
    \cup {Action("DirDelete", q) : q \in Ancestors(s, d)}

\* extraFoldedRels: what a guarded deletion of a directory may remove.
SyncAllowed(s, d) == PlannedExtra(s, d) \cup Ancestors(s, d)

-----------------------------------------------------------------------------
(* The order of a plan *)

Groups == <<{"DirCreate"}, {"FileDelete", "LinkDelete"}, {"DirDelete"},
            {"FileCopy", "FileReplace"}, {"LinkCreate", "LinkReplace"}>>

GroupOf(a) == CHOOSE i \in DOMAIN Groups : a.op \in Groups[i]

Precedes(a, b) ==
  \/ GroupOf(a) < GroupOf(b)
  \/ a.op = "DirCreate" /\ b.op = "DirCreate" /\ a.path \in Above(b.path)
  \/ a.op = "DirDelete" /\ b.op = "DirDelete" /\ a.path \in Beneath(b.path)
=============================================================================
