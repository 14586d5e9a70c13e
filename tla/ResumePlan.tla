----------------------------- MODULE ResumePlan -----------------------------
(***************************************************************************)
(* Verdicts, and which of them a later run may reuse: the comparison of    *)
(* two listings of a tree (src/Comparison/FileComparator.cpp and           *)
(* ClassifyUtil.cpp) and PlanResume (src/Session/ResumePlan.cpp), which    *)
(* splits a saved journal against two fresh listings into rows that are    *)
(* still valid and paths to verify again.                                  *)
(*                                                                         *)
(* A listing is a function from the paths it contains to entries, as       *)
(* FileIndex holds it: keys are folded already, and no path is in it       *)
(* twice. A journal is a function from paths to rows for the same reason.  *)
(* Only the directories that could not be listed are compared with a row   *)
(* letter by letter: Respelt tells where that makes a difference.          *)
(*                                                                         *)
(* Definitions marked "Wrong" are no part of the model: each is a plausible *)
(* mistake in the definition that follows it, which a property must catch. *)
(***************************************************************************)
EXTENDS Integers, FiniteSets, Functions

CONSTANTS
  Paths,   \* relative paths
  Above,   \* Above[p]: the paths of the directories p is in
  SizeOf,  \* SizeOf[d]: the size of a file that holds d
  Respelt, \* paths that the two sides spell in different case
  None     \* no stat of an absent side, no file

ASSUME ResumePlanAssumption ==
  /\ Paths # {} /\ IsFiniteSet(Paths)
  /\ Above \in [Paths -> SUBSET Paths]
  /\ Respelt \subseteq Paths
  /\ \A p \in Paths : Above[p] \cap Respelt # {} => p \in Respelt

Sides == {"A", "B"}

-----------------------------------------------------------------------------
(* Entries, and what a listing tells of them *)

File(data, mtime) == [type |-> "file", size |-> SizeOf[data], mtime |-> mtime, data |-> data]
Dir               == [type |-> "dir", size |-> 0, mtime |-> 0, data |-> "none"]
Link(target)      == [type |-> "link", size |-> 0, mtime |-> 0, data |-> target]

\* FileEntry::isDirectory is set for a link to a directory as well.
IsDirectory(e) == e.type # "file"
StatOf(e)      == [size |-> e.size, mtime |-> e.mtime]

-----------------------------------------------------------------------------
(* Verdicts *)

ErrorVerdicts == {"ReadError", "AccessDenied", "ChangedDuringScan"}

\* What ToJournalEntry keeps of a row.
Row(verdict, isDir, a, b) ==
  [verdict |-> verdict, isDirectory |-> isDir, statA |-> a, statB |-> b]

\* ClassifyMatched and the hash phase: content(p) is the verdict on two files
\* of equal size in Content mode.
Matched(a, b, mode, content) ==
  LET Both(verdict, isDir) == Row(verdict, isDir, StatOf(a), StatOf(b)) IN
  CASE a.type = "link" /\ b.type = "link" /\ a.data = b.data -> Both("Identical", TRUE)
    [] a.type = "link" /\ b.type = "link" /\ a.data # b.data -> Both("ContentMismatch", FALSE)
    [] a.type = "dir" /\ b.type = "dir"   -> Both("Identical", TRUE)
    [] a.type # b.type                    -> Both("SizeMismatch", FALSE)
    [] OTHER ->
         Both(CASE mode = "Presence"   -> "Identical"
                [] mode # "Presence" /\ a.size # b.size -> "SizeMismatch"
                [] mode = "Size" /\ a.size = b.size     -> "Identical"
                [] OTHER               -> content,
              FALSE)

\* The rows of a comparison of two listings. A path on one side is missing or
\* extra; a path listed on both is classified.
Compared(la, lb, mode, content) ==
  [p \in DOMAIN la \cup DOMAIN lb |->
     IF p \notin DOMAIN lb
     THEN Row("Missing", IsDirectory(la[p]), StatOf(la[p]), None)
     ELSE IF p \notin DOMAIN la
     THEN Row("Extra", IsDirectory(lb[p]), None, StatOf(lb[p]))
     ELSE Matched(la[p], lb[p], mode, content[p])]

VerdictsOf(rows) == [p \in DOMAIN rows |-> rows[p].verdict]

-----------------------------------------------------------------------------
(* PlanResume *)

\* The sides a verdict says the path is on.
Expected(verdict) ==
  CASE verdict = "Missing" -> {"A"}
    [] verdict = "Extra"   -> {"B"}
    [] OTHER               -> Sides

Listed(p, l) == {s \in Sides : p \in DOMAIN l[s]}

\* Wrong: a file whose size is the same is taken to be the same file.
UnchangedSize(row, p, l) ==
  \A s \in Expected(row.verdict) :
    /\ IsDirectory(l[s][p]) = row.isDirectory
    /\ row.isDirectory \/ StatOf(l[s][p]).size
                            = (IF s = "A" THEN row.statA ELSE row.statB).size

\* The type first; then, unless it is a directory, size and time.
Unchanged(row, p, l) ==
  \A s \in Expected(row.verdict) :
    /\ IsDirectory(l[s][p]) = row.isDirectory
    /\ row.isDirectory \/ StatOf(l[s][p]) = (IF s = "A" THEN row.statA ELSE row.statB)

\* A row has the source's spelling if the path is on the source alone.
SpelledAs(verdict) == IF verdict = "Missing" THEN "A" ELSE "B"

\* The path of a row of side x is at or under the path of a directory of side s.
AtOrUnder(p, x, d, s) == (p = d \/ d \in Above[p]) /\ (x = s \/ d \notin Respelt)

\* UnderAnyErrorDir of either side: not so for a directory that the side it could
\* not be listed on spells otherwise than the row.
InError(p, row, errs) ==
  \E s \in Sides : \E d \in errs[s] : AtOrUnder(p, SpelledAs(row.verdict), d, s)

\* The rows that are reused.
Reusable(p, row, l, errs) ==
  /\ row.verdict \notin ErrorVerdicts
  /\ Listed(p, l) = Expected(row.verdict)
  /\ ~InError(p, row, errs)
  /\ Unchanged(row, p, l)

\* Wrong: a path that is gone from both sides is dropped, unlistable or not.
NeverRefused(journal, l, errs) == FALSE

\* Absence cannot be proved under a directory that could not be listed, as far as
\* the row is found to be under it.
Refused(journal, l, errs) ==
  \E p \in DOMAIN journal : Listed(p, l) = {} /\ InError(p, journal[p], errs)

\* Everything listed that is not reused is verified again: the stale rows with
\* their current entries, and the paths the journal never saw.
Remainder(journal, l, errs, s) ==
  {p \in DOMAIN l[s] :
     p \in DOMAIN journal => ~Reusable(p, journal[p], l, errs)}

PlanResume(journal, l, errs) ==
  [reused |-> Restrict(journal, {p \in DOMAIN journal : Reusable(p, journal[p], l, errs)}),
   remainder |-> [s \in Sides |-> Remainder(journal, l, errs, s)]]
=============================================================================
