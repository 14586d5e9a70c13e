---------------------------- MODULE SingleVerify ----------------------------
(***************************************************************************)
(* The verification of one path outside a scan (src/Comparison/            *)
(* SingleVerify.cpp): what the two sides are now, the verdict, and the     *)
(* correction of a result set by it.                                       *)
(*                                                                         *)
(* A side is [kind, size, sample, rest]: sample is the part of the content *)
(* a partial verification reads, rest the other part; of a link, sample is *)
(* the target, "" if it could not be read. A row is [path, status,         *)
(* isDirectory]; a result set has the rows in order and one counter per    *)
(* bucket.                                                                 *)
(*                                                                         *)
(* Definitions marked "Wrong" are no part of the model: each is a plausible *)
(* mistake in the definition that follows it, which a property must catch. *)
(***************************************************************************)
EXTENDS Integers, Sequences, FiniteSets, FiniteSetsExt, SequencesExt

\* "odd" is a reparse point that is no link, or one whose kind is not known.
Links    == {"filelink", "dirlink", "junction"}
DirKinds == {"dir", "dirlink", "junction"}
Kinds    == {"absent", "denied", "unreadable", "file", "odd"} \cup DirKinds \cup Links

Row(p, status, isDir) == [path |-> p, status |-> status, isDirectory |-> isDir]

-----------------------------------------------------------------------------
(* VerifySingleFile *)

\* A side that exists and cannot be described: GetFileAttributesExW failed.
MetaError(x) == x.kind \in {"denied", "unreadable"}

MetaErrorRow(p, x) ==
  Row(p, IF x.kind = "denied" THEN "AccessDenied" ELSE "ReadError", FALSE)

\* TryClassifyLinks: either side is a reparse point. A mismatch has the type of
\* the source side; the row of two identical links is made by VerifySingleFile.
LinkVerdict(p, a, b) ==
  IF "odd" \in {a.kind, b.kind}         THEN Row(p, "ReadError", FALSE)
  ELSE IF a.kind # b.kind               THEN Row(p, "SizeMismatch", a.kind \in DirKinds)
  ELSE IF "" \in {a.sample, b.sample}   THEN Row(p, "ReadError", FALSE)
  ELSE IF a.sample = b.sample           THEN Row(p, "Identical", FALSE)
  ELSE Row(p, "ContentMismatch", a.kind \in DirKinds)

\* The hash phase on one candidate, when both sides could be read to the end and
\* neither changed under it.
ContentVerdict(p, a, b, level) ==
  IF level = "full"
  THEN Row(p, IF a.sample = b.sample /\ a.rest = b.rest
              THEN "Identical" ELSE "ContentMismatch", FALSE)
  ELSE Row(p, IF a.sample = b.sample
              THEN "IdenticalPartial" ELSE "ContentMismatchPartial", FALSE)

\* ClassifyMatched, and the rows a hash task may leave.
MatchedVerdicts(p, a, b, level) ==
  IF (Links \cup {"odd"}) \cap {a.kind, b.kind} # {} THEN {LinkVerdict(p, a, b)}
  ELSE IF a.kind # b.kind THEN {Row(p, "SizeMismatch", a.kind = "dir")}
  ELSE IF a.kind = "dir"  THEN {Row(p, "Identical", FALSE)}
  ELSE IF a.size # b.size THEN {Row(p, "SizeMismatch", FALSE)}
  ELSE IF level = "size"  THEN {Row(p, "Identical", FALSE)}
  ELSE {ContentVerdict(p, a, b, level), Row(p, "ReadError", FALSE),
        Row(p, "AccessDenied", FALSE), Row(p, "ChangedDuringScan", FALSE)}

\* VerifySingleFile: the rows a verification of p may return.
VerifySingleFile(p, a, b, level) ==
  IF MetaError(a)      THEN {MetaErrorRow(p, a)}
  ELSE IF MetaError(b) THEN {MetaErrorRow(p, b)}
  ELSE CASE a.kind = "absent" /\ b.kind = "absent" -> {Row(p, "ReadError", FALSE)}
         [] a.kind # "absent" /\ b.kind = "absent" -> {Row(p, "Missing", FALSE)}
         [] a.kind = "absent" /\ b.kind # "absent" -> {Row(p, "Extra", FALSE)}
         [] a.kind # "absent" /\ b.kind # "absent" -> MatchedVerdicts(p, a, b, level)

\* verifyThread: an exception becomes an error row.
MakeInternalVerifyError(p) == Row(p, "ReadError", FALSE)

-----------------------------------------------------------------------------
(* ApplySingleResult *)

Converged == {"Identical", "IdenticalPartial"}
PerType   == {"Identical", "Missing", "Extra"}
Statuses  == PerType \cup {"IdenticalPartial", "SizeMismatch", "ContentMismatch",
               "ContentMismatchPartial", "ReadError", "AccessDenied", "ChangedDuringScan"}

\* The counter of a status: files and directories apart for three of them.
Bucket(status, isDir) == <<status, isDir /\ status \in PerType>>

Buckets == {Bucket(s, d) : s \in Statuses, d \in BOOLEAN}

BumpUp(stats, b)   == [stats EXCEPT ![b] = @ + 1]
BumpDown(stats, b) == [stats EXCEPT ![b] = IF @ > 0 THEN @ - 1 ELSE 0]

\* Wrong: the counter of the new row's type is lowered.
RetireByFresh(set, i, fresh) ==
  [set EXCEPT !.rows = RemoveAt(@, i),
              !.stats = BumpDown(@, Bucket(set.rows[i].status, fresh.isDirectory))]

\* The row is gone: an Extra leaves nothing behind, any other is now identical.
Retire(set, i, fresh) ==
  LET old  == set.rows[i]
      less == BumpDown(set.stats, Bucket(old.status, old.isDirectory))
  IN  [set EXCEPT !.rows = RemoveAt(@, i),
                  !.stats = IF old.status = "Extra" THEN less
                            ELSE BumpUp(less, Bucket(fresh.status, old.isDirectory))]

Replace(set, i, fresh) ==
  LET old  == set.rows[i]
      less == BumpDown(set.stats, Bucket(old.status, old.isDirectory))
  IN  [set EXCEPT !.rows[i] = fresh,
                  !.stats = BumpUp(less, Bucket(fresh.status, fresh.isDirectory))]

\* The first row of the path, if there is one.
ApplySingleResult(set, fresh) ==
  LET at == {i \in DOMAIN set.rows : set.rows[i].path = fresh.path}
  IN  IF at = {} THEN set
      ELSE IF fresh.status \in Converged THEN Retire(set, Min(at), fresh)
      ELSE Replace(set, Min(at), fresh)

CountOf(rows, b) ==
  Cardinality({i \in DOMAIN rows : Bucket(rows[i].status, rows[i].isDirectory) = b})
=============================================================================
