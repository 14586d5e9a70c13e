------------------------------ MODULE HashPhase ------------------------------
(***************************************************************************)
(* How a pair of files of equal size gets its verdict in Content mode, run *)
(* after run, while other programs write to the files                      *)
(* (src/Comparison/HashPhase.cpp, src/Hashing/HashUtil.cpp), with the      *)
(* digest cache a run loads and saves (src/Hashing/HashCache.cpp):         *)
(*                                                                         *)
(*  - a run loads the cache and lists both sides                           *)
(*  - a live run hashes A and then B: open, stat, look into the cache,     *)
(*    read block by block, stat again, store                               *)
(*  - a run that captures a snapshot hashes A once, outside the comparison *)
(*    and without the second stat, and the comparison takes that digest    *)
(*  - the run saves the cache in place, entry by entry; the process may    *)
(*    die at any moment.                                                   *)
(*                                                                         *)
(* One pair is enough: pairs share nothing but the cache, and no two have  *)
(* a key in common. A file is a modification time and a sequence of        *)
(* blocks; a digest is the sequence of blocks it was computed from.        *)
(*                                                                         *)
(* Definitions marked "Wrong" are no part of the model: each is a plausible *)
(* mistake in the definition that follows it, which a property must catch. *)
(***************************************************************************)
EXTENDS PartialRead, Sequences, FiniteSets

CONSTANTS
  Datas,       \* what a file may hold: sequences of blocks
  Levels,      \* <<percent, pattern>> a run may ask for
  FreshTimes,  \* no modification time ever comes back to a file
  MaxWrites,   \* bound: writes to the files in a behaviour
  MaxRuns      \* bound: runs in a behaviour

VARIABLES
  disk,      \* disk[s]: the file of side s
  clock,     \* the latest modification time
  run,       \* runs started
  kind,      \* live, or capture
  level,     \* what the run asks for
  cache,     \* the digests in memory
  file,      \* the cache file
  pc,        \* where the run is
  side,      \* the side being hashed
  listed,    \* listed[s]: the file when side s was listed
  stat,      \* size and time before hashing (T1)
  got,       \* blocks read so far
  changed,   \* a side was found changed
  digest,    \* digest[s], or None
  verdict,   \* of the last run, or None
  missed     \* history: in this run a file moved while it was read, and the
             \* second stat that would have told failed

diskVars == <<disk, clock>>
runVars  == <<run, kind, level>>
vars == <<disk, clock, run, kind, level, cache, file, pc, side, listed, stat, got, changed,
          digest, verdict, missed>>

Sides == {"A", "B"}
None  == "none"

ASSUME HashPhaseAssumption ==
  /\ Datas # {}
  /\ \A d \in Datas : d \in Seq(Nat)
  /\ Levels # {} /\ \A l \in Levels : l[1] \in 1..100 /\ l[2] \in Patterns
  /\ FreshTimes \in BOOLEAN
  /\ MaxWrites \in Nat /\ MaxRuns \in Nat

StatOf(f) == [size |-> Len(f.data), mtime |-> f.mtime]

NoFile == [count |-> 0, entries |-> <<>>, torn |-> {}]

Init ==
  /\ \E d \in Datas : disk = [s \in Sides |-> [mtime |-> 0, data |-> d]]
  /\ clock = 0 /\ run = 0
  /\ kind = "live" /\ level \in Levels
  /\ cache = <<>> /\ file = NoFile
  /\ pc = "off" /\ side = "A"
  /\ listed = disk /\ stat = StatOf(disk["A"]) /\ got = <<>>
  /\ changed = FALSE /\ missed = FALSE
  /\ digest = [s \in Sides |-> None] /\ verdict = None

-----------------------------------------------------------------------------
(* The files *)

\* Another program writes a file.
Write ==
  /\ clock < MaxWrites
  /\ clock' = clock + 1
  /\ \E s \in Sides, d \in Datas : disk' = [disk EXCEPT ![s] = [mtime |-> clock + 1, data |-> d]]
  /\ UNCHANGED <<runVars, cache, file, pc, side, listed, stat, got, changed, missed,
                 digest, verdict>>

\* A synchronisation copies A over B, with its modification time: B may become
\* what it was before. With FreshTimes the copy is stamped anew.
CopyOver ==
  /\ pc = "off"
  /\ disk["A"] # disk["B"]
  /\ IF FreshTimes
     THEN /\ clock < MaxWrites
          /\ clock' = clock + 1
          /\ disk' = [disk EXCEPT !["B"] = [disk["A"] EXCEPT !.mtime = clock + 1]]
     ELSE /\ disk' = [disk EXCEPT !["B"] = disk["A"]]
          /\ UNCHANGED clock
  /\ UNCHANGED <<runVars, cache, file, pc, side, listed, stat, got, changed, missed,
                 digest, verdict>>

-----------------------------------------------------------------------------
(* A run begins: load the cache, list both sides *)

\* Wrong: a digest cut short is taken as it is.
LoadedTrusting ==
  [k \in DOMAIN file.entries \cup file.torn |->
     IF k \in file.torn THEN <<>> ELSE file.entries[k]]

\* A cache with fewer entries than it declares, or half of one, counts for nothing.
Loaded ==
  IF Cardinality(DOMAIN file.entries) = file.count THEN file.entries ELSE <<>>

StartRun ==
  /\ pc = "off"
  /\ run < MaxRuns
  /\ run' = run + 1
  /\ kind' \in {"live", "capture"}
  /\ level' \in (IF kind' = "live" THEN Levels ELSE {<<100, "Edges">>})
  /\ cache' = Loaded
  /\ pc' = "list" /\ side' = "A"
  /\ changed' = FALSE /\ missed' = FALSE /\ got' = <<>>
  /\ digest' = [s \in Sides |-> None] /\ verdict' = None
  /\ UNCHANGED <<diskVars, file, listed, stat>>

\* The pair is a candidate if the two sizes are the same; otherwise it has its
\* verdict already and is not hashed.
List ==
  /\ pc = "list"
  /\ listed' = [listed EXCEPT ![side] = disk[side]]
  /\ IF side = "A" THEN side' = "B" /\ pc' = "list"
     ELSE side' = "A" /\ pc' = (IF Len(listed'["A"].data) = Len(listed'["B"].data)
                                THEN "open" ELSE "save")
  /\ UNCHANGED <<diskVars, runVars, cache, file, stat, got, changed, missed, digest, verdict>>

-----------------------------------------------------------------------------
(* HashOneSide and HashSourceIndex *)

\* Computed once, from the size listed on side A, and used for both sides.
Plan ==
  IF kind = "live" THEN ComputePartialReadPlan(Len(listed["A"].data), level[1], level[2])
                   ELSE FullRead

Effective == EffectiveLevel(Plan, level[1], level[2])

\* HashCache::MakeKey.
Key(s, st) == [side |-> s, stat |-> st, level |-> Effective]

\* The digest is of A captured for the index: HashSourceIndex does not look
\* whether the file is the listed one.
Capturing == kind = "capture" /\ side = "A"

\* A side is done: B follows A, and the verdict follows B.
SideDone(d) ==
  /\ digest' = [digest EXCEPT ![side] = d]
  /\ got' = <<>>
  /\ IF side = "A" THEN side' = "B" /\ pc' = "open"
                   ELSE side' = side /\ pc' = "verdict"

\* Wrong: both sides are held against the time listed for A.
OpenAgainstSource ==
  /\ pc = "open"
  /\ stat' = StatOf(disk[side])
  /\ changed' = (changed \/ (~Capturing /\ stat' # StatOf(listed["A"])))
  /\ IF Key(side, stat') \in DOMAIN cache
     THEN SideDone(cache[Key(side, stat')])
     ELSE /\ pc' = "read" /\ got' = <<>>
          /\ UNCHANGED <<side, digest>>
  /\ UNCHANGED <<diskVars, runVars, cache, file, listed, missed, verdict>>

\* T1 and the look into the cache: a hit ends the side, without a second stat.
Open ==
  /\ pc = "open"
  /\ stat' = StatOf(disk[side])
  /\ changed' = (changed \/ (~Capturing /\ stat' # StatOf(listed[side])))
  /\ IF Key(side, stat') \in DOMAIN cache
     THEN SideDone(cache[Key(side, stat')])
     ELSE /\ pc' = "read" /\ got' = <<>>
          /\ UNCHANGED <<side, digest>>
  /\ UNCHANGED <<diskVars, runVars, cache, file, listed, missed, verdict>>

\* Sharing, rights or the device: the side has no digest.
CannotRead ==
  /\ pc \in {"open", "read"}
  /\ SideDone(None)
  /\ UNCHANGED <<diskVars, runVars, cache, file, listed, stat, changed, missed, verdict>>

\* The position of the n-th block the plan reads.
PositionOf(n) ==
  IF Plan.isFullRead THEN n
  ELSE IF n <= Plan.len1 THEN Plan.off1 + n ELSE Plan.off2 + n - Plan.len1

\* The read is over when the plan is, or the file: one that shrank ends early,
\* a full read follows one that grew.
ReadOver ==
  \/ ~Plan.isFullRead /\ Len(got) = Plan.len1 + Plan.len2
  \/ PositionOf(Len(got) + 1) > Len(disk[side].data)

ReadBlock ==
  /\ pc = "read"
  /\ ~ReadOver
  /\ got' = Append(got, disk[side].data[PositionOf(Len(got) + 1)])
  /\ UNCHANGED <<diskVars, runVars, cache, file, pc, side, listed, stat, changed, missed, digest,
                 verdict>>

\* HashCache::Store: a digest known under the key gives way.
Store(entries, k, d) ==
  [j \in DOMAIN entries \cup {k} |-> IF j = k THEN d ELSE entries[j]]

\* The file is not as it was before hashing.
Moved == StatOf(disk[side]) # stat

\* Wrong: nobody looks whether the file changed while it was read.
FinishUnchecked ==
  /\ pc = "read"
  /\ ReadOver
  /\ cache' = Store(cache, Key(side, stat), got)
  /\ SideDone(got)
  /\ UNCHANGED <<diskVars, runVars, file, listed, stat, changed, missed, verdict>>

\* T2, and the digest is stored under the stat of T1 whatever T2 says. A T2 that
\* fails is not taken for a change: the digest counts, and is stored, as if the
\* file had stood still. A capture has no T2.
Finish ==
  /\ pc = "read"
  /\ ReadOver
  /\ \/ /\ changed' = (changed \/ (~Capturing /\ Moved))
        /\ UNCHANGED missed
     \/ /\ ~Capturing
        /\ missed' = (missed \/ Moved)
        /\ UNCHANGED changed
  /\ cache' = Store(cache, Key(side, stat), got)
  /\ SideDone(got)
  /\ UNCHANGED <<diskVars, runVars, file, listed, stat, verdict>>

-----------------------------------------------------------------------------
(* HashOneCandidateInto: the verdict *)

Same   == IF Plan.isFullRead THEN "Identical" ELSE "IdenticalPartial"
Differ == IF Plan.isFullRead THEN "ContentMismatch" ELSE "ContentMismatchPartial"

Decide ==
  /\ pc = "verdict"
  /\ verdict' = IF changed THEN "ChangedDuringScan"
                ELSE IF None \in {digest["A"], digest["B"]} THEN "Unreadable"
                ELSE IF digest["A"] = digest["B"] THEN Same ELSE Differ
  /\ pc' = "save"
  /\ UNCHANGED <<diskVars, runVars, cache, file, side, listed, stat, got, changed, missed, digest>>

\* What a run had in memory is gone when it is over; its report stays.
RunOver ==
  /\ pc' = "off"
  /\ cache' = <<>> /\ got' = <<>> /\ digest' = [s \in Sides |-> None]

\* A cancelled task gives no verdict; a capture cancelled ends the run there.
Cancel ==
  /\ pc \in {"list", "open", "read", "verdict"}
  /\ IF Capturing \/ pc = "list" THEN RunOver
     ELSE /\ pc' = "save"
          /\ UNCHANGED <<cache, got, digest>>
  /\ UNCHANGED <<diskVars, runVars, file, side, listed, stat, changed, missed, verdict>>

-----------------------------------------------------------------------------
(* HashCache::Save *)

\* The file is truncated and the number of entries written.
Truncate ==
  /\ pc = "save"
  /\ file' = [NoFile EXCEPT !.count = Cardinality(DOMAIN cache)]
  /\ pc' = "entries"
  /\ UNCHANGED <<diskVars, runVars, cache, side, listed, stat, got, changed, missed,
                 digest, verdict>>

Unsaved == DOMAIN cache \ DOMAIN file.entries

\* The key of an entry, then its digest.
SaveKey ==
  /\ pc = "entries" /\ file.torn = {}
  /\ \E k \in Unsaved : file' = [file EXCEPT !.torn = {k}]
  /\ UNCHANGED <<diskVars, runVars, cache, pc, side, listed, stat, got, changed, missed, digest,
                 verdict>>

SaveDigest ==
  /\ pc = "entries"
  /\ \E k \in file.torn :
       file' = [file EXCEPT !.torn = {}, !.entries = Store(@, k, cache[k])]
  /\ UNCHANGED <<diskVars, runVars, cache, pc, side, listed, stat, got, changed, missed, digest,
                 verdict>>

Saved ==
  /\ pc = "entries" /\ file.torn = {} /\ Unsaved = {}
  /\ RunOver
  /\ UNCHANGED <<diskVars, runVars, file, side, listed, stat, changed, missed, verdict>>

\* The process dies, or the save fails half-way: the file stays as it is.
Crash ==
  /\ pc # "off"
  /\ RunOver
  /\ verdict' = None
  /\ UNCHANGED <<diskVars, runVars, file, side, listed, stat, changed, missed>>

Next ==
  \/ Write \/ CopyOver
  \/ StartRun \/ List \/ Open \/ CannotRead \/ ReadBlock \/ Finish \/ Decide \/ Cancel
  \/ Truncate \/ SaveKey \/ SaveDigest \/ Saved \/ Crash

Spec == Init /\ [][Next]_vars

-----------------------------------------------------------------------------
(* Properties *)

\* The blocks that verifying at a level reads of a file.
Sampled(data, lv) ==
  LET plan == ComputePartialReadPlan(Len(data), lv.percent, lv.pattern)
  IN  IF plan.isFullRead THEN data
      ELSE SubSeq(data, plan.off1 + 1, plan.off1 + plan.len1)
             \o SubSeq(data, plan.off2 + 1, plan.off2 + plan.len2)

\* A verdict of a live run is about the files as they were listed: whatever was
\* written while they were hashed, and whatever an earlier run left in the
\* cache, "identical" means that the listed files agree where the plan looks,
\* and "mismatch" that they do not. The one way to a false verdict is a file
\* written to while it is read whose second stat then fails.
VerdictIsTrue ==
  kind = "live" /\ verdict \in {Same, Differ} /\ ~missed =>
    (verdict = Same <=> Sampled(listed["A"].data, Effective)
                          = Sampled(listed["B"].data, Effective))

\* HashUtil.h says that a hit is always sound, the digest having been computed
\* for exactly the current state of the file: what the cache holds for a file
\* as it is now is what reading it now would give.
CacheHitIsSound ==
  \A k \in DOMAIN cache :
    k.stat = StatOf(disk[k.side]) => cache[k] = Sampled(disk[k.side].data, k.level)

\* No file is reported as changed that nobody touched: neither the cache nor a
\* second look make a file of an earlier run look different from itself.
ChangedMeansChanged ==
  verdict = "ChangedDuringScan" => \E s \in Sides : disk[s] # listed[s]
=============================================================================
