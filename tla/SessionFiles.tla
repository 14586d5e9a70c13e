---------------------------- MODULE SessionFiles ----------------------------
(***************************************************************************)
(* The files of a scan session (src/Session/SessionStore.cpp) and the      *)
(* steps in which SaveSession and AppendJournal change them:               *)
(*                                                                         *)
(*    <base>.bvj        journal: the records, perhaps a partial one last   *)
(*    <base>.bvss       context: settings, state, and a trailer with the   *)
(*                      size and checksum of the journal it goes with      *)
(*    <base>.bvss.prev  the context before that                            *)
(*                                                                         *)
(* A file is replaced by renaming a temporary over it, which is atomic, so *)
(* a context is always readable; only an append can leave a partial record.*)
(* The trailer is the sequence of records it was computed from: sizes and  *)
(* checksums agree exactly when the sequences do. Temporary files are      *)
(* never read and left out. A crash is the end of the process: what was    *)
(* written before it stays.                                                *)
(***************************************************************************)
EXTENDS Integers, Sequences, FiniteSets, SequencesExt

CONSTANTS
  Paths,   \* relative paths that get a row
  Modes,   \* settings that decide what a verdict means
  None     \* no file, or no partial record

VARIABLES
  journal,  \* complete records of <base>.bvj, in order
  torn,     \* the record of which only a part was appended, or None
  main,     \* <base>.bvss, or None
  prev      \* <base>.bvss.prev, or None

fileVars == <<journal, torn, main, prev>>

\* A row: the path, and the settings its verdict was computed under.
Records  == [path : Paths, mode : Modes]
States   == {"Checkpointed", "Interrupted", "Completed"}

\* missed is no part of the file: the paths which got no row in that run.
Contexts == [mode : Modes, state : States, trailer : Seq(Records), missed : SUBSET Paths]

FilesInit == journal = <<>> /\ torn = None /\ main = None /\ prev = None

RowsOf(seq) == {seq[i] : i \in DOMAIN seq}

-----------------------------------------------------------------------------
(* Reading: LoadContextOnly and LoadSession *)

Context  == IF main # None THEN main ELSE prev
Loadable == Context # None

\* journalTruncated: a bad tail, fewer records than declared, or other ones.
Flagged == torn # None \/ ~IsPrefix(Context.trailer, journal)

-----------------------------------------------------------------------------
(* Writing *)

\* WriteAtomic of the journal.
ReplaceJournal(rows) ==
  /\ journal' = rows
  /\ torn' = None
  /\ UNCHANGED <<main, prev>>

\* Wrong: the old context is deleted instead of being kept as .prev.
RotateAway ==
  /\ main' = None
  /\ UNCHANGED <<journal, torn, prev>>

\* WriteAtomic of the context, first half: an existing one becomes .prev.
Rotate ==
  /\ main' = None
  /\ prev' = IF main # None THEN main ELSE prev
  /\ UNCHANGED <<journal, torn>>

\* Second half: the new context gets its name.
PutContext(ctx) ==
  /\ main' = ctx
  /\ UNCHANGED <<journal, torn, prev>>

\* What lies behind the declared records, and how it has to look like before an
\* append may discard it: the beginning of the rows about to be appended.
TailOf(trailer) ==
  SubSeq(journal, Len(trailer) + 1, Len(journal))
    \o (IF torn # None THEN <<torn>> ELSE <<>>)

\* Wrong: an orphaned tail is left where it is.
DropTailKept(trailer, rows) ==
  /\ Len(journal) >= Len(trailer)
  /\ IsPrefix(TailOf(trailer), rows)
  /\ UNCHANGED fileVars

\* AppendJournal: reconcile the journal with the trailer, truncating the orphan.
DropTail(trailer, rows) ==
  /\ Len(journal) >= Len(trailer)
  /\ IsPrefix(TailOf(trailer), rows)
  /\ journal' = SubSeq(journal, 1, Len(trailer))
  /\ torn' = None
  /\ UNCHANGED <<main, prev>>

\* The append writes one more record, whole or in part.
AppendRow(row) ==
  /\ \/ journal' = Append(journal, row) /\ UNCHANGED torn
     \/ torn' = row /\ UNCHANGED journal
  /\ UNCHANGED <<main, prev>>
=============================================================================
