------------------------ MODULE CheckpointingProofs ------------------------
(***************************************************************************)
(* No row that a save acknowledged is lost, none is recorded twice, and a  *)
(* session that calls itself completed or was reported as saved is whole:  *)
(* for any paths and settings, any number of runs, failed operations and   *)
(* deaths of the process.                                                  *)
(*                                                                         *)
(* The argument is about RunRows, the rows of the run in the order they go *)
(* to the journal: those written so far, the pending and the captured ones.*)
(* A save only moves the border between them, whether it succeeds or not.  *)
(***************************************************************************)
EXTENDS Checkpointing, SequenceTheorems, TLAPS

PathsOf(seq)  == {r.path : r \in RowsOf(seq)}
Distinct(seq) == \A i, j \in DOMAIN seq : seq[i].path = seq[j].path => i = j

-----------------------------------------------------------------------------
(* The inductive invariant *)

TypeOK ==
  /\ journal \in Seq(Records) /\ torn \in Records \cup {None}
  /\ main \in Contexts \cup {None} /\ prev \in Contexts \cup {None}
  /\ run \in Nat /\ faults \in Nat
  /\ phase \in {"off", "scan", "join", "final"}
  /\ mode \in Modes
  /\ fresh \in BOOLEAN /\ pumping \in BOOLEAN /\ booted \in BOOLEAN
  /\ left \in SUBSET Paths /\ missed \in SUBSET Paths
  /\ sink \in Seq(Records) /\ pending \in Seq(Records)
  /\ cancel \in BOOLEAN /\ ok \in BOOLEAN
  /\ spc \in {"idle", "journal", "trailer", "append", "rotate", "context"}
  /\ pos \in Nat
  /\ trailer \in Seq(Records) /\ goal \in States
  /\ saved \in States \cup {None}
  /\ acked \in SUBSET Records

\* The rows of this run that a context of it declares, and all its rows.
Written == IF booted THEN Context.trailer ELSE <<>>
RunRows == Written \o (pending \o sink)

\* Which save runs in which phase, and what a completed one is.
Control ==
  /\ ~Alive => Idle
  /\ spc = "journal" => ~booted
  /\ spc \in {"trailer", "append"} => booted
  /\ booted => Loadable
  /\ phase = "final" => sink = <<>>
  /\ ok => left = {}
  /\ ~Idle /\ goal = "Completed" => phase = "final" /\ ok
  /\ Alive => run # 0 /\ saved = None

\* The paths that are neither to come nor missed have one row each.
RowsApart ==
  /\ Distinct(RunRows)
  /\ run # 0 => PathsOf(RunRows) = Paths \ (left \cup missed)
  /\ left \cap missed = {}

\* Behind the declared rows the journal holds pending ones and nothing else.
OrphansArePending ==
  booted => IsPrefix(Written, journal) /\ IsPrefix(journal, Written \o pending)

\* While rows are appended the journal has as many as were counted.
AppendStands ==
  spc = "append" =>
    /\ trailer = Written \o pending
    /\ pos <= Len(pending)
    /\ torn = None => Len(journal) = Len(Written) + pos

\* The context is written when the journal is what it will declare.
JournalStands ==
  spc \in {"rotate", "context"} =>
    trailer = Written \o pending /\ journal = trailer /\ torn = None

\* What must survive: the declared rows, or before this run has written any
\* those among the pending that it reuses.
AckedStands ==
  /\ booted => acked = RowsOf(Written)
  /\ ~booted /\ ~fresh => acked \subseteq RowsOf(pending)

\* A completed context declares a row for every path that got one.
CompletedStands ==
  \A c \in {main, prev} \ {None} :
    c.state = "Completed" => Paths \subseteq c.missed \cup PathsOf(c.trailer)

IInv ==
  /\ TypeOK /\ Control /\ RowsApart /\ OrphansArePending
  /\ AppendStands /\ JournalStands /\ AckedStands /\ CompletedStands
  /\ CheckpointSurvives /\ NoDuplicateRows /\ ReportedSaveIsOnDisk
-----------------------------------------------------------------------------
(* Sequences of rows *)

\* A prefix, row by row.
LEMMA PrefixIs ==
  ASSUME NEW s \in Seq(Records), NEW t \in Seq(Records)
  PROVE  IsPrefix(s, t) <=> Len(s) <= Len(t) /\ \A i \in 1..Len(s) : s[i] = t[i]
<1>1. Len(s) \in Nat /\ Len(t) \in Nat
  BY LenProperties
<1>2. ASSUME Len(s) <= Len(t)
      PROVE  SubSeq(s, 1, Len(s)) = SubSeq(t, 1, Len(s))
               <=> \A i \in 1..Len(s) : s[i] = t[i]
  <2> DEFINE n == Len(s)
             u == SubSeq(t, 1, n)
  <2>1. SubSeq(s, 1, n) = s
    BY SubSeqFull
  <2>2. \A i \in 1..n : t[i] \in Records
    BY <1>1, <1>2, ElementOfSeq
  <2>3. n \in Int /\ 1 \in Int
    BY <1>1
  <2>4. (IF 1 <= n THEN n - 1 + 1 ELSE 0) = n /\ n - 1 + 1 = n
    BY <1>1
  <2>5. u \in Seq(Records) /\ Len(u) = n /\ \A i \in 1..n : u[i] = t[1 + i - 1]
    <3> HIDE DEF n
    <3>1. /\ SubSeq(t, 1, n) \in Seq(Records)
          /\ Len(SubSeq(t, 1, n)) = IF 1 <= n THEN n - 1 + 1 ELSE 0
          /\ \A i \in 1..(n - 1 + 1) : SubSeq(t, 1, n)[i] = t[1 + i - 1]
      BY <2>2, <2>3, SubSeqProperties
    <3> QED  BY <2>4, <3>1
  <2>6. \A i \in 1..n : u[i] = t[i]
    BY <1>1, <2>5
  <2> HIDE DEF u
  <2>7. (\A i \in 1..n : s[i] = t[i]) => s = u
    BY <2>5, <2>6, SeqEqual
  <2> QED
    BY <2>1, <2>6, <2>7 DEF u
<1> QED
  BY <1>2 DEF IsPrefix

\* A sequence is a prefix of itself and of what continues it; a prefix of a
\* prefix is one.
LEMMA PrefixOrder ==
  ASSUME NEW s \in Seq(Records), NEW t \in Seq(Records)
  PROVE  /\ IsPrefix(s, s) /\ IsPrefix(s, s \o t)
         /\ \A r \in Seq(Records) : IsPrefix(r, s) /\ IsPrefix(s, t) => IsPrefix(r, t)
<1>1. \A r \in Seq(Records) : Len(r) \in Nat
  BY LenProperties
<1>2. IsPrefix(s, s)
  BY <1>1, PrefixIs
<1>3. IsPrefix(s, s \o t)
  <2>1. /\ s \o t \in Seq(Records)
        /\ Len(s \o t) = Len(s) + Len(t)
        /\ \A i \in 1..(Len(s) + Len(t)) :
             (s \o t)[i] = IF i <= Len(s) THEN s[i] ELSE t[i - Len(s)]
    BY ConcatProperties
  <2>2. Len(s) <= Len(s \o t) /\ \A i \in 1..Len(s) : s[i] = (s \o t)[i]
    BY <1>1, <2>1
  <2> QED
    BY <2>1, <2>2, PrefixIs
<1>4. \A r \in Seq(Records) : IsPrefix(r, s) /\ IsPrefix(s, t) => IsPrefix(r, t)
  <2> SUFFICES ASSUME NEW r \in Seq(Records), IsPrefix(r, s), IsPrefix(s, t)
               PROVE  IsPrefix(r, t)
    OBVIOUS
  <2>1. Len(r) <= Len(s) /\ \A i \in 1..Len(r) : r[i] = s[i]
    BY PrefixIs
  <2>2. Len(s) <= Len(t) /\ \A i \in 1..Len(s) : s[i] = t[i]
    BY PrefixIs
  <2>3. Len(r) <= Len(t) /\ \A i \in 1..Len(r) : r[i] = t[i]
    BY <1>1, <2>1, <2>2
  <2> QED
    BY <2>3, PrefixIs
<1> QED
  BY <1>2, <1>3, <1>4

\* Two sequences of one length of which one is a prefix of the other are equal.
LEMMA WholePrefix ==
  ASSUME NEW s \in Seq(Records), NEW t \in Seq(Records),
         IsPrefix(s, t), Len(s) = Len(t)
  PROVE  s = t
BY PrefixIs, SeqEqual

\* What the rows of a prefix are.
LEMMA PrefixRows ==
  ASSUME NEW s \in Seq(Records), NEW t \in Seq(Records), IsPrefix(s, t)
  PROVE  /\ RowsOf(s) \subseteq RowsOf(t) /\ PathsOf(s) \subseteq PathsOf(t)
         /\ Distinct(t) => Distinct(s)
<1>1. Len(s) \in Nat /\ Len(t) \in Nat /\ DOMAIN s = 1..Len(s) /\ DOMAIN t = 1..Len(t)
  BY LenProperties
<1>2. Len(s) <= Len(t) /\ \A i \in 1..Len(s) : s[i] = t[i]
  BY PrefixIs
<1>3. \A i \in DOMAIN s : i \in DOMAIN t /\ s[i] = t[i]
  BY <1>1, <1>2
<1>4. RowsOf(s) \subseteq RowsOf(t)
  BY <1>3 DEF RowsOf
<1> QED
  BY <1>3, <1>4 DEF PathsOf, Distinct

\* The rows of two sequences put together.
LEMMA ConcatRows ==
  ASSUME NEW s \in Seq(Records), NEW t \in Seq(Records)
  PROVE  /\ s \o t \in Seq(Records)
         /\ RowsOf(s \o t) = RowsOf(s) \cup RowsOf(t)
         /\ PathsOf(s \o t) = PathsOf(s) \cup PathsOf(t)
<1>1. /\ Len(s) \in Nat /\ DOMAIN s = 1..Len(s)
      /\ Len(t) \in Nat /\ DOMAIN t = 1..Len(t)
  BY LenProperties
<1>2. /\ s \o t \in Seq(Records)
      /\ Len(s \o t) = Len(s) + Len(t)
      /\ \A i \in 1..(Len(s) + Len(t)) :
           (s \o t)[i] = IF i <= Len(s) THEN s[i] ELSE t[i - Len(s)]
  BY ConcatProperties
<1>3. DOMAIN (s \o t) = 1..(Len(s) + Len(t))
  BY <1>2, LenProperties
<1>4. RowsOf(s \o t) \subseteq RowsOf(s) \cup RowsOf(t)
  <2>1. ASSUME NEW i \in DOMAIN (s \o t)
        PROVE  (s \o t)[i] \in RowsOf(s) \cup RowsOf(t)
    <3>1. CASE i <= Len(s)
      <4>1. i \in DOMAIN s /\ (s \o t)[i] = s[i]
        BY <1>1, <1>2, <1>3, <2>1, <3>1
      <4> QED  BY <4>1 DEF RowsOf
    <3>2. CASE ~(i <= Len(s))
      <4>1. i - Len(s) \in DOMAIN t /\ (s \o t)[i] = t[i - Len(s)]
        BY <1>1, <1>2, <1>3, <2>1, <3>2
      <4> QED  BY <4>1 DEF RowsOf
    <3> QED  BY <3>1, <3>2
  <2> QED
    BY <2>1 DEF RowsOf
<1>5. RowsOf(s) \subseteq RowsOf(s \o t)
  <2>1. \A i \in DOMAIN s : i \in DOMAIN (s \o t) /\ (s \o t)[i] = s[i]
    BY <1>1, <1>2, <1>3
  <2> QED
    BY <2>1 DEF RowsOf
<1>6. RowsOf(t) \subseteq RowsOf(s \o t)
  <2>1. ASSUME NEW i \in DOMAIN t
        PROVE  Len(s) + i \in DOMAIN (s \o t) /\ (s \o t)[Len(s) + i] = t[i]
    <3>1. Len(s) + i \in 1..(Len(s) + Len(t)) /\ ~(Len(s) + i <= Len(s))
          /\ Len(s) + i - Len(s) = i
      BY <1>1, <2>1
    <3> QED
      BY <1>2, <1>3, <3>1
  <2> QED
    BY <2>1 DEF RowsOf
<1>7. RowsOf(s \o t) = RowsOf(s) \cup RowsOf(t)
  BY <1>4, <1>5, <1>6
<1>8. PathsOf(s \o t) = PathsOf(s) \cup PathsOf(t)
  BY <1>7 DEF PathsOf
<1> QED
  BY <1>2, <1>7, <1>8

\* No rows.
LEMMA EmptyRows ==
  /\ <<>> \in Seq(Records) /\ RowsOf(<<>>) = {} /\ PathsOf(<<>>) = {} /\ Distinct(<<>>)
  /\ Len(<<>>) = 0
BY EmptySeq DEF RowsOf, PathsOf, Distinct

\* Rows are records, and their paths are paths.
LEMMA RowsType ==
  ASSUME NEW s \in Seq(Records)
  PROVE  RowsOf(s) \subseteq Records /\ PathsOf(s) \subseteq Paths
<1>1. \A i \in DOMAIN s : s[i] \in Records
  BY LenProperties, ElementOfSeq
<1>2. RowsOf(s) \subseteq Records
  BY <1>1 DEF RowsOf
<1> QED
  BY <1>2 DEF PathsOf, Records

\* One more row.
LEMMA AppendRows ==
  ASSUME NEW s \in Seq(Records), NEW r \in Records
  PROVE  /\ Append(s, r) \in Seq(Records)
         /\ PathsOf(Append(s, r)) = PathsOf(s) \cup {r.path}
         /\ Distinct(s) /\ r.path \notin PathsOf(s) => Distinct(Append(s, r))
<1>1. Len(s) \in Nat /\ DOMAIN s = 1..Len(s)
  BY LenProperties
<1>2. /\ Append(s, r) \in Seq(Records)
      /\ Len(Append(s, r)) = Len(s) + 1
      /\ \A i \in 1..Len(s) : Append(s, r)[i] = s[i]
      /\ Append(s, r)[Len(s) + 1] = r
  BY AppendProperties
<1>3. DOMAIN Append(s, r) = 1..(Len(s) + 1)
  BY <1>2, LenProperties
<1>4. \A i \in DOMAIN Append(s, r) :
        \/ i \in DOMAIN s /\ Append(s, r)[i] = s[i]
        \/ i = Len(s) + 1 /\ Append(s, r)[i] = r
  BY <1>1, <1>2, <1>3
<1>5. /\ \A i \in DOMAIN s : i \in DOMAIN Append(s, r) /\ Append(s, r)[i] = s[i]
      /\ Len(s) + 1 \in DOMAIN Append(s, r)
  BY <1>1, <1>2, <1>3
<1>6. RowsOf(Append(s, r)) = RowsOf(s) \cup {r}
  BY <1>2, <1>4, <1>5 DEF RowsOf
<1>7. PathsOf(Append(s, r)) = PathsOf(s) \cup {r.path}
  BY <1>6 DEF PathsOf
<1>8. \A i \in DOMAIN s : s[i].path \in PathsOf(s)
  BY DEF PathsOf, RowsOf
<1>9. ASSUME Distinct(s), r.path \notin PathsOf(s)
      PROVE  Distinct(Append(s, r))
  BY <1>4, <1>8, <1>9 DEF Distinct
<1> QED
  BY <1>2, <1>7, <1>9

\* The rows a resumed run reuses are rows of the journal, each once.
LEMMA SubSequenceRows ==
  ASSUME NEW s \in Seq(Records), NEW rows \in SubSequences(s)
  PROVE  /\ rows \in Seq(Records) /\ RowsOf(rows) \subseteq RowsOf(s)
         /\ Distinct(s) => Distinct(rows)
<1>0. PICK n \in 0..Len(s) : \E at \in [1..n -> DOMAIN s] :
        /\ \A i, j \in 1..n : i < j => at[i] < at[j]
        /\ rows = [i \in 1..n |-> s[at[i]]]
  BY DEF SubSequences
<1>1. PICK at \in [1..n -> DOMAIN s] :
        /\ \A i, j \in 1..n : i < j => at[i] < at[j]
        /\ rows = [i \in 1..n |-> s[at[i]]]
  BY <1>0
<1>2. Len(s) \in Nat /\ DOMAIN s = 1..Len(s) /\ \A i \in DOMAIN s : s[i] \in Records
  BY LenProperties, ElementOfSeq
<1>3. n \in Nat /\ \A i \in 1..n : at[i] \in DOMAIN s
  BY <1>1, <1>2
<1>4. rows \in [1..n -> Records]
  BY <1>1, <1>2, <1>3
<1>5. rows \in Seq(Records)
  BY <1>3, <1>4, SeqDef
<1>6. DOMAIN rows = 1..n /\ \A i \in 1..n : rows[i] = s[at[i]]
  BY <1>1
<1>7. RowsOf(rows) \subseteq RowsOf(s)
  BY <1>3, <1>6 DEF RowsOf
<1>8. ASSUME NEW i \in 1..n, NEW j \in 1..n, at[i] = at[j]
      PROVE  i = j
  <2>1. at[i] \in Int /\ at[j] \in Int /\ i \in Int /\ j \in Int
    BY <1>2, <1>3
  <2>2. ~(i < j) /\ ~(j < i)
    BY <1>1, <1>8, <2>1
  <2> QED
    BY <2>1, <2>2
<1>9. Distinct(s) => Distinct(rows)
  BY <1>3, <1>6, <1>8 DEF Distinct
<1> QED
  BY <1>5, <1>7, <1>9

-----------------------------------------------------------------------------
(* Types *)

\* The context in use is one of the two files.
LEMMA ContextType ==
  ASSUME TypeOK
  PROVE  /\ Loadable => Context \in Contexts
         /\ Loadable \/ ~booted => Written \in Seq(Records)
<1>1. Loadable => Context \in Contexts
  BY DEF TypeOK, Loadable, Context
<1>2. Loadable => Context.trailer \in Seq(Records)
  BY <1>1 DEF Contexts
<1> QED
  BY <1>1, <1>2, EmptyRows DEF Written

\* Rows put at the end of the last of two runs of rows.
LEMMA ConcatMoves ==
  ASSUME NEW s \in Seq(Records), NEW t \in Seq(Records), NEW u \in Seq(Records)
  PROVE  s \o (t \o u) = (s \o t) \o u
BY ConcatAssociative

\* What the rows of the run are made of.
LEMMA RunRowsAre ==
  ASSUME TypeOK, Control
  PROVE  /\ Written \in Seq(Records)
         /\ Written \o pending \in Seq(Records) /\ RunRows \in Seq(Records)
         /\ RunRows = (Written \o pending) \o sink
         /\ IsPrefix(Written, Written \o pending)
         /\ IsPrefix(Written \o pending, RunRows)
         /\ IsPrefix(pending \o sink, pending \o sink)
         /\ pending \o sink \in Seq(Records)
<1>1. Written \in Seq(Records) /\ pending \in Seq(Records) /\ sink \in Seq(Records)
  BY ContextType DEF TypeOK, Control
<1>2. Written \o pending \in Seq(Records) /\ pending \o sink \in Seq(Records)
  BY <1>1, ConcatRows
<1>3. RunRows = (Written \o pending) \o sink
  BY <1>1, ConcatAssociative DEF RunRows
<1>4. RunRows \in Seq(Records)
  BY <1>1, <1>2, <1>3, ConcatRows
<1>5. IsPrefix(Written, Written \o pending) /\ IsPrefix(Written \o pending, RunRows)
  BY <1>1, <1>2, <1>3, PrefixOrder
<1> QED
  BY <1>1, <1>2, <1>3, <1>4, <1>5, PrefixOrder

\* A row of the sequence the append works on.
LEMMA PendingRow ==
  ASSUME TypeOK, pos < Len(pending)
  PROVE  pending[pos + 1] \in Records /\ pos + 1 \in Nat /\ pos + 1 <= Len(pending)
<1>1. pending \in Seq(Records) /\ pos \in Nat
  BY DEF TypeOK
<1>2. Len(pending) \in Nat
  BY <1>1, LenProperties
<1>3. pos + 1 \in 1..Len(pending)
  BY <1>1, <1>2
<1> QED
  BY <1>1, <1>2, <1>3, ElementOfSeq

\* The declared rows are where an append starts, whatever lies behind them.
LEMMA DeclaredRows ==
  ASSUME TypeOK, Control, OrphansArePending, booted
  PROVE  SubSeq(journal, 1, Len(Context.trailer)) = Written
<1>1. Written = Context.trailer /\ Written \in Seq(Records)
  BY RunRowsAre DEF Written
<1> QED
  BY <1>1, SubSeqFull DEF OrphansArePending, IsPrefix

\* Every step keeps the types.
LEMMA TypeInvariant ==
  ASSUME TypeOK, Control, OrphansArePending, Next
  PROVE  TypeOK'
<1> USE EmptyRows DEF fileVars, runVars, rowVars, saveVars, States
<1>1. ASSUME NEW rows \in Seq(Records), NEW m \in Modes, NEW isFresh \in BOOLEAN,
             Begin(rows, m, isFresh), acked' \in SUBSET Records
      PROVE  TypeOK'
  <2>1. pumping' \in BOOLEAN
    <3>1. pumping' \in (IF left' = {} THEN {FALSE} ELSE BOOLEAN)
      BY <1>1 DEF Begin
    <3> QED  BY <3>1
  <2>2. left' \in SUBSET Paths
    BY <1>1 DEF Begin
  <2>3. run' \in Nat
    BY <1>1 DEF Begin, TypeOK
  <2> QED
    BY <1>1, <2>1, <2>2, <2>3 DEF Begin, TypeOK
<1>2. CASE StartFresh
  BY <1>1, <1>2 DEF StartFresh, TypeOK
<1>3. CASE StartResumed
  <2>1. Context.mode \in Modes
    BY <1>3, ContextType DEF StartResumed, Contexts
  <2>2. journal \in Seq(Records) /\ acked \in SUBSET Records
    BY DEF TypeOK
  <2>3. PICK rows \in SubSequences(journal) :
          /\ Begin(rows, Context.mode, FALSE)
          /\ acked' = acked \cap RowsOf(rows)
    BY <1>3 DEF StartResumed
  <2>4. rows \in Seq(Records)
    BY <2>2, <2>3, SubSequenceRows
  <2> QED
    BY <1>1, <2>1, <2>2, <2>3, <2>4
<1>4. CASE Capture
  <2>1. PICK p \in left : sink' = Append(sink, [path |-> p, mode |-> mode])
                            /\ left' = left \ {p}
    BY <1>4 DEF Capture
  <2>2. [path |-> p, mode |-> mode] \in Records
    BY DEF TypeOK, Records
  <2>3. sink' \in Seq(Records)
    BY <2>1, <2>2, AppendRows DEF TypeOK
  <2> QED
    BY <1>4, <2>1, <2>3 DEF Capture, TypeOK
<1>5. CASE CaptureFails
  BY <1>5 DEF CaptureFails, TypeOK
<1>6. CASE RequestCancel
  BY <1>6 DEF RequestCancel, TypeOK
<1>7. CASE CompareEnds
  <2>1. ok' \in BOOLEAN
    <3>1. ok' \in {left = {}, FALSE}
      BY <1>7 DEF CompareEnds
    <3> QED  BY <3>1
  <2> QED
    BY <1>7, <2>1 DEF CompareEnds, TypeOK
<1>8. pending \o sink \in Seq(Records)
  BY RunRowsAre
<1>9. CASE PumpSaves
  BY <1>8, <1>9 DEF PumpSaves, BeginSave, TypeOK
<1>10. CASE FinalSave
  <2>1. CASE FinalState # None
    <3>1. FinalState \in States
      BY <2>1 DEF FinalState
    <3>2. BeginSave(FinalState) /\ phase' = "final"
      BY <1>10, <2>1 DEF FinalSave
    <3> QED
      BY <1>8, <1>10, <3>1, <3>2 DEF FinalSave, BeginSave, TypeOK
  <2>2. CASE FinalState = None
    <3>1. phase' = "off" /\ UNCHANGED <<rowVars, saveVars>>
      BY <1>10, <2>2 DEF FinalSave
    <3> QED
      BY <1>10, <3>1 DEF FinalSave, TypeOK
  <2> QED
    BY <2>1, <2>2
<1>11. CASE SaveJournal
  BY <1>11 DEF SaveJournal, Saving, ReplaceJournal, TypeOK
<1>12. CASE ReadTrailer
  <2>1. booted
    BY <1>12 DEF ReadTrailer, Saving, Control
  <2>2. Written = Context.trailer /\ Written \in Seq(Records)
    BY <2>1, RunRowsAre DEF Written
  <2>3. journal' \in Seq(Records)
    BY <1>12, <2>1, <2>2, DeclaredRows DEF ReadTrailer, DropTail
  <2>4. trailer' \in Seq(Records)
    BY <1>12, <2>2, RunRowsAre DEF ReadTrailer
  <2> QED
    BY <1>12, <2>3, <2>4 DEF ReadTrailer, Saving, DropTail, TypeOK
<1>13. CASE AppendNext
  <2>1. pending[pos + 1] \in Records /\ pos + 1 \in Nat
    BY <1>13, PendingRow DEF AppendNext
  <2>2. Append(journal, pending[pos + 1]) \in Seq(Records)
    BY <2>1, AppendRows DEF TypeOK
  <2>3. AppendRow(pending[pos + 1]) /\ Saving("append", "append")
        /\ pos' = pos + 1 /\ UNCHANGED <<trailer, acked>>
    BY <1>13 DEF AppendNext
  <2>4. journal' \in Seq(Records) /\ torn' \in Records \cup {None}
    BY <2>1, <2>2, <2>3 DEF AppendRow, TypeOK
  <2> QED
    BY <2>1, <2>3, <2>4 DEF AppendRow, Saving, TypeOK
<1>14. CASE AppendEnds
  BY <1>14 DEF AppendEnds, Saving, TypeOK
<1>15. CASE RotateContext
  BY <1>15 DEF RotateContext, Rotate, Saving, TypeOK
<1>16. CASE WriteContext
  <2>1. RowsOf(trailer) \subseteq Records
    BY RowsType DEF TypeOK
  <2>2. [mode |-> mode, state |-> goal, trailer |-> trailer, missed |-> missed] \in Contexts
    BY DEF TypeOK, Contexts
  <2> QED
    BY <1>16, <2>1, <2>2 DEF WriteContext, PutContext, TypeOK
<1>17. CASE SaveFails
  BY <1>17 DEF SaveFails, TypeOK
<1>18. CASE Crash
  BY <1>18 DEF Crash, TypeOK
<1> QED
  BY <1>2, <1>3, <1>4, <1>5, <1>6, <1>7, <1>9, <1>10, <1>11, <1>12, <1>13, <1>14, <1>15,
     <1>16, <1>17, <1>18 DEF Next, SaveStep

-----------------------------------------------------------------------------
(* What one step does to the invariant *)

\* A step that leaves the files, the pending rows and the history alone keeps
\* what the invariant says of them.
LEMMA FilesStand ==
  ASSUME IInv, UNCHANGED <<fileVars, booted, fresh, pending, acked>>
  PROVE  /\ Written' = Written
         /\ OrphansArePending' /\ AckedStands' /\ CompletedStands'
         /\ CheckpointSurvives' /\ NoDuplicateRows'
<1> USE DEF fileVars
<1>1. Context' = Context
  BY DEF Context
<1>2. Written' = Written
  BY <1>1 DEF Written
<1>3. OrphansArePending'
  BY <1>2 DEF IInv, OrphansArePending
<1>4. AckedStands'
  BY <1>2 DEF IInv, AckedStands
<1>5. CompletedStands'
  BY DEF IInv, CompletedStands
<1>6. CheckpointSurvives'
  BY <1>1 DEF IInv, CheckpointSurvives, Loadable
<1>7. NoDuplicateRows'
  BY DEF IInv, NoDuplicateRows
<1> QED
  BY <1>2, <1>3, <1>4, <1>5, <1>6, <1>7

\* A run begins with the rows it reuses as its pending ones.
LEMMA BeginStep ==
  ASSUME IInv, TypeOK', NEW rows \in Seq(Records), Distinct(rows),
         NEW m, NEW isFresh \in BOOLEAN, Begin(rows, m, isFresh),
         acked' \subseteq acked, ~isFresh => acked' \subseteq RowsOf(rows)
  PROVE  IInv'
<1> USE DEF IInv, Begin, fileVars, saveVars
<1>1. Idle /\ Idle'
  BY DEF Control, Alive, Idle
<1>2. Control'
  BY <1>1 DEF Control, Alive, Idle, TypeOK
<1>3. RowsApart'
  <2>1. RunRows' = <<>> \o (rows \o <<>>)
    BY DEF RunRows, Written
  <2>2. RunRows' = rows
    BY <2>1, ConcatEmptySeq
  <2>3. PathsOf(rows) \subseteq Paths
    BY RowsType
  <2>4. left' = Paths \ PathsOf(rows)
    BY DEF PathsOf
  <2> QED
    BY <2>2, <2>3, <2>4 DEF RowsApart
<1>4. OrphansArePending' /\ AppendStands' /\ JournalStands'
  BY <1>1 DEF OrphansArePending, AppendStands, JournalStands, Idle
<1>5. AckedStands'
  BY DEF AckedStands
<1>6. CompletedStands' /\ NoDuplicateRows'
  BY DEF CompletedStands, NoDuplicateRows
<1>7. CheckpointSurvives'
  BY DEF CheckpointSurvives, Loadable, Context
<1>8. ReportedSaveIsOnDisk'
  BY DEF ReportedSaveIsOnDisk, Alive
<1> QED
  BY <1>2, <1>3, <1>4, <1>5, <1>6, <1>7, <1>8

\* A new session starts.
LEMMA StartFreshStep ==
  ASSUME IInv, TypeOK', StartFresh
  PROVE  IInv'
BY BeginStep, EmptyRows DEF StartFresh

\* A session is resumed from its files.
LEMMA StartResumedStep ==
  ASSUME IInv, TypeOK', StartResumed
  PROVE  IInv'
<1>1. PICK rows \in SubSequences(journal) :
        /\ Begin(rows, Context.mode, FALSE)
        /\ acked' = acked \cap RowsOf(rows)
  BY DEF StartResumed
<1>2. journal \in Seq(Records) /\ Distinct(journal)
  BY DEF IInv, TypeOK, NoDuplicateRows, Distinct
<1>3. rows \in Seq(Records) /\ Distinct(rows)
  BY <1>1, <1>2, SubSequenceRows
<1> QED
  BY <1>1, <1>3, BeginStep

\* A captured path leaves the ones to come and gets its row.
LEMMA CaptureStep ==
  ASSUME IInv, TypeOK', Capture
  PROVE  IInv'
<1> USE DEF Capture, fileVars, runVars, saveVars
<1>1. PICK p \in left : left' = left \ {p}
                          /\ sink' = Append(sink, [path |-> p, mode |-> mode])
  OBVIOUS
<1> DEFINE r == [path |-> p, mode |-> mode]
<1>2. r \in Records /\ r.path = p /\ p \in Paths
  BY DEF IInv, TypeOK, Records
<1>3. /\ Written' = Written
      /\ OrphansArePending' /\ AckedStands' /\ CompletedStands'
      /\ CheckpointSurvives' /\ NoDuplicateRows'
  BY FilesStand
<1>4. Control'
  BY <1>1 DEF IInv, Control, Alive, Idle, Loadable, Context
<1>5. RowsApart'
  <2>1. /\ Written \o pending \in Seq(Records) /\ sink \in Seq(Records)
        /\ Written \in Seq(Records) /\ pending \in Seq(Records)
        /\ RunRows \in Seq(Records) /\ RunRows = (Written \o pending) \o sink
    BY RunRowsAre DEF IInv, TypeOK
  <2>2. /\ <<r>> \in Seq(Records) /\ sink' = sink \o <<r>>
        /\ Append(RunRows, r) = RunRows \o <<r>>
    <3>1. Append(sink, r) = sink \o <<r>> /\ Append(RunRows, r) = RunRows \o <<r>>
      BY <1>2, <2>1, AppendIsConcat
    <3>2. <<r>> \in Seq(Records)
      BY <1>2
    <3> QED  BY <1>1, <3>1, <3>2
  <2>3. RunRows' = Append(RunRows, r)
    <3> DEFINE last == <<r>>
               rest == pending \o sink
    <3>1. /\ Written \in Seq(Records) /\ pending \in Seq(Records) /\ sink \in Seq(Records)
          /\ last \in Seq(Records) /\ rest \in Seq(Records)
      BY <2>1, <2>2, ConcatRows
    <3>2. RunRows' = Written \o (pending \o (sink \o last))
      BY <1>3, <2>2 DEF RunRows
    <3>3. RunRows = Written \o rest /\ Append(RunRows, r) = RunRows \o last
      BY <2>2 DEF RunRows
    <3> HIDE DEF last
    <3>4. pending \o (sink \o last) = (pending \o sink) \o last
      BY <3>1, ConcatMoves
    <3> HIDE DEF rest
    <3>5. Written \o (rest \o last) = (Written \o rest) \o last
      <4> DEFINE w == Written
      <4>1. w \in Seq(Records) /\ rest \in Seq(Records) /\ last \in Seq(Records)
        BY <3>1
      <4> HIDE DEF w
      <4>2. w \o (rest \o last) = (w \o rest) \o last
        BY <4>1, ConcatMoves
      <4> QED  BY <4>2 DEF w
    <3> QED  BY <3>2, <3>3, <3>4, <3>5 DEF rest
  <2>4. Distinct(RunRows) /\ left \cap missed = {} /\ run' = run /\ missed' = missed
    BY DEF IInv, RowsApart
  <2>5. PathsOf(RunRows) = Paths \ (left \cup missed)
    BY DEF IInv, RowsApart, Control, Alive
  <2>6. p \notin PathsOf(RunRows) /\ p \notin missed
    BY <2>4, <2>5
  <2>7. /\ Distinct(Append(RunRows, r))
        /\ PathsOf(Append(RunRows, r)) = PathsOf(RunRows) \cup {p}
    BY <1>2, <2>1, <2>4, <2>6, AppendRows
  <2> QED
    BY <1>1, <1>2, <2>3, <2>4, <2>5, <2>6, <2>7 DEF RowsApart
<1>6. AppendStands' /\ JournalStands'
  BY <1>3 DEF IInv, AppendStands, JournalStands
<1>7. ReportedSaveIsOnDisk'
  BY DEF ReportedSaveIsOnDisk, Alive
<1> QED
  BY <1>3, <1>4, <1>5, <1>6, <1>7 DEF IInv

\* A row cannot be captured.
LEMMA CaptureFailsStep ==
  ASSUME IInv, TypeOK', CaptureFails
  PROVE  IInv'
<1> USE DEF CaptureFails, fileVars, runVars, saveVars
<1>1. /\ Written' = Written
      /\ OrphansArePending' /\ AckedStands' /\ CompletedStands'
      /\ CheckpointSurvives' /\ NoDuplicateRows'
  BY FilesStand
<1>2. PICK p \in left : left' = left \ {p} /\ missed' = missed \cup {p}
  OBVIOUS
<1>3. Control'
  BY <1>2 DEF IInv, Control, Alive, Idle, Loadable, Context
<1>4. RowsApart'
  <2>1. RunRows' = RunRows
    BY <1>1 DEF RunRows
  <2>2. left' \cup missed' = left \cup missed /\ left' \cap missed' = {}
    BY <1>2 DEF IInv, RowsApart
  <2> QED
    BY <2>1, <2>2 DEF IInv, RowsApart
<1>5. AppendStands' /\ JournalStands'
  BY <1>1 DEF IInv, AppendStands, JournalStands
<1>6. ReportedSaveIsOnDisk'
  BY DEF ReportedSaveIsOnDisk, Alive
<1> QED
  BY <1>1, <1>3, <1>4, <1>5, <1>6 DEF IInv

\* The user cancels.
LEMMA RequestCancelStep ==
  ASSUME IInv, TypeOK', RequestCancel
  PROVE  IInv'
<1> USE DEF RequestCancel, fileVars, rowVars, saveVars
<1>1. /\ Written' = Written
      /\ OrphansArePending' /\ AckedStands' /\ CompletedStands'
      /\ CheckpointSurvives' /\ NoDuplicateRows'
  BY FilesStand
<1>2. Control'
  BY DEF IInv, Control, Alive, Idle, Loadable, Context
<1>3. RowsApart'
  BY <1>1 DEF IInv, RowsApart, RunRows
<1>4. AppendStands' /\ JournalStands'
  BY <1>1 DEF IInv, AppendStands, JournalStands
<1>5. ReportedSaveIsOnDisk'
  BY DEF ReportedSaveIsOnDisk, Alive
<1> QED
  BY <1>1, <1>2, <1>3, <1>4, <1>5 DEF IInv

\* The comparison is over.
LEMMA CompareEndsStep ==
  ASSUME IInv, TypeOK', CompareEnds
  PROVE  IInv'
<1> USE DEF CompareEnds, fileVars, rowVars, saveVars
<1>1. /\ Written' = Written
      /\ OrphansArePending' /\ AckedStands' /\ CompletedStands'
      /\ CheckpointSurvives' /\ NoDuplicateRows'
  BY FilesStand
<1>2. Control'
  <2>1. ok' => left' = {}
    OBVIOUS
  <2>2. ~(~Idle' /\ goal' = "Completed")
    BY DEF IInv, Control, Idle
  <2> QED
    BY <2>1, <2>2 DEF IInv, Control, Alive, Idle, Loadable, Context
<1>3. RowsApart'
  BY <1>1 DEF IInv, RowsApart, RunRows
<1>4. AppendStands' /\ JournalStands'
  BY <1>1 DEF IInv, AppendStands, JournalStands
<1>5. ReportedSaveIsOnDisk'
  BY DEF ReportedSaveIsOnDisk, Alive
<1> QED
  BY <1>1, <1>2, <1>3, <1>4, <1>5 DEF IInv

\* A save starts: the captured rows become pending ones.
LEMMA BeginSaveStep ==
  ASSUME IInv, TypeOK', NEW state, BeginSave(state), Idle,
         UNCHANGED <<fileVars, run, fresh, booted, acked>>
  PROVE  /\ RowsApart' /\ OrphansArePending' /\ AppendStands' /\ JournalStands'
         /\ AckedStands' /\ CompletedStands' /\ CheckpointSurvives' /\ NoDuplicateRows'
<1> USE DEF BeginSave, fileVars
<1>1. Context' = Context
  BY DEF Context
<1>2. Written' = Written
  BY <1>1 DEF Written
<1>3. /\ pending \in Seq(Records) /\ sink \in Seq(Records)
      /\ Written \in Seq(Records) /\ pending \o sink \in Seq(Records)
      /\ Written \o pending \in Seq(Records) /\ RunRows \in Seq(Records)
      /\ IsPrefix(Written \o pending, RunRows) /\ journal \in Seq(Records)
  BY RunRowsAre DEF IInv, TypeOK
<1>4. RunRows' = RunRows
  <2>1. (pending \o sink) \o <<>> = pending \o sink
    BY <1>3, ConcatEmptySeq
  <2> QED
    BY <1>2, <2>1 DEF RunRows
<1>5. RowsApart'
  BY <1>4 DEF IInv, RowsApart
<1>6. OrphansArePending'
  <2>1. ASSUME booted
        PROVE  IsPrefix(Written, journal) /\ IsPrefix(journal, Written \o (pending \o sink))
    <3>1. IsPrefix(Written, journal) /\ IsPrefix(journal, Written \o pending)
      BY <2>1 DEF IInv, OrphansArePending
    <3>2. \A r \in Seq(Records) :
            IsPrefix(r, Written \o pending) /\ IsPrefix(Written \o pending, RunRows)
              => IsPrefix(r, RunRows)
      BY <1>3, PrefixOrder
    <3>3. IsPrefix(journal, RunRows)
      BY <1>3, <3>1, <3>2
    <3> QED
      BY <3>1, <3>3 DEF RunRows
  <2> QED
    BY <1>2, <2>1 DEF OrphansArePending
<1>7. AppendStands' /\ JournalStands'
  BY DEF AppendStands, JournalStands
<1>8. AckedStands'
  <2>1. RowsOf(pending) \subseteq RowsOf(pending \o sink)
    BY <1>3, ConcatRows
  <2> QED
    BY <1>2, <2>1 DEF IInv, AckedStands
<1>9. CompletedStands' /\ CheckpointSurvives' /\ NoDuplicateRows'
  BY <1>1 DEF IInv, CompletedStands, CheckpointSurvives, NoDuplicateRows, Loadable
<1> QED
  BY <1>5, <1>6, <1>7, <1>8, <1>9

\* The pump thread begins a save.
LEMMA PumpSavesStep ==
  ASSUME IInv, TypeOK', PumpSaves
  PROVE  IInv'
<1> USE DEF PumpSaves, fileVars, runVars
<1>1. /\ RowsApart' /\ OrphansArePending' /\ AppendStands' /\ JournalStands'
      /\ AckedStands' /\ CompletedStands' /\ CheckpointSurvives' /\ NoDuplicateRows'
  BY BeginSaveStep
<1>2. Control'
  BY DEF BeginSave, IInv, Control, Alive, Idle, Loadable, Context
<1>3. ReportedSaveIsOnDisk'
  BY DEF ReportedSaveIsOnDisk, Alive
<1> QED
  BY <1>1, <1>2, <1>3 DEF IInv

\* The last save begins.
LEMMA FinalSaveStep ==
  ASSUME IInv, TypeOK', FinalSave
  PROVE  IInv'
<1> USE DEF FinalSave, fileVars, rowVars, saveVars
<1>1. CASE FinalState # None
  <2>1. BeginSave(FinalState) /\ phase' = "final"
    BY <1>1
  <2>2. /\ RowsApart' /\ OrphansArePending' /\ AppendStands' /\ JournalStands'
        /\ AckedStands' /\ CompletedStands' /\ CheckpointSurvives' /\ NoDuplicateRows'
    BY <2>1, BeginSaveStep
  <2>3. FinalState = "Completed" => ok
    BY <1>1 DEF FinalState
  <2>4. Control'
    BY <2>1, <2>3 DEF BeginSave, IInv, Control, Alive, Idle, Loadable, Context
  <2>5. ReportedSaveIsOnDisk'
    BY <2>1 DEF ReportedSaveIsOnDisk, Alive
  <2> QED
    BY <2>2, <2>4, <2>5 DEF IInv
<1>2. CASE FinalState = None
  <2>1. phase' = "off" /\ UNCHANGED <<rowVars, saveVars>>
    BY <1>2
  <2>2. /\ Written' = Written
        /\ OrphansArePending' /\ AckedStands' /\ CompletedStands'
        /\ CheckpointSurvives' /\ NoDuplicateRows'
    BY <2>1, FilesStand
  <2>3. Control'
    BY <2>1 DEF IInv, Control, Alive, Idle, Loadable, Context
  <2>4. RowsApart' /\ AppendStands' /\ JournalStands'
    BY <2>1, <2>2 DEF IInv, RowsApart, RunRows, AppendStands, JournalStands
  <2>5. ReportedSaveIsOnDisk'
    BY <2>1 DEF IInv, Control, ReportedSaveIsOnDisk, Alive
  <2> QED
    BY <2>2, <2>3, <2>4, <2>5 DEF IInv
<1> QED
  BY <1>1, <1>2

\* SaveSession: the journal becomes the pending rows, which hold what must survive.
LEMMA SaveJournalStep ==
  ASSUME IInv, TypeOK', SaveJournal
  PROVE  IInv'
<1> USE DEF SaveJournal, Saving, ReplaceJournal, rowVars
<1>1. ~booted /\ ~booted' /\ Written = <<>> /\ Written' = <<>>
  BY DEF IInv, Control, Written
<1>2. /\ pending \in Seq(Records) /\ <<>> \o pending = pending
      /\ Distinct(RunRows) /\ IsPrefix(pending, RunRows) /\ RunRows \in Seq(Records)
  <2>1. pending \in Seq(Records)
    BY DEF IInv, TypeOK
  <2>2. <<>> \o pending = pending
    BY <2>1, ConcatEmptySeq
  <2>3. IsPrefix(Written \o pending, RunRows) /\ RunRows \in Seq(Records)
    BY RunRowsAre DEF IInv
  <2> QED
    BY <1>1, <2>1, <2>2, <2>3 DEF IInv, RowsApart
<1>3. Control'
  BY <1>1 DEF IInv, Control, Alive, Idle
<1>4. RowsApart'
  BY <1>1 DEF IInv, RowsApart, RunRows
<1>5. OrphansArePending' /\ AppendStands'
  BY <1>1 DEF OrphansArePending, AppendStands
<1>6. JournalStands'
  BY <1>1, <1>2 DEF JournalStands
<1>7. acked' \subseteq RowsOf(pending) /\ (acked' # {} => Loadable')
  <2>1. CASE fresh
    BY <2>1
  <2>2. CASE ~fresh
    BY <1>1, <2>2 DEF IInv, AckedStands, CheckpointSurvives, Loadable, Context
  <2> QED
    BY <2>1, <2>2
<1>8. AckedStands' /\ CheckpointSurvives'
  BY <1>1, <1>7 DEF AckedStands, CheckpointSurvives
<1>9. CompletedStands'
  BY DEF IInv, CompletedStands
<1>10. NoDuplicateRows'
  <2>1. Distinct(pending)
    BY <1>2, PrefixRows
  <2> QED
    BY <2>1 DEF Distinct, NoDuplicateRows
<1>11. ReportedSaveIsOnDisk'
  BY DEF IInv, Control, Idle, Alive, ReportedSaveIsOnDisk
<1> QED
  BY <1>3, <1>4, <1>5, <1>6, <1>8, <1>9, <1>10, <1>11 DEF IInv

\* AppendJournal drops the orphans: the journal is what the context declares.
LEMMA ReadTrailerStep ==
  ASSUME IInv, TypeOK', ReadTrailer
  PROVE  IInv'
<1> USE DEF ReadTrailer, Saving, DropTail, rowVars
<1>1. booted /\ booted' /\ spc' = "append" /\ ~Idle
  BY DEF IInv, Control, Idle
<1>2. Context' = Context /\ Written' = Written /\ Written = Context.trailer
  BY <1>1 DEF Context, Written
<1>3. journal' = Written
  BY <1>1, DeclaredRows DEF IInv
<1>4. /\ Written \in Seq(Records) /\ pending \in Seq(Records)
      /\ Written \o pending \in Seq(Records)
      /\ IsPrefix(Written, Written \o pending) /\ IsPrefix(Written, Written)
      /\ IsPrefix(Written, RunRows) /\ RunRows \in Seq(Records)
  <2>1. /\ Written \in Seq(Records) /\ pending \in Seq(Records)
        /\ Written \o pending \in Seq(Records) /\ RunRows \in Seq(Records)
        /\ IsPrefix(Written, Written \o pending) /\ IsPrefix(Written \o pending, RunRows)
    BY RunRowsAre DEF IInv, TypeOK
  <2>2. \A r \in Seq(Records) :
          IsPrefix(r, Written \o pending) /\ IsPrefix(Written \o pending, RunRows)
            => IsPrefix(r, RunRows)
    BY <2>1, PrefixOrder
  <2> QED
    BY <2>1, <2>2, PrefixOrder
<1>5. Control'
  BY <1>1, <1>2 DEF IInv, Control, Alive, Idle, Loadable
<1>6. RowsApart'
  BY <1>2 DEF IInv, RowsApart, RunRows
<1>7. OrphansArePending'
  BY <1>2, <1>3, <1>4 DEF OrphansArePending
<1>8. AppendStands' /\ JournalStands'
  <2>1. Len(Written) \in Nat /\ Len(pending) \in Nat
    BY <1>4, LenProperties
  <2>2. Len(Written) + 0 = Len(Written) /\ 0 <= Len(pending)
    BY <2>1
  <2> QED
    BY <1>1, <1>2, <1>3, <2>2 DEF AppendStands, JournalStands
<1>9. AckedStands' /\ CheckpointSurvives'
  <2>1. acked' = RowsOf(Written)
    BY <1>1 DEF IInv, AckedStands
  <2> QED
    BY <1>1, <1>2, <1>3, <2>1 DEF AckedStands, CheckpointSurvives, Loadable
<1>10. CompletedStands'
  BY DEF IInv, CompletedStands
<1>11. NoDuplicateRows'
  <2>1. Distinct(Written)
    BY <1>4, PrefixRows DEF IInv, RowsApart
  <2> QED
    BY <1>3, <2>1 DEF Distinct, NoDuplicateRows
<1>12. ReportedSaveIsOnDisk'
  BY <1>1 DEF IInv, Control, Alive, ReportedSaveIsOnDisk
<1> QED
  BY <1>5, <1>6, <1>7, <1>8, <1>9, <1>10, <1>11, <1>12 DEF IInv

\* One row more, whole or in part, of those that the context will declare.
LEMMA AppendNextStep ==
  ASSUME IInv, TypeOK', AppendNext
  PROVE  IInv'
<1> USE DEF AppendNext, Saving, AppendRow, rowVars
<1>1. booted /\ booted' /\ spc' = "append" /\ ~Idle
  BY DEF IInv, Control, Idle
<1>2. Context' = Context /\ Written' = Written
  BY DEF Context, Written
<1>3. /\ Written \in Seq(Records) /\ pending \in Seq(Records) /\ journal \in Seq(Records)
      /\ Written \o pending \in Seq(Records) /\ RunRows \in Seq(Records)
      /\ IsPrefix(Written \o pending, RunRows)
  BY RunRowsAre DEF IInv, TypeOK
<1> DEFINE r == pending[pos + 1]
<1>4. r \in Records /\ pos + 1 \in Nat /\ pos + 1 <= Len(pending) /\ pos \in Nat
  BY PendingRow DEF IInv, TypeOK
<1>5. /\ Len(journal) = Len(Written) + pos /\ trailer = Written \o pending
      /\ IsPrefix(Written, journal) /\ IsPrefix(journal, Written \o pending)
  BY <1>1 DEF IInv, AppendStands, OrphansArePending
<1>6. /\ Append(journal, r) \in Seq(Records)
      /\ Len(Append(journal, r)) = Len(journal) + 1
      /\ IsPrefix(Written, Append(journal, r))
      /\ IsPrefix(Append(journal, r), Written \o pending)
  <2>1. /\ Append(journal, r) \in Seq(Records)
        /\ Len(Append(journal, r)) = Len(journal) + 1
        /\ \A i \in 1..Len(journal) : Append(journal, r)[i] = journal[i]
        /\ Append(journal, r)[Len(journal) + 1] = r
    BY <1>3, <1>4, AppendProperties
  <2>2. /\ Len(Written \o pending) = Len(Written) + Len(pending)
        /\ \A i \in 1..(Len(Written) + Len(pending)) :
             (Written \o pending)[i] = IF i <= Len(Written) THEN Written[i]
                                       ELSE pending[i - Len(Written)]
    BY <1>3, ConcatProperties
  <2>3. Len(Written) \in Nat /\ Len(pending) \in Nat /\ Len(journal) \in Nat
    BY <1>3, LenProperties
  <2>4. (Written \o pending)[Len(journal) + 1] = r
    <3>1. /\ Len(journal) + 1 \in 1..(Len(Written) + Len(pending))
          /\ ~(Len(journal) + 1 <= Len(Written))
          /\ Len(journal) + 1 - Len(Written) = pos + 1
      BY <1>4, <1>5, <2>3
    <3> QED  BY <2>2, <3>1
  <2>5. \A i \in 1..Len(journal) : journal[i] = (Written \o pending)[i]
    BY <1>3, <1>5, PrefixIs
  <2>6. \A i \in 1..Len(Append(journal, r)) :
          i \in 1..Len(journal) \/ i = Len(journal) + 1
    BY <2>1, <2>3
  <2>7. \A i \in 1..Len(Append(journal, r)) : Append(journal, r)[i] = (Written \o pending)[i]
    BY <2>1, <2>4, <2>5, <2>6
  <2>8. Len(Append(journal, r)) <= Len(Written \o pending)
    BY <1>4, <1>5, <2>1, <2>2, <2>3
  <2>9. IsPrefix(Append(journal, r), Written \o pending)
    BY <1>3, <2>1, <2>7, <2>8, PrefixIs
  <2>10. /\ Len(Written) <= Len(journal)
         /\ \A i \in 1..Len(Written) : Written[i] = journal[i]
    BY <1>3, <1>5, PrefixIs
  <2>11. /\ Len(Written) <= Len(Append(journal, r))
         /\ \A i \in 1..Len(Written) : Written[i] = Append(journal, r)[i]
    BY <2>1, <2>3, <2>10
  <2>12. IsPrefix(Written, Append(journal, r))
    BY <1>3, <2>1, <2>11, PrefixIs
  <2> QED
    BY <2>1, <2>9, <2>12
<1>7. \/ journal' = Append(journal, r) /\ torn' = torn
      \/ journal' = journal /\ torn' # None
  <2>1. r # None
    BY <1>4, CheckpointingAssumption
  <2> QED
    BY <2>1
<1> HIDE DEF r
<1>8. /\ journal' \in Seq(Records)
      /\ IsPrefix(Written, journal') /\ IsPrefix(journal', Written \o pending)
  BY <1>3, <1>5, <1>6, <1>7
<1>9. Control'
  BY <1>1, <1>2 DEF IInv, Control, Alive, Idle, Loadable
<1>10. RowsApart'
  BY <1>2 DEF IInv, RowsApart, RunRows
<1>11. OrphansArePending'
  BY <1>2, <1>8 DEF OrphansArePending
<1>12. AppendStands' /\ JournalStands'
  <2>1. torn' = None => Len(journal') = Len(Written) + (pos + 1)
    <3>1. Len(Written) \in Nat
      BY <1>3, LenProperties
    <3> QED  BY <1>4, <1>5, <1>6, <1>7, <3>1
  <2> QED
    BY <1>1, <1>2, <1>4, <1>5, <2>1 DEF AppendStands, JournalStands
<1>13. AckedStands'
  BY <1>2 DEF IInv, AckedStands
<1>14. CheckpointSurvives'
  <2>1. RowsOf(Written) \subseteq RowsOf(journal')
    BY <1>3, <1>8, PrefixRows
  <2> QED
    BY <1>1, <1>2, <2>1 DEF IInv, AckedStands, CheckpointSurvives, Control, Loadable
<1>15. CompletedStands'
  BY DEF IInv, CompletedStands
<1>16. NoDuplicateRows'
  <2>1. Distinct(Written \o pending)
    BY <1>3, PrefixRows DEF IInv, RowsApart
  <2>2. Distinct(journal')
    BY <1>3, <1>8, <2>1, PrefixRows
  <2> QED
    BY <2>2 DEF Distinct, NoDuplicateRows
<1>17. ReportedSaveIsOnDisk'
  BY <1>1 DEF IInv, Control, Alive, ReportedSaveIsOnDisk
<1> QED
  BY <1>9, <1>10, <1>11, <1>12, <1>13, <1>14, <1>15, <1>16, <1>17 DEF IInv

\* After the last row the journal is what the context will declare.
LEMMA AppendEndsStep ==
  ASSUME IInv, TypeOK', AppendEnds
  PROVE  IInv'
<1> USE DEF AppendEnds, Saving, fileVars, rowVars
<1>1. /\ Written' = Written
      /\ OrphansArePending' /\ AckedStands' /\ CompletedStands'
      /\ CheckpointSurvives' /\ NoDuplicateRows'
  <2>1. fresh' = fresh
    OBVIOUS
  <2> QED
    BY <2>1, FilesStand
<1>2. Control'
  BY DEF IInv, Control, Alive, Idle, Loadable, Context
<1>3. RowsApart'
  BY <1>1 DEF IInv, RowsApart, RunRows
<1>4. AppendStands'
  BY DEF AppendStands
<1>5. JournalStands'
  <2>1. /\ Written \in Seq(Records) /\ pending \in Seq(Records) /\ journal \in Seq(Records)
        /\ Written \o pending \in Seq(Records)
    BY RunRowsAre DEF IInv, TypeOK
  <2>2. /\ trailer = Written \o pending /\ Len(journal) = Len(Written) + Len(pending)
        /\ IsPrefix(journal, Written \o pending)
    BY DEF IInv, AppendStands, OrphansArePending, Control
  <2>3. Len(Written \o pending) = Len(Written) + Len(pending)
    BY <2>1, ConcatProperties
  <2>4. journal = Written \o pending
    BY <2>1, <2>2, <2>3, WholePrefix
  <2> QED
    BY <1>1, <2>2, <2>4 DEF JournalStands
<1>6. ReportedSaveIsOnDisk'
  BY DEF IInv, Control, Idle, Alive, ReportedSaveIsOnDisk
<1> QED
  BY <1>1, <1>2, <1>3, <1>4, <1>5, <1>6 DEF IInv

\* The context becomes .prev and is still the one in use.
LEMMA RotateContextStep ==
  ASSUME IInv, TypeOK', RotateContext
  PROVE  IInv'
<1> USE DEF RotateContext, Rotate, Saving, rowVars
<1>1. Context' = Context /\ Written' = Written
  BY DEF Context, Written
<1>2. Control'
  BY <1>1 DEF IInv, Control, Alive, Idle, Loadable
<1>3. RowsApart'
  BY <1>1 DEF IInv, RowsApart, RunRows
<1>4. OrphansArePending' /\ AppendStands' /\ JournalStands'
  BY <1>1 DEF IInv, OrphansArePending, AppendStands, JournalStands
<1>5. AckedStands' /\ CheckpointSurvives' /\ NoDuplicateRows'
  BY <1>1 DEF IInv, AckedStands, CheckpointSurvives, NoDuplicateRows, Loadable
<1>6. CompletedStands'
  <2>1. {main', prev'} \ {None} \subseteq {main, prev} \ {None}
    OBVIOUS
  <2> QED
    BY <2>1 DEF IInv, CompletedStands
<1>7. ReportedSaveIsOnDisk'
  BY DEF IInv, Control, Idle, Alive, ReportedSaveIsOnDisk
<1> QED
  BY <1>2, <1>3, <1>4, <1>5, <1>6, <1>7 DEF IInv

\* The save is done: what was pending is declared.
LEMMA WriteContextStep ==
  ASSUME IInv, TypeOK', WriteContext
  PROVE  IInv'
<1> USE DEF WriteContext, PutContext
<1> DEFINE ctx == [mode |-> mode, state |-> goal, trailer |-> trailer, missed |-> missed]
<1>1. ctx \in Contexts /\ ctx # None
  <2>1. ctx \in Contexts
    BY DEF IInv, TypeOK, Contexts
  <2> QED
    BY <2>1, CheckpointingAssumption
<1>2. main' = ctx /\ prev' = prev /\ Context' = ctx /\ Written' = trailer
  BY <1>1 DEF Context, Written
<1>3. /\ trailer = Written \o pending /\ journal = trailer /\ torn = None
      /\ journal' = journal /\ torn' = torn
  BY DEF IInv, JournalStands
<1>4. /\ trailer \in Seq(Records) /\ sink \in Seq(Records)
      /\ <<>> \o sink = sink /\ trailer \o <<>> = trailer
      /\ RunRows = trailer \o sink /\ IsPrefix(trailer, trailer)
  <2>1. trailer \in Seq(Records) /\ sink \in Seq(Records)
    BY DEF IInv, TypeOK
  <2>2. RunRows = trailer \o sink
    BY <1>3, RunRowsAre DEF IInv
  <2>3. IsPrefix(trailer, trailer)
    BY <2>1, PrefixOrder
  <2> QED
    BY <2>1, <2>2, <2>3, ConcatEmptySeq
<1>5. RunRows' = RunRows
  BY <1>2, <1>4 DEF RunRows
<1>6. Alive /\ run # 0 /\ saved = None
  BY DEF IInv, Control, Idle
<1>7. PathsOf(RunRows) = Paths \ (left \cup missed)
  BY <1>6 DEF IInv, RowsApart
<1>8. phase = "final" => RunRows = trailer
  BY <1>4 DEF IInv, Control
<1>9. Control'
  BY <1>1, <1>2, <1>6 DEF IInv, Control, Alive, Idle, Loadable
<1>10. RowsApart'
  BY <1>5 DEF IInv, RowsApart
<1>11. OrphansArePending'
  BY <1>2, <1>3, <1>4 DEF OrphansArePending
<1>12. AppendStands' /\ JournalStands'
  BY DEF AppendStands, JournalStands
<1>13. acked' = RowsOf(trailer)
  <2>1. acked \subseteq RowsOf(trailer)
    BY <1>3 DEF IInv, CheckpointSurvives
  <2> QED
    BY <2>1
<1>14. AckedStands' /\ CheckpointSurvives'
  BY <1>1, <1>2, <1>3, <1>13 DEF AckedStands, CheckpointSurvives, Loadable
<1>15. CompletedStands'
  <2>1. goal = "Completed" => Paths \subseteq missed \cup PathsOf(trailer)
    <3>1. goal = "Completed" => phase = "final" /\ left = {}
      BY DEF IInv, Control, Idle
    <3> QED
      BY <1>7, <1>8, <3>1
  <2>2. ASSUME NEW c \in {main', prev'} \ {None}, c.state = "Completed"
        PROVE  Paths \subseteq c.missed \cup PathsOf(c.trailer)
    <3>1. CASE c = ctx
      <4>1. c.state = goal /\ c.missed = missed /\ c.trailer = trailer
        BY <3>1
      <4> QED  BY <2>1, <2>2, <4>1
    <3>2. CASE c = prev
      BY <2>2, <3>2 DEF IInv, CompletedStands
    <3> QED
      BY <1>2, <3>1, <3>2
  <2> QED
    BY <2>2 DEF CompletedStands
<1>16. NoDuplicateRows'
  BY <1>3 DEF IInv, NoDuplicateRows
<1>17. ReportedSaveIsOnDisk'
  <2>1. CASE phase = "final"
    <3>1. main' # None /\ main'.state = goal /\ saved' = goal
      BY <1>1, <1>2, <2>1
    <3>2. ~Flagged'
      <4>1. Context'.trailer = trailer
        BY <1>2
      <4> QED  BY <1>3, <1>4, <4>1 DEF Flagged
    <3>3. PathsOf(journal) = Paths \ (left \cup missed)
      BY <1>3, <1>7, <1>8, <2>1
    <3> QED
      BY <1>3, <3>1, <3>2, <3>3 DEF ReportedSaveIsOnDisk, PathsOf
  <2>2. CASE phase # "final"
    BY <1>6, <2>2 DEF ReportedSaveIsOnDisk, Alive
  <2> QED
    BY <2>1, <2>2
<1> QED
  BY <1>9, <1>10, <1>11, <1>12, <1>14, <1>15, <1>16, <1>17 DEF IInv

\* A failed save leaves its rows pending and the declared ones declared.
LEMMA SaveFailsStep ==
  ASSUME IInv, TypeOK', SaveFails
  PROVE  IInv'
<1> USE DEF SaveFails, fileVars, rowVars
<1>1. /\ Written' = Written
      /\ OrphansArePending' /\ AckedStands' /\ CompletedStands'
      /\ CheckpointSurvives' /\ NoDuplicateRows'
  BY FilesStand
<1>2. Control'
  BY DEF IInv, Control, Alive, Idle, Loadable, Context
<1>3. RowsApart' /\ AppendStands' /\ JournalStands'
  BY <1>1 DEF IInv, RowsApart, RunRows, AppendStands, JournalStands
<1>4. ReportedSaveIsOnDisk'
  BY DEF IInv, Control, Alive, Idle, ReportedSaveIsOnDisk
<1> QED
  BY <1>1, <1>2, <1>3, <1>4 DEF IInv

\* So does the death of the process.
LEMMA CrashStep ==
  ASSUME IInv, TypeOK', Crash
  PROVE  IInv'
<1> USE DEF Crash, fileVars, rowVars
<1>1. /\ Written' = Written
      /\ OrphansArePending' /\ AckedStands' /\ CompletedStands'
      /\ CheckpointSurvives' /\ NoDuplicateRows'
  BY FilesStand
<1>2. Control'
  BY DEF IInv, Control, Alive, Idle, Loadable, Context
<1>3. RowsApart' /\ AppendStands' /\ JournalStands'
  BY <1>1 DEF IInv, RowsApart, RunRows, AppendStands, JournalStands
<1>4. ReportedSaveIsOnDisk'
  BY DEF IInv, Control, Alive, ReportedSaveIsOnDisk
<1> QED
  BY <1>1, <1>2, <1>3, <1>4 DEF IInv

-----------------------------------------------------------------------------
(* Theorems *)

\* The invariant holds before the first run.
LEMMA InitInvariant ==
  ASSUME Init
  PROVE  IInv
<1> USE EmptyRows DEF Init, FilesInit
<1>1. TypeOK
  BY DEF TypeOK, States
<1>2. Control
  BY DEF Control, Alive, Idle
<1>3. RunRows = <<>>
  <2>1. RunRows = <<>> \o (<<>> \o <<>>)
    BY DEF RunRows, Written
  <2> QED
    BY <2>1, ConcatEmptySeq
<1>4. RowsApart
  BY <1>3 DEF RowsApart
<1>5. OrphansArePending /\ AppendStands /\ JournalStands /\ AckedStands /\ CompletedStands
  BY DEF OrphansArePending, AppendStands, JournalStands, AckedStands, CompletedStands
<1>6. CheckpointSurvives /\ ReportedSaveIsOnDisk
  BY DEF CheckpointSurvives, ReportedSaveIsOnDisk
<1>7. NoDuplicateRows
  BY DEF NoDuplicateRows, Distinct
<1> QED
  BY <1>1, <1>2, <1>4, <1>5, <1>6, <1>7 DEF IInv

\* Every step keeps the invariant.
LEMMA NextInvariant ==
  ASSUME IInv, [Next]_vars
  PROVE  IInv'
<1>1. CASE Next
  <2>1. TypeOK'
    BY <1>1, TypeInvariant DEF IInv
  <2> QED
    BY <1>1, <2>1, StartFreshStep, StartResumedStep, CaptureStep, CaptureFailsStep,
       RequestCancelStep, CompareEndsStep, PumpSavesStep, FinalSaveStep, SaveJournalStep,
       ReadTrailerStep, AppendNextStep, AppendEndsStep, RotateContextStep,
       WriteContextStep, SaveFailsStep, CrashStep
       DEF Next, SaveStep
<1>2. CASE UNCHANGED vars
  <2> USE <1>2 DEF vars, fileVars
  <2>1. TypeOK' /\ Control'
    BY DEF IInv, TypeOK, Control, Alive, Idle, Loadable, Context
  <2>2. /\ Written' = Written
        /\ OrphansArePending' /\ AckedStands' /\ CompletedStands'
        /\ CheckpointSurvives' /\ NoDuplicateRows'
    BY FilesStand
  <2>3. RowsApart' /\ AppendStands' /\ JournalStands'
    BY <2>2 DEF IInv, RowsApart, RunRows, AppendStands, JournalStands
  <2>4. ReportedSaveIsOnDisk'
    BY DEF IInv, ReportedSaveIsOnDisk, Alive, Flagged, Context
  <2> QED
    BY <2>1, <2>2, <2>3, <2>4 DEF IInv
<1> QED
  BY <1>1, <1>2

\* The invariant of a scan's saves, over any number of runs.
THEOREM IInvHolds == Spec => []IInv
<1>1. Init => IInv
  BY InitInvariant
<1>2. IInv /\ [Next]_vars => IInv'
  BY NextInvariant
<1> QED
  BY <1>1, <1>2, PTL DEF Spec

\* Whatever fails and whenever the process dies, the session can be loaded and
\* holds every row that a save has acknowledged (WriteAtomic, AppendJournal).
THEOREM CheckpointsSurvive == Spec => []CheckpointSurvives
<1>1. IInv => CheckpointSurvives
  BY DEF IInv
<1> QED
  BY <1>1, IInvHolds, PTL

\* The journal never holds two records of one path: AppendJournal drops what a
\* failed attempt left before it writes the same rows again.
THEOREM JournalHasNoDuplicates == Spec => []NoDuplicateRows
<1>1. IInv => NoDuplicateRows
  BY DEF IInv
<1> QED
  BY <1>1, IInvHolds, PTL

\* A row that was captured is captured, pending or saved until the run ends,
\* whichever of its saves fail.
THEOREM NoRowIsLost == Spec => []NoRowLost
<1>1. IInv => NoRowLost
  <2> SUFFICES ASSUME IInv, Alive, NEW p \in Paths \ (left \cup missed)
               PROVE  \E r \in RowsOf(sink) \cup RowsOf(pending) \cup acked : r.path = p
    BY DEF NoRowLost
  <2>1. p \in PathsOf(RunRows)
    BY DEF IInv, Control, RowsApart
  <2>2. /\ Written \in Seq(Records) /\ pending \in Seq(Records) /\ sink \in Seq(Records)
        /\ Written \o pending \in Seq(Records) /\ RunRows = (Written \o pending) \o sink
    BY RunRowsAre DEF IInv, TypeOK
  <2>3. RowsOf(RunRows) = RowsOf(Written) \cup RowsOf(pending) \cup RowsOf(sink)
    BY <2>2, ConcatRows
  <2>4. RowsOf(Written) \subseteq acked
    BY EmptyRows DEF IInv, AckedStands, Written
  <2> QED
    BY <2>1, <2>3, <2>4 DEF PathsOf
<1> QED
  BY <1>1, IInvHolds, PTL

\* A session that loads without a warning and says it is completed has a row for
\* every path that got one.
THEOREM CompletedSessionsAreWhole == Spec => []CompletedIsWhole
<1>1. IInv => CompletedIsWhole
  <2> SUFFICES ASSUME IInv, Loadable, ~Flagged, Context.state = "Completed"
               PROVE  Paths \ Context.missed \subseteq {r.path : r \in RowsOf(journal)}
    BY DEF CompletedIsWhole
  <2>1. Paths \subseteq Context.missed \cup PathsOf(Context.trailer)
    BY DEF IInv, CompletedStands, Loadable, Context
  <2>2. Context.trailer \in Seq(Records) /\ journal \in Seq(Records)
    BY ContextType DEF IInv, TypeOK, Contexts
  <2>3. PathsOf(Context.trailer) \subseteq PathsOf(journal)
    BY <2>2, PrefixRows DEF Flagged
  <2> QED
    BY <2>1, <2>3 DEF PathsOf
<1> QED
  BY <1>1, IInvHolds, PTL

\* A session that a finished run reports as saved is on the disk in that state
\* and has a row for every path the run captured.
THEOREM ReportedSavesAreOnDisk == Spec => []ReportedSaveIsOnDisk
<1>1. IInv => ReportedSaveIsOnDisk
  BY DEF IInv
<1> QED
  BY <1>1, IInvHolds, PTL
=============================================================================
