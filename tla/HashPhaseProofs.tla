--------------------------- MODULE HashPhaseProofs ---------------------------
(***************************************************************************)
(* The digest cache and the double look at a file's size and time never    *)
(* change a verdict, for any contents, levels and number of runs and       *)
(* writes, as long as the second look does not fail just when it would     *)
(* have told a change (~missed), if                                        *)
(*                                                                         *)
(*  - no modification time comes back to a file (FreshTimes), and          *)
(*  - a level that is not a full read is only asked of files that keep     *)
(*    their size (PlansFit): the plan is that of the listed size, and the  *)
(*    cache does not say so.                                               *)
(*                                                                         *)
(* Both are needed: the run hash_cache_hit shows what happens without the  *)
(* second, and section 4 of the README without the first.                  *)
(*                                                                         *)
(* What is read is the plan of PartialRead, whose theorems come first.     *)
(***************************************************************************)
EXTENDS HashPhase, SequenceTheorems, TLAPS

-----------------------------------------------------------------------------
(* The plan of a partial read (PartialRead): for every size, percentage and *)
(* block size, its runs lie inside the file, do not overlap, and hold as    *)
(* many blocks as the percentage asks for, which splitting the              *)
(* multiplication to keep it in 64 bits does not change.                   *)

\* Integer division, as an inequality.
LEMMA Division ==
  ASSUME NEW a \in Nat, NEW b \in Nat \ {0}
  PROVE  /\ a \div b \in Nat
         /\ (a \div b) * b <= a
         /\ a < (a \div b) * b + b
         /\ a = (a \div b) * b + (a % b)
         /\ a % b \in Nat /\ a % b < b
OBVIOUS

\* The inequality determines the quotient.
LEMMA Quotient ==
  ASSUME NEW a \in Nat, NEW b \in Nat \ {0}, NEW q \in Nat, q * b <= a, a < q * b + b
  PROVE  a \div b = q
<1>1. a \div b \in Nat /\ (a \div b) * b <= a /\ a < (a \div b) * b + b
  BY Division
<1> DEFINE p == a \div b
<1>2. p * b < (q + 1) * b /\ q * b < (p + 1) * b
  BY <1>1
<1>3. p < q + 1 /\ q < p + 1
  BY <1>1, <1>2
<1> QED
  BY <1>1, <1>3

\* A product of positive numbers grows with its factors.
LEMMA Monotone ==
  ASSUME NEW a \in Nat, NEW b \in Nat, NEW c \in Nat, a <= b
  PROVE  a * c <= b * c
OBVIOUS

-----------------------------------------------------------------------------
(* The target *)

\* Scaling the quotient and the remainder apart gives the rounded percentage of
\* the size in MiB, exactly.
THEOREM RoundedIsExact ==
  ASSUME NEW size \in Nat, NEW percent \in Nat
  PROVE  Rounded(size, percent) = (size * percent + Hundred \div 2) \div Hundred
<1> DEFINE D == Hundred
           q == size \div D
           r == size % D
           h == D \div 2
           x == r * percent + h
<1>1. D \in Nat \ {0}
  BY PartialReadAssumption DEF Hundred
<1>2. q \in Nat /\ r \in Nat /\ size = q * D + r
  <2> HIDE DEF D
  <2> QED  BY <1>1, Division
<1>3. h \in Nat
  <2> HIDE DEF D
  <2> QED  BY <1>1, Division
<1>4. x \in Nat
  <2> HIDE DEF r, h
  <2> QED  BY <1>2, <1>3
<1>5. x \div D \in Nat /\ (x \div D) * D <= x /\ x < (x \div D) * D + D
  <2> HIDE DEF D, x
  <2> QED  BY <1>1, <1>4, Division
<1>6. size * percent + h = (q * percent) * D + x
  <2> HIDE DEF D, q, r, h
  <2>1. size * percent = (q * percent) * D + r * percent
    BY <1>1, <1>2
  <2> QED  BY <2>1, <1>1, <1>2, <1>3
<1>7. (size * percent + h) \div D = q * percent + x \div D
  <2> DEFINE y == x \div D
             p == q * percent
             a == size * percent + h
             t == p + y
  <2>1. y \in Nat /\ p \in Nat /\ x \in Nat /\ y * D <= x /\ x < y * D + D
    <3> HIDE DEF D, x, q
    <3> QED  BY <1>1, <1>2, <1>4, <1>5
  <2>2. a = p * D + x
    BY <1>6
  <2>3. (p + y) * D = p * D + y * D
    <3> HIDE DEF D, x, y, p
    <3> QED  BY <1>1, <2>1
  <2>4. p * D \in Nat
    <3> HIDE DEF D, x, y, p
    <3> QED  BY <1>1, <2>1
  <2>5. y * D \in Nat
    <3> HIDE DEF D, x, y, p
    <3> QED  BY <1>1, <2>1
  <2>6. t \in Nat /\ a \in Nat /\ t * D <= a /\ a < t * D + D
    <3> HIDE DEF D, x, y, p, a
    <3> QED  BY <1>1, <2>1, <2>2, <2>3, <2>4, <2>5
  <2> HIDE DEF D, x, y, p, a, t
  <2>7. a \div D = t
    BY <1>1, <2>6, Quotient
  <2> QED  BY <2>7 DEF a, t, p, y
<1> QED
  BY <1>7 DEF Rounded

\* What a partial read aims at is a number of bytes.
LEMMA TargetType ==
  ASSUME NEW size \in Nat, NEW percent \in Nat
  PROVE  Target(size, percent) \in Nat \ {0}
<1>1. Hundred \in Nat \ {0}
  BY PartialReadAssumption DEF Hundred
<1>2. size \div Hundred \in Nat /\ size % Hundred \in Nat /\ Hundred \div 2 \in Nat
  BY <1>1, Division
<1>3. (size % Hundred) * percent + Hundred \div 2 \in Nat /\ (size \div Hundred) * percent \in Nat
  BY <1>2
<1>4. Rounded(size, percent) \in Nat
  <2> DEFINE a == (size % Hundred) * percent + Hundred \div 2
             b == (size \div Hundred) * percent
  <2>1. a \in Nat /\ b \in Nat
    BY <1>3
  <2> HIDE DEF a, b
  <2>2. a \div Hundred \in Nat
    BY <1>1, <2>1, Division
  <2>3. b + a \div Hundred \in Nat
    BY <2>1, <2>2
  <2> QED  BY <2>3 DEF Rounded, a, b
<1> QED
  BY <1>4 DEF Target

\* Fewer blocks than cover the file are shorter than the file, and all of them
\* are whole.
LEMMA ShorterThanFile ==
  ASSUME NEW size \in Nat, NEW target \in Nat \ {0}, target < WholeMibs(size)
  PROVE  target * Mib < size /\ target <= size \div Mib
<1> DEFINE w == WholeMibs(size)
<1>1. Mib \in Nat \ {0}
  BY PartialReadAssumption
<1>2. w \in Nat /\ w * Mib <= size + Mib - 1
  BY <1>1, Division DEF WholeMibs
<1>3. (target + 1) * Mib <= w * Mib
  BY <1>1, <1>2, Monotone
<1>4. target * Mib < size
  <2>1. (target + 1) * Mib = target * Mib + Mib /\ target * Mib \in Nat
    BY <1>1
  <2>2. w * Mib \in Nat
    BY <1>1, <1>2
  <2> HIDE DEF w
  <2> QED  BY <1>1, <1>2, <1>3, <2>1, <2>2
<1>5. target <= size \div Mib
  <2> DEFINE n == size \div Mib
  <2>1. n \in Nat /\ size < n * Mib + Mib
    BY <1>1, Division
  <2>2. target * Mib < (n + 1) * Mib
    BY <1>1, <1>4, <2>1
  <2>3. target < n + 1
    <3>1. CASE n + 1 <= target
      BY <1>1, <2>1, <2>2, <3>1, Monotone
    <3> QED  BY <2>1, <3>1
  <2> QED  BY <2>1, <2>3
<1> QED
  BY <1>4, <1>5

-----------------------------------------------------------------------------
(* The two patterns *)

\* What a plan that is not a full read has to satisfy.
Sound(plan, size, target) ==
  /\ plan.off1 \in Nat /\ plan.len1 \in Nat \ {0}
  /\ plan.off2 \in Nat /\ plan.len2 \in Nat
  /\ plan.off1 + plan.len1 <= size
  /\ plan.len2 > 0 => plan.off1 + plan.len1 <= plan.off2 /\ plan.off2 + plan.len2 = size
  /\ plan.len1 + plan.len2 = target * Mib

\* The middle of a partial read lies in the file and is not empty.
LEMMA CenterSound ==
  ASSUME NEW size \in Nat, NEW target \in Nat \ {0}, target < WholeMibs(size)
  PROVE  Sound(CenterBlocks(size, target), size, target)
<1> DEFINE n == size \div Mib
           discard == n - target
           before == (discard + 1) \div 2
<1>1. Mib \in Nat \ {0}
  BY PartialReadAssumption
<1>2. target * Mib < size /\ target <= n
  BY ShorterThanFile
<1>3. n \in Nat /\ n * Mib <= size
  BY <1>1, Division
<1>4. discard \in Nat
  BY <1>2, <1>3
<1>5. before \in Nat /\ before <= discard
  <2> HIDE DEF discard
  <2>1. before \in Nat /\ before * 2 <= discard + 1
    BY <1>4, Division
  <2> QED  BY <1>4, <2>1
<1>6. before + target <= n
  BY <1>2, <1>3, <1>4, <1>5
<1>7. before * Mib \in Nat /\ target * Mib \in Nat \ {0} /\ before * Mib + target * Mib <= size
  <2> HIDE DEF before, n
  <2>1. (before + target) * Mib <= n * Mib
    BY <1>1, <1>3, <1>5, <1>6, Monotone
  <2>2. (before + target) * Mib = before * Mib + target * Mib
    BY <1>1, <1>5
  <2>3. before * Mib \in Nat /\ target * Mib \in Nat \ {0} /\ n * Mib \in Nat
    BY <1>1, <1>3, <1>5
  <2> QED  BY <1>3, <2>1, <2>2, <2>3
<1>8. CenterBlocks(size, target) = Blocks(before * Mib, target * Mib, 0, 0)
  BY DEF CenterBlocks
<1> HIDE DEF before, n
<1> QED
  BY <1>7, <1>8 DEF Sound, Blocks

\* The edges of a partial read lie in the file and do not overlap.
LEMMA EdgesSound ==
  ASSUME NEW size \in Nat, NEW target \in Nat \ {0}, target < WholeMibs(size)
  PROVE  Sound(EdgeBlocks(size, target), size, target)
<1> DEFINE h == (target + 1) \div 2
           t == target \div 2
           head == h * Mib
           tail == t * Mib
<1>1. Mib \in Nat \ {0}
  BY PartialReadAssumption
<1>2. target * Mib < size
  BY ShorterThanFile
<1>3. h \in Nat \ {0} /\ t \in Nat /\ h + t = target
  OBVIOUS
<1>4. head \in Nat \ {0} /\ tail \in Nat /\ head + tail = target * Mib
  <2> HIDE DEF h, t
  <2>1. (h + t) * Mib = h * Mib + t * Mib
    BY <1>1, <1>3
  <2>2. h * Mib \in Nat \ {0} /\ t * Mib \in Nat
    BY <1>1, <1>3
  <2> QED  BY <1>3, <2>1, <2>2
<1>5. EdgeBlocks(size, target) =
        IF tail = 0 THEN Blocks(0, head, 0, 0) ELSE Blocks(0, head, size - tail, tail)
  BY DEF EdgeBlocks
<1>6. target * Mib \in Nat
  BY <1>1
<1> HIDE DEF head, tail
<1>7. CASE tail = 0
  BY <1>2, <1>4, <1>5, <1>6, <1>7 DEF Sound, Blocks
<1>8. CASE tail # 0
  BY <1>2, <1>4, <1>5, <1>6, <1>8 DEF Sound, Blocks
<1> QED
  BY <1>7, <1>8

-----------------------------------------------------------------------------
(* The plan *)

\* A plan either reads the whole file, or one or two runs of whole MiB which lie
\* in it, do not overlap, are as long as the target, and the second of which
\* ends the file: the reader never seeks behind the end of an unchanged file
\* and no block is hashed twice.
THEOREM PlanIsSound ==
  ASSUME NEW size \in Nat, NEW percent \in Nat, NEW pattern \in Patterns
  PROVE  LET plan == ComputePartialReadPlan(size, percent, pattern) IN
         \/ plan.isFullRead
         \/ Sound(plan, size, Target(size, IF percent < 1 THEN 1 ELSE percent))
<1> DEFINE p == IF percent < 1 THEN 1 ELSE percent
           target == Target(size, p)
           whole == size <= FullReadThreshold \/ percent >= 100 \/ target >= WholeMibs(size)
<1>1. target \in Nat \ {0}
  BY TargetType
<1>2. CASE whole
  BY <1>2 DEF ComputePartialReadPlan, FullRead
<1>3. CASE ~whole
  <2>1. target < WholeMibs(size)
    <3>1. WholeMibs(size) \in Nat
      BY PartialReadAssumption, Division DEF WholeMibs
    <3> QED  BY <1>1, <1>3, <3>1
  <2>2. CASE pattern = "Center"
    BY <1>1, <1>3, <2>1, <2>2, CenterSound DEF ComputePartialReadPlan
  <2>3. CASE pattern # "Center"
    BY <1>1, <1>3, <2>1, <2>3, EdgesSound DEF ComputePartialReadPlan
  <2> QED  BY <2>2, <2>3
<1> QED
  BY <1>2, <1>3

-----------------------------------------------------------------------------
(* When the digests can be trusted                                         *)

PlansFit ==
  \A d, e \in Datas, l \in Levels : l[1] = 100 \/ Len(d) = Len(e)

-----------------------------------------------------------------------------
(* The inductive invariant *)

FileType  == [mtime : Nat, data : Datas]
StatType  == [size : Nat, mtime : Nat]
LevelType == [percent : Nat, pattern : Patterns]
KeyType   == [side : Sides, stat : StatType, level : LevelType]

TypeOK ==
  /\ disk \in [Sides -> FileType] /\ listed \in [Sides -> FileType]
  /\ clock \in Nat
  /\ kind \in {"live", "capture"}
  /\ kind = "live" => level \in Levels
  /\ kind = "capture" => level = <<100, "Edges">>
  /\ pc \in {"off", "list", "open", "read", "verdict", "save", "entries"}
  /\ side \in Sides
  /\ stat \in StatType /\ got \in Seq(Nat) /\ changed \in BOOLEAN /\ missed \in BOOLEAN
  /\ digest = [s \in Sides |-> digest[s]]
  /\ DOMAIN cache \subseteq KeyType /\ DOMAIN file.entries \subseteq KeyType
  /\ file.torn \subseteq KeyType
  /\ file = [count |-> file.count, entries |-> file.entries, torn |-> file.torn]

\* No time is ahead of the clock, so that a write makes a time nobody has seen.
TimesPast ==
  /\ \A s \in Sides : disk[s].mtime <= clock /\ listed[s].mtime <= clock
  /\ stat.mtime <= clock
  /\ \A k \in DOMAIN cache \cup DOMAIN file.entries : k.stat.mtime <= clock

\* A file that still has the time it was listed with is the listed one.
ListedStands ==
  \A s \in Sides : listed[s].mtime = disk[s].mtime => listed[s] = disk[s]

\* A digest kept under the time a file has is the digest of that file.
EntriesSound(entries) ==
  \A k \in DOMAIN entries :
    k.stat.mtime = disk[k.side].mtime =>
      /\ k.stat = StatOf(disk[k.side])
      /\ entries[k] = Sampled(disk[k.side].data, k.level)

\* The blocks read are the first the plan reads of the data.
PrefixOf(blocks, data) ==
  /\ ~Plan.isFullRead => Len(blocks) <= Plan.len1 + Plan.len2
  /\ \A i \in 1..Len(blocks) :
       /\ PositionOf(i) \in 1..Len(data)
       /\ blocks[i] = data[PositionOf(i)]

\* While a file is read: T1 was the listed size and time unless the side is
\* marked as changed, and what was read is what the file has unless its time moved.
ReadStands ==
  pc = "read" =>
    /\ ~changed /\ ~Capturing => stat = StatOf(listed[side])
    /\ stat.mtime = disk[side].mtime =>
         /\ stat = StatOf(disk[side])
         /\ PrefixOf(got, disk[side].data)

\* A digest of a side not marked as changed is that of the listed file, unless it
\* changed unseen.
DigestStands ==
  \A s \in Sides :
    ~changed /\ ~missed /\ digest[s] # None /\ (kind = "live" \/ s = "B") =>
      digest[s] = Sampled(listed[s].data, Effective)

\* Nothing is known of a pair before it is listed.
NothingYet ==
  pc = "list" => ~changed /\ verdict = None /\ \A s \in Sides : digest[s] = None

\* What was marked as changed is no longer the listed file.
ChangedStands ==
  /\ changed => \E s \in Sides : disk[s] # listed[s]
  /\ verdict = "ChangedDuringScan" => changed

\* The key being written has a digest in memory.
TornInCache ==
  pc = "entries" => file.torn \subseteq DOMAIN cache

IInv ==
  /\ TypeOK /\ TimesPast /\ ListedStands
  /\ EntriesSound(cache) /\ EntriesSound(file.entries)
  /\ ReadStands /\ DigestStands /\ NothingYet /\ ChangedStands /\ TornInCache
  /\ VerdictIsTrue

-----------------------------------------------------------------------------
(* The plan and what it reads *)

\* Levels are percentages and patterns, and so is the effective one.
LEMMA LevelsType ==
  ASSUME TypeOK
  PROVE  /\ level[1] \in 1..100 /\ level[2] \in Patterns
         /\ \A s \in Sides : Len(listed[s].data) \in Nat
         /\ Effective \in LevelType
<1>1. level[1] \in 1..100 /\ level[2] \in Patterns
  BY HashPhaseAssumption DEF TypeOK, Patterns
<1>2. \A s \in Sides : Len(listed[s].data) \in Nat
  BY HashPhaseAssumption, LenProperties DEF TypeOK, FileType
<1>3. Effective \in LevelType
  BY <1>1 DEF Effective, EffectiveLevel, LevelType, Patterns
<1> QED
  BY <1>1, <1>2, <1>3

\* A plan that is not a full read is the plan of every file there is, and lies
\* inside it.
LEMMA PartialPlan ==
  ASSUME TypeOK, PlansFit, ~Plan.isFullRead, NEW d \in Datas
  PROVE  /\ ComputePartialReadPlan(Len(d), Effective.percent, Effective.pattern) = Plan
         /\ Plan.off1 \in Nat /\ Plan.len1 \in Nat /\ Plan.off2 \in Nat /\ Plan.len2 \in Nat
         /\ Plan.off1 + Plan.len1 <= Len(d)
         /\ Plan.len2 > 0 => Plan.off2 + Plan.len2 = Len(d)
<1>1. kind = "live" /\ level \in Levels
  BY DEF TypeOK, Plan, FullRead
<1>2. Plan = ComputePartialReadPlan(Len(listed["A"].data), level[1], level[2])
  BY <1>1 DEF Plan
<1>3. level[1] \in 1..100 /\ level[2] \in Patterns /\ Len(listed["A"].data) \in Nat
  BY LevelsType DEF Sides
<1>4. level[1] # 100
  BY <1>2 DEF ComputePartialReadPlan, FullRead
<1>5. Len(d) = Len(listed["A"].data)
  BY <1>1, <1>4 DEF PlansFit, TypeOK, FileType, Sides
<1>6. Effective = [percent |-> level[1], pattern |-> level[2]]
  BY DEF Effective, EffectiveLevel
<1>7. Sound(Plan, Len(d), Target(Len(d), IF level[1] < 1 THEN 1 ELSE level[1]))
  <2>1. level[1] \in Nat /\ Len(d) \in Nat
    <3>1. \A n \in 1..100 : n \in Nat
      OBVIOUS
    <3> QED  BY <1>3, <1>5, <3>1
  <2>2. Plan = ComputePartialReadPlan(Len(d), level[1], level[2])
    BY <1>2, <1>5
  <2> QED
    BY <1>3, <2>1, <2>2, PlanIsSound
<1> QED
  BY <1>2, <1>3, <1>5, <1>6, <1>7 DEF Sound

\* What verifying a file at the level of the run reads of it.
LEMMA SampledIs ==
  ASSUME TypeOK, PlansFit, NEW d \in Datas
  PROVE  Sampled(d, Effective) =
           IF Plan.isFullRead THEN d
           ELSE SubSeq(d, Plan.off1 + 1, Plan.off1 + Plan.len1)
                  \o SubSeq(d, Plan.off2 + 1, Plan.off2 + Plan.len2)
<1>1. CASE Plan.isFullRead
  <2>1. Effective.percent = 100
    BY <1>1 DEF Effective, EffectiveLevel
  <2>2. ComputePartialReadPlan(Len(d), Effective.percent, Effective.pattern) = FullRead
    BY <2>1 DEF ComputePartialReadPlan
  <2> QED
    BY <1>1, <2>2 DEF Sampled, FullRead
<1>2. CASE ~Plan.isFullRead
  BY <1>2, PartialPlan DEF Sampled
<1> QED
  BY <1>1, <1>2

\* A run of a file, block by block.
LEMMA RunOfFile ==
  ASSUME NEW d \in Seq(Nat), NEW off \in Nat, NEW len \in Nat,
         len > 0 => off + len <= Len(d)
  PROVE  /\ SubSeq(d, off + 1, off + len) \in Seq(Nat)
         /\ Len(SubSeq(d, off + 1, off + len)) = len
         /\ \A i \in 1..len : SubSeq(d, off + 1, off + len)[i] = d[off + i]
<1> DEFINE m == off + 1
           n == off + len
<1>1. Len(d) \in Nat
  BY LenProperties
<1>2. m \in Int /\ n \in Int /\ n - m + 1 = len
  OBVIOUS
<1>3. \A i \in m..n : d[i] \in Nat
  BY <1>1, ElementOfSeq
<1>4. \A i \in 1..len : m + i - 1 = off + i
  OBVIOUS
<1>5. (m <= n) = (len # 0)
  OBVIOUS
<1> HIDE DEF m, n
<1>6. /\ SubSeq(d, m, n) \in Seq(Nat)
      /\ Len(SubSeq(d, m, n)) = IF m <= n THEN n - m + 1 ELSE 0
      /\ \A i \in 1..(n - m + 1) : SubSeq(d, m, n)[i] = d[m + i - 1]
  BY <1>2, <1>3, SubSeqProperties
<1>7. /\ SubSeq(d, m, n) \in Seq(Nat)
      /\ Len(SubSeq(d, m, n)) = len
      /\ \A i \in 1..len : SubSeq(d, m, n)[i] = d[off + i]
  BY <1>2, <1>4, <1>5, <1>6
<1> QED
  BY <1>7 DEF m, n

\* Blocks read in the order of the plan, up to where the read is over, are what
\* the level samples.
LEMMA PrefixComplete ==
  ASSUME TypeOK, PlansFit, NEW d \in Datas, NEW blocks \in Seq(Nat), PrefixOf(blocks, d),
         \/ ~Plan.isFullRead /\ Len(blocks) = Plan.len1 + Plan.len2
         \/ PositionOf(Len(blocks) + 1) > Len(d)
  PROVE  blocks = Sampled(d, Effective)
<1>1. d \in Seq(Nat) /\ Len(d) \in Nat /\ Len(blocks) \in Nat
  BY HashPhaseAssumption, LenProperties
<1>2. CASE Plan.isFullRead
  <2>1. \A n \in Nat : PositionOf(n) = n
    BY <1>2 DEF PositionOf
  <2>2. \A i \in 1..Len(blocks) : i \in 1..Len(d) /\ blocks[i] = d[i]
    BY <1>1, <2>1 DEF PrefixOf
  <2>3. Len(blocks) <= Len(d)
    <3>1. CASE Len(blocks) = 0
      BY <1>1, <3>1
    <3>2. CASE Len(blocks) # 0
      BY <1>1, <2>2, <3>2
    <3> QED  BY <3>1, <3>2
  <2>4. Len(blocks) + 1 > Len(d)
    BY <1>1, <1>2, <2>1
  <2>5. Len(blocks) = Len(d)
    BY <1>1, <2>3, <2>4
  <2>6. blocks = d
    BY <1>1, <2>2, <2>5, SeqEqual
  <2> QED
    BY <1>2, <2>6, SampledIs
<1>3. CASE ~Plan.isFullRead
  <2> DEFINE n1 == Plan.len1
             n2 == Plan.len2
             head == SubSeq(d, Plan.off1 + 1, Plan.off1 + n1)
             tail == SubSeq(d, Plan.off2 + 1, Plan.off2 + n2)
  <2>1. /\ Plan.off1 \in Nat /\ n1 \in Nat /\ Plan.off2 \in Nat /\ n2 \in Nat
        /\ Plan.off1 + n1 <= Len(d)
        /\ n2 > 0 => Plan.off2 + n2 = Len(d)
    BY <1>3, PartialPlan
  <2>2. \A n \in Nat \ {0} : PositionOf(n) = IF n <= n1 THEN Plan.off1 + n
                                                        ELSE Plan.off2 + n - n1
    BY <1>3 DEF PositionOf
  <2>3. Len(blocks) = n1 + n2
    <3>1. Len(blocks) <= n1 + n2
      BY <1>3 DEF PrefixOf
    <3>2. CASE Len(blocks) < n1 + n2
      <4> DEFINE k == Len(blocks) + 1
                 ld == Len(d)
                 o1 == Plan.off1
                 o2 == Plan.off2
      <4>1. /\ k \in Nat \ {0} /\ ld \in Nat /\ k <= n1 + n2
            /\ o1 \in Nat /\ o2 \in Nat /\ n1 \in Nat /\ n2 \in Nat
        <5>1. \A l, a \in Nat : l < a => l + 1 \in Nat \ {0} /\ l + 1 <= a
          OBVIOUS
        <5>2. Len(blocks) \in Nat /\ n1 + n2 \in Nat
          BY <1>1, <2>1
        <5> QED  BY <1>1, <2>1, <3>2, <5>1, <5>2
      <4>2. o1 + n1 <= ld /\ (n2 > 0 => o2 + n2 = ld)
        BY <2>1
      <4>3. PositionOf(k) = IF k <= n1 THEN o1 + k ELSE o2 + k - n1
        BY <2>2, <4>1
      <4>4. PositionOf(k) > ld
        BY <1>3, <3>2
      <4> HIDE DEF k, ld, o1, o2, n1, n2
      <4>5. CASE k <= n1
        BY <4>1, <4>2, <4>3, <4>4, <4>5
      <4>6. CASE ~(k <= n1)
        <5>1. n2 > 0 /\ k - n1 <= n2
          BY <4>1, <4>6
        <5>2. o2 + k - n1 <= ld
          BY <4>1, <4>2, <5>1
        <5> QED  BY <4>1, <4>3, <4>4, <4>6, <5>2
      <4> QED  BY <4>5, <4>6
    <3> DEFINE l == Len(blocks)
    <3>3. l \in Nat /\ n1 + n2 \in Nat /\ l <= n1 + n2 /\ ~(l < n1 + n2)
      BY <1>1, <2>1, <3>1, <3>2
    <3> HIDE DEF l, n1, n2
    <3>4. l = n1 + n2
      BY <3>3
    <3> QED
      BY <3>4 DEF l
  <2>4. /\ head \in Seq(Nat) /\ Len(head) = n1
        /\ \A i \in 1..n1 : head[i] = d[Plan.off1 + i]
    <3> DEFINE o1 == Plan.off1
    <3>1. o1 \in Nat /\ n1 \in Nat /\ (n1 > 0 => o1 + n1 <= Len(d))
      BY <2>1
    <3> HIDE DEF o1, n1
    <3>2. /\ SubSeq(d, o1 + 1, o1 + n1) \in Seq(Nat)
          /\ Len(SubSeq(d, o1 + 1, o1 + n1)) = n1
          /\ \A i \in 1..n1 : SubSeq(d, o1 + 1, o1 + n1)[i] = d[o1 + i]
      BY <1>1, <3>1, RunOfFile
    <3> QED  BY <3>2 DEF o1
  <2>5. /\ tail \in Seq(Nat) /\ Len(tail) = n2
        /\ \A i \in 1..n2 : tail[i] = d[Plan.off2 + i]
    <3> DEFINE o2 == Plan.off2
    <3>1. o2 \in Nat /\ n2 \in Nat /\ (n2 > 0 => o2 + n2 <= Len(d))
      <4> DEFINE ld == Len(d)
      <4>1. o2 \in Nat /\ n2 \in Nat /\ ld \in Nat /\ (n2 > 0 => o2 + n2 = ld)
        BY <1>1, <2>1
      <4> HIDE DEF o2, n2, ld
      <4>2. n2 > 0 => o2 + n2 <= ld
        BY <4>1
      <4> QED  BY <4>1, <4>2 DEF ld
    <3> HIDE DEF o2, n2
    <3>2. /\ SubSeq(d, o2 + 1, o2 + n2) \in Seq(Nat)
          /\ Len(SubSeq(d, o2 + 1, o2 + n2)) = n2
          /\ \A i \in 1..n2 : SubSeq(d, o2 + 1, o2 + n2)[i] = d[o2 + i]
      BY <1>1, <3>1, RunOfFile
    <3> QED  BY <3>2 DEF o2
  <2> HIDE DEF head, tail
  <2>6. /\ head \o tail \in Seq(Nat)
        /\ Len(head \o tail) = n1 + n2
        /\ \A i \in 1..(n1 + n2) :
             (head \o tail)[i] = IF i <= n1 THEN head[i] ELSE tail[i - n1]
    <3>1. /\ head \o tail \in Seq(Nat)
          /\ Len(head \o tail) = Len(head) + Len(tail)
          /\ \A i \in 1..(Len(head) + Len(tail)) :
               (head \o tail)[i] = IF i <= Len(head) THEN head[i] ELSE tail[i - Len(head)]
      BY <2>4, <2>5, ConcatProperties
    <3> QED
      BY <2>4, <2>5, <3>1
  <2>7. \A i \in 1..(n1 + n2) : blocks[i] = (head \o tail)[i]
    <3> SUFFICES ASSUME NEW i \in 1..(n1 + n2)
                 PROVE  blocks[i] = (head \o tail)[i]
      OBVIOUS
    <3>1. blocks[i] = d[PositionOf(i)]
      BY <2>3 DEF PrefixOf
    <3>2. CASE i <= n1
      BY <2>1, <2>2, <2>4, <2>6, <3>1, <3>2
    <3>3. CASE ~(i <= n1)
      <4>1. i - n1 \in 1..n2 /\ PositionOf(i) = Plan.off2 + (i - n1)
        BY <2>1, <2>2, <3>3
      <4> QED
        BY <2>1, <2>5, <2>6, <3>1, <3>3, <4>1
    <3> QED
      BY <3>2, <3>3
  <2>8. blocks = head \o tail
    BY <1>1, <2>3, <2>6, <2>7, SeqEqual
  <2> QED
    BY <1>3, <2>8, SampledIs DEF head, tail
<1> QED
  BY <1>2, <1>3

-----------------------------------------------------------------------------
(* What a step does *)

\* The plan of a run, its level and the positions it reads are settled once both
\* sides are listed.
LEMMA PlanStays ==
  ASSUME UNCHANGED <<kind, level, listed>>
  PROVE  /\ Plan' = Plan /\ Effective' = Effective /\ Same' = Same /\ Differ' = Differ
         /\ \A n : PositionOf(n)' = PositionOf(n)
<1>1. Plan' = Plan
  BY DEF Plan
<1>2. Effective' = Effective
  BY <1>1 DEF Effective
<1> QED
  BY <1>1, <1>2 DEF Same, Differ, PositionOf

\* Whoever writes a file, the file gets a time that nobody has seen.
LEMMA WritesAreFresh ==
  ASSUME TypeOK, FreshTimes, Write \/ CopyOver
  PROVE  /\ \E s \in Sides, d \in Datas :
              disk' = [disk EXCEPT ![s] = [mtime |-> clock + 1, data |-> d]]
         /\ clock' = clock + 1
         /\ UNCHANGED <<runVars, cache, file, pc, side, listed, stat, got, changed, missed, digest,
                        verdict>>
<1>1. CASE Write
  BY <1>1 DEF Write
<1>2. CASE CopyOver
  <2>1. disk["A"] \in FileType
    BY DEF TypeOK, Sides
  <2>2. [disk["A"] EXCEPT !.mtime = clock + 1]
          = [mtime |-> clock + 1, data |-> disk["A"].data]
    BY <2>1 DEF FileType
  <2>3. disk["A"].data \in Datas
    BY <2>1 DEF FileType
  <2>4. disk' = [disk EXCEPT !["B"] = [mtime |-> clock + 1, data |-> disk["A"].data]]
    BY <1>2, <2>2 DEF CopyOver
  <2> QED
    BY <1>2, <2>3, <2>4 DEF CopyOver, Sides
<1> QED
  BY <1>1, <1>2

\* The size and time of a file are a stat.
LEMMA StatOfFile ==
  ASSUME NEW f \in FileType
  PROVE  StatOf(f) \in StatType
BY HashPhaseAssumption, LenProperties DEF StatOf, FileType, StatType

\* A key says the side, the size and time, and the level it was made from.
LEMMA KeysType ==
  ASSUME TypeOK, NEW s \in Sides, NEW st \in StatType
  PROVE  Key(s, st) \in KeyType /\ Key(s, st).stat = st /\ Key(s, st).side = s
         /\ Key(s, st).level = Effective
BY LevelsType DEF Key, KeyType

-----------------------------------------------------------------------------
(* A write: the file of one side gets a time later than all that is kept *)

\* Nothing kept is about a file with the new time.
LEMMA WriteStep ==
  ASSUME IInv, FreshTimes, Write \/ CopyOver
  PROVE  IInv'
<1> USE DEF Sides
<1>1. PICK w \in Sides, d \in Datas :
         disk' = [disk EXCEPT ![w] = [mtime |-> clock + 1, data |-> d]]
  BY WritesAreFresh DEF IInv
<1>2. /\ clock' = clock + 1
      /\ UNCHANGED <<runVars, cache, file, pc, side, listed, stat, got, changed, missed, digest,
                     verdict>>
  BY WritesAreFresh DEF IInv
<1>3. /\ disk'[w] = [mtime |-> clock + 1, data |-> d]
      /\ \A s \in Sides \ {w} : disk'[s] = disk[s]
      /\ disk' \in [Sides -> FileType] /\ clock \in Nat
  BY <1>1, <1>2 DEF IInv, TypeOK, FileType
<1>4. Plan' = Plan /\ Effective' = Effective /\ Same' = Same /\ Differ' = Differ
      /\ \A n : PositionOf(n)' = PositionOf(n)
  BY <1>2, PlanStays DEF runVars
<1>5. TypeOK'
  BY <1>2, <1>3 DEF IInv, TypeOK, runVars
<1>6. TimesPast'
  <2>1. clock' = clock + 1 /\ clock \in Nat /\ disk \in [Sides -> FileType]
    BY <1>2 DEF IInv, TypeOK
  <2>2. \A s \in Sides : disk'[s].mtime <= clock'
    BY <1>3, <2>1 DEF IInv, TimesPast, FileType
  <2>3. \A s \in Sides : listed[s].mtime \in Nat /\ listed[s].mtime <= clock
    BY DEF IInv, TypeOK, TimesPast, FileType
  <2>4. stat.mtime \in Nat /\ stat.mtime <= clock
    BY DEF IInv, TypeOK, TimesPast, StatType
  <2>5. \A k \in DOMAIN cache \cup DOMAIN file.entries :
          k.stat.mtime \in Nat /\ k.stat.mtime <= clock
    BY DEF IInv, TypeOK, TimesPast, KeyType, StatType
  <2> QED
    BY <1>2, <2>1, <2>2, <2>3, <2>4, <2>5 DEF TimesPast
<1>7. ListedStands'
  BY <1>2, <1>3 DEF IInv, ListedStands, TypeOK, TimesPast, FileType
<1>8. EntriesSound(cache)'
  <2>1. \A k \in DOMAIN cache : /\ k.side \in Sides /\ k.stat.mtime \in Nat
                                /\ k.stat.mtime <= clock
    BY DEF IInv, TypeOK, TimesPast, KeyType, StatType
  <2> QED
    BY <1>2, <1>3, <2>1 DEF IInv, EntriesSound
<1>9. EntriesSound(file.entries)'
  <2>1. \A k \in DOMAIN file.entries : /\ k.side \in Sides /\ k.stat.mtime \in Nat
                                       /\ k.stat.mtime <= clock
    BY DEF IInv, TypeOK, TimesPast, KeyType, StatType
  <2> QED
    BY <1>2, <1>3, <2>1 DEF IInv, EntriesSound
<1>10. ReadStands'
  <2>1. stat.mtime \in Nat /\ stat.mtime <= clock /\ side \in Sides
    BY DEF IInv, TypeOK, TimesPast, StatType
  <2>2. CASE side = w
    BY <1>2, <1>3, <2>1, <2>2 DEF IInv, ReadStands, Capturing, runVars
  <2>3. CASE side # w
    BY <1>2, <1>3, <1>4, <2>1, <2>3 DEF IInv, ReadStands, PrefixOf, Capturing, runVars
  <2> QED
    BY <2>2, <2>3
<1>11. DigestStands' /\ NothingYet' /\ TornInCache' /\ VerdictIsTrue'
  BY <1>2, <1>4 DEF IInv, DigestStands, NothingYet, TornInCache, VerdictIsTrue, runVars
<1>12. ChangedStands'
  <2>1. disk'[w] # listed[w]
    BY <1>3 DEF IInv, TypeOK, TimesPast, FileType
  <2> QED
    BY <1>2, <1>3, <2>1 DEF IInv, ChangedStands
<1> QED
  BY <1>5, <1>6, <1>7, <1>8, <1>9, <1>10, <1>11, <1>12 DEF IInv

-----------------------------------------------------------------------------
(* A run begins and lists the two files *)

\* The cache in memory is the one in the file, or empty.
LEMMA StartRunStep ==
  ASSUME IInv, StartRun
  PROVE  IInv'
<1> USE DEF StartRun, diskVars, Sides
<1>1. cache' = file.entries \/ cache' = <<>>
  BY DEF Loaded
<1>2. DOMAIN cache' \subseteq DOMAIN file.entries
      /\ \A k \in DOMAIN cache' : cache'[k] = file.entries[k]
  BY <1>1
<1>3. TypeOK'
  <2>1. kind' \in {"live", "capture"} /\ (kind' = "live" => level' \in Levels)
        /\ (kind' = "capture" => level' = <<100, "Edges">>)
    OBVIOUS
  <2>2. got' \in Seq(Nat)
    BY EmptySeq
  <2> QED
    BY <1>2, <2>1, <2>2 DEF IInv, TypeOK
<1>4. TimesPast' /\ ListedStands'
  BY <1>2 DEF IInv, TimesPast, ListedStands
<1>5. EntriesSound(cache)' /\ EntriesSound(file.entries)'
  BY <1>2 DEF IInv, EntriesSound
<1>6. ReadStands' /\ DigestStands' /\ NothingYet' /\ TornInCache'
  BY DEF ReadStands, DigestStands, NothingYet, TornInCache
<1>7. ChangedStands' /\ VerdictIsTrue'
  BY DEF ChangedStands, VerdictIsTrue, Same, Differ, None
<1> QED
  BY <1>3, <1>4, <1>5, <1>6, <1>7 DEF IInv

\* Nothing depends on what is listed before it is.
LEMMA ListStep ==
  ASSUME IInv, List
  PROVE  IInv'
<1> USE DEF List, diskVars, runVars, Sides
<1>1. side \in Sides /\ listed' = [listed EXCEPT ![side] = disk[side]]
      /\ listed \in [Sides -> FileType] /\ disk \in [Sides -> FileType]
  BY DEF IInv, TypeOK
<1>2. \A s \in Sides : listed'[s] = IF s = side THEN disk[s] ELSE listed[s]
  BY <1>1
<1>3. ~changed /\ verdict = None /\ \A s \in Sides : digest[s] = None
  BY DEF IInv, NothingYet
<1>4. TypeOK'
  <2>1. listed' \in [Sides -> FileType]
    BY <1>1
  <2> QED
    BY <2>1 DEF IInv, TypeOK
<1>5. TimesPast' /\ ListedStands'
  BY <1>2 DEF IInv, TimesPast, ListedStands
<1>6. EntriesSound(cache)' /\ EntriesSound(file.entries)'
  BY DEF IInv, EntriesSound
<1>7. ReadStands' /\ DigestStands' /\ NothingYet' /\ TornInCache'
  BY <1>3 DEF ReadStands, DigestStands, NothingYet, TornInCache
<1>8. ChangedStands' /\ VerdictIsTrue'
  BY <1>3 DEF ChangedStands, VerdictIsTrue, Same, Differ, None
<1> QED
  BY <1>4, <1>5, <1>6, <1>7, <1>8 DEF IInv

-----------------------------------------------------------------------------
(* A side is hashed *)

\* A hit answers with the digest of the file as it is; a miss starts to read.
LEMMA OpenStep ==
  ASSUME IInv, Open, PlansFit
  PROVE  IInv'
<1> USE DEF Open, diskVars, runVars
<1> DEFINE key == Key(side, stat')
<1>1. /\ TypeOK /\ side \in Sides /\ disk \in [Sides -> FileType]
      /\ listed \in [Sides -> FileType] /\ digest = [s \in Sides |-> digest[s]]
      /\ changed \in BOOLEAN
  BY DEF IInv, TypeOK
<1>2. stat' = StatOf(disk[side]) /\ stat' \in StatType /\ stat'.mtime = disk[side].mtime
  BY <1>1, StatOfFile DEF StatOf
<1>3. UNCHANGED <<diskVars, runVars, cache, file, listed, missed, verdict>>
  OBVIOUS
<1>4. Plan' = Plan /\ Effective' = Effective /\ Same' = Same /\ Differ' = Differ
      /\ \A n : PositionOf(n)' = PositionOf(n)
  BY <1>3, PlanStays
<1>5. key \in KeyType /\ key.stat = stat' /\ key.side = side /\ key.level = Effective
  BY <1>1, <1>2, KeysType
<1>6. changed' = (changed \/ (~Capturing /\ stat' # StatOf(listed[side])))
  OBVIOUS
<1>7. ~changed' /\ ~Capturing => ~changed /\ stat' = StatOf(listed[side])
                                  /\ disk[side] = listed[side]
  <2>1. stat' = StatOf(listed[side]) => listed[side].mtime = disk[side].mtime
    BY <1>2 DEF StatOf
  <2> QED
    BY <1>1, <1>6, <2>1 DEF IInv, ListedStands
<1>8. key \in DOMAIN cache => cache[key] = Sampled(disk[side].data, Effective)
  BY <1>2, <1>5 DEF IInv, EntriesSound
<1>9. \/ /\ key \in DOMAIN cache /\ pc' # "read"
         /\ digest' = [digest EXCEPT ![side] = cache[key]]
      \/ /\ pc' = "read" /\ side' = side /\ digest' = digest
  BY DEF SideDone
<1>10. side' \in Sides /\ pc' \in {"read", "open", "verdict"} /\ got' = <<>>
  BY <1>1 DEF SideDone, Sides
<1> HIDE DEF Open, key
<1>11. TypeOK'
  <2>1. got' \in Seq(Nat)
    BY <1>10, EmptySeq
  <2>2. changed' \in BOOLEAN
    BY <1>1, <1>6
  <2>3. digest' = [s \in Sides |-> digest'[s]]
    BY <1>1, <1>9
  <2> QED
    BY <1>1, <1>2, <1>3, <1>10, <2>1, <2>2, <2>3 DEF TypeOK
<1>12. TimesPast'
  BY <1>1, <1>2, <1>3 DEF IInv, TimesPast
<1>13. ListedStands' /\ EntriesSound(cache)' /\ EntriesSound(file.entries)'
  BY <1>3 DEF IInv, ListedStands, EntriesSound
<1>14. ReadStands'
  <2> SUFFICES ASSUME pc' = "read"
               PROVE  /\ ~changed' /\ ~Capturing' => stat' = StatOf(listed'[side'])
                      /\ stat' = StatOf(disk'[side'])
                      /\ PrefixOf(got, disk[side].data)'
    BY DEF ReadStands
  <2>1. side' = side
    BY <1>9
  <2>2. Capturing' = Capturing
    BY <1>3, <2>1 DEF Capturing
  <2>3. Len(got') = 0 /\ 1..Len(got') = {}
    BY <1>10, EmptySeq
  <2>4. ~Plan.isFullRead => 0 <= Plan.len1 + Plan.len2
    BY <1>1, PartialPlan DEF FileType
  <2>5. PrefixOf(got, disk[side].data)'
    BY <1>4, <2>3, <2>4 DEF PrefixOf
  <2> QED
    BY <1>2, <1>3, <1>7, <2>1, <2>2, <2>5
<1>15. DigestStands'
  <2> SUFFICES ASSUME NEW s \in Sides, ~changed', ~missed, digest'[s] # None,
                      kind = "live" \/ s = "B"
               PROVE  digest'[s] = Sampled(listed[s].data, Effective)
    BY <1>3, <1>4 DEF DigestStands
  <2>1. CASE s = side /\ key \in DOMAIN cache /\ digest' = [digest EXCEPT ![side] = cache[key]]
    <3>1. digest'[s] = cache[key]
      BY <1>1, <2>1
    <3>2. ~Capturing
      BY <2>1 DEF Capturing
    <3> QED
      BY <1>7, <1>8, <2>1, <3>1, <3>2
  <2>2. CASE digest'[s] = digest[s]
    BY <1>1, <1>6, <2>2 DEF IInv, DigestStands
  <2>3. digest'[s] = digest[s] \/ s = side
    BY <1>1, <1>9
  <2> QED
    BY <1>9, <2>1, <2>2, <2>3
<1>16. NothingYet' /\ TornInCache'
  BY <1>10 DEF NothingYet, TornInCache
<1>17. ChangedStands'
  <2>1. stat' # StatOf(listed[side]) => disk[side] # listed[side]
    BY <1>2
  <2> QED
    BY <1>1, <1>3, <1>6, <2>1 DEF IInv, ChangedStands
<1>18. VerdictIsTrue'
  BY <1>3, <1>4 DEF IInv, VerdictIsTrue
<1> QED
  BY <1>11, <1>12, <1>13, <1>14, <1>15, <1>16, <1>17, <1>18 DEF IInv

\* A side without a digest.
LEMMA CannotReadStep ==
  ASSUME IInv, CannotRead
  PROVE  IInv'
<1> USE DEF CannotRead, diskVars, runVars
<1>1. /\ UNCHANGED <<diskVars, runVars, cache, file, listed, stat, changed, missed, verdict>>
      /\ digest' = [digest EXCEPT ![side] = None] /\ got' = <<>>
      /\ side' \in Sides /\ pc' \in {"open", "verdict"}
  BY DEF SideDone, IInv, TypeOK, Sides
<1>2. /\ \A s \in Sides : digest'[s] = digest[s] \/ digest'[s] = None
      /\ digest' = [s \in Sides |-> digest'[s]]
  BY <1>1 DEF IInv, TypeOK
<1>3. Plan' = Plan /\ Effective' = Effective /\ Same' = Same /\ Differ' = Differ
  BY <1>1, PlanStays
<1> HIDE DEF CannotRead
<1>4. TypeOK'
  <2>1. got' \in Seq(Nat)
    BY <1>1, EmptySeq
  <2> QED
    BY <1>1, <1>2, <2>1 DEF IInv, TypeOK
<1>5. TimesPast' /\ ListedStands' /\ EntriesSound(cache)' /\ EntriesSound(file.entries)'
  BY <1>1 DEF IInv, TimesPast, ListedStands, EntriesSound
<1>6. ReadStands' /\ NothingYet' /\ TornInCache'
  BY <1>1 DEF ReadStands, NothingYet, TornInCache
<1>7. DigestStands'
  BY <1>1, <1>2, <1>3 DEF IInv, DigestStands
<1>8. ChangedStands' /\ VerdictIsTrue'
  BY <1>1, <1>3 DEF IInv, ChangedStands, VerdictIsTrue
<1> QED
  BY <1>4, <1>5, <1>6, <1>7, <1>8 DEF IInv

\* A plan reads from the first block on.
LEMMA PositionType ==
  ASSUME TypeOK, PlansFit, NEW n \in Nat \ {0}
  PROVE  PositionOf(n) \in Nat \ {0}
<1>1. CASE Plan.isFullRead
  BY <1>1 DEF PositionOf
<1>2. CASE ~Plan.isFullRead
  <2>1. PICK d \in Datas : TRUE
    BY HashPhaseAssumption
  <2>2. Plan.off1 \in Nat /\ Plan.len1 \in Nat /\ Plan.off2 \in Nat
    BY <1>2, <2>1, PartialPlan
  <2>3. \A a, b, c \in Nat : /\ a + n \in Nat \ {0}
                             /\ ~(n <= b) => c + n - b \in Nat \ {0}
    OBVIOUS
  <2> QED
    BY <1>2, <2>2, <2>3 DEF PositionOf
<1> QED
  BY <1>1, <1>2

\* One block more of the prefix.
LEMMA ReadBlockStep ==
  ASSUME IInv, ReadBlock, PlansFit
  PROVE  IInv'
<1> DEFINE data == disk[side].data
           block == data[PositionOf(Len(got) + 1)]
<1>1. /\ TypeOK /\ pc = "read" /\ got' = Append(got, block) /\ got \in Seq(Nat)
      /\ UNCHANGED <<diskVars, runVars, cache, file, pc, side, listed, stat, changed, missed,
                     digest, verdict>>
  BY DEF ReadBlock, IInv, TypeOK
<1>2. data \in Datas /\ data \in Seq(Nat) /\ Len(data) \in Nat /\ Len(got) \in Nat
  <2>1. data \in Datas
    BY <1>1 DEF TypeOK, FileType
  <2> QED
    BY <1>1, <2>1, HashPhaseAssumption, LenProperties
<1>3. /\ PositionOf(Len(got) + 1) \in 1..Len(data)
      /\ ~Plan.isFullRead => Len(got) # Plan.len1 + Plan.len2
  <2>1. PositionOf(Len(got) + 1) \in Nat \ {0}
    BY <1>1, <1>2, PositionType
  <2>2. ~(PositionOf(Len(got) + 1) > Len(data))
    BY DEF ReadBlock, ReadOver
  <2>3. ~Plan.isFullRead => Len(got) # Plan.len1 + Plan.len2
    BY DEF ReadBlock, ReadOver
  <2> QED
    BY <1>2, <2>1, <2>2, <2>3
<1>4. Plan' = Plan /\ Effective' = Effective /\ Same' = Same /\ Differ' = Differ
      /\ \A n : PositionOf(n)' = PositionOf(n)
  BY <1>1, PlanStays DEF runVars
<1>5. block \in Nat
  BY <1>2, <1>3, ElementOfSeq
<1> HIDE DEF block
<1>6. /\ got' \in Seq(Nat) /\ Len(got') = Len(got) + 1
      /\ \A i \in 1..Len(got) : got'[i] = got[i]
      /\ got'[Len(got) + 1] = block
  BY <1>1, <1>5, AppendProperties
<1>7. TypeOK'
  BY <1>1, <1>6 DEF TypeOK, diskVars, runVars
<1>8. TimesPast' /\ ListedStands' /\ EntriesSound(cache)' /\ EntriesSound(file.entries)'
  BY <1>1 DEF IInv, TimesPast, ListedStands, EntriesSound, diskVars
<1>9. ReadStands'
  <2>1. (PrefixOf(got, data) => PrefixOf(got, data)')
    <3> SUFFICES ASSUME PrefixOf(got, data)
                 PROVE  PrefixOf(got, data)'
      OBVIOUS
    <3>1. data' = data
      BY <1>1 DEF diskVars
    <3>2. ~Plan.isFullRead => Len(got') <= Plan.len1 + Plan.len2
      <4> SUFFICES ASSUME ~Plan.isFullRead
                   PROVE  Len(got') <= Plan.len1 + Plan.len2
        OBVIOUS
      <4>1. Plan.len1 + Plan.len2 \in Nat
        BY <1>1, <1>2, PartialPlan
      <4> QED
        BY <1>2, <1>3, <1>6, <4>1 DEF PrefixOf
    <3>3. ASSUME NEW i \in 1..Len(got')
          PROVE  PositionOf(i) \in 1..Len(data) /\ got'[i] = data[PositionOf(i)]
      <4>1. CASE i = Len(got) + 1
        BY <1>3, <1>6, <4>1 DEF block
      <4>2. CASE i # Len(got) + 1
        <5>1. i \in 1..Len(got)
          BY <1>2, <1>6, <4>2
        <5> QED
          BY <1>6, <5>1 DEF PrefixOf
      <4> QED
        BY <4>1, <4>2
    <3> HIDE DEF data
    <3> QED
      BY <1>4, <3>1, <3>2, <3>3 DEF PrefixOf
  <2>2. Capturing' = Capturing
    BY <1>1 DEF Capturing, runVars
  <2> HIDE DEF data
  <2>3. disk'[side'].data = data /\ PrefixOf(got, disk[side].data)' = PrefixOf(got, data)'
    BY <1>1 DEF data, diskVars
  <2> QED
    BY <1>1, <2>1, <2>2, <2>3 DEF IInv, ReadStands, diskVars, data
<1>10. DigestStands' /\ NothingYet' /\ TornInCache' /\ ChangedStands' /\ VerdictIsTrue'
  BY <1>1, <1>4 DEF IInv, DigestStands, NothingYet, TornInCache, ChangedStands, VerdictIsTrue,
                    diskVars, runVars
<1> QED
  BY <1>7, <1>8, <1>9, <1>10 DEF IInv

\* The blocks read are complete, and true of the file unless its time moved.
LEMMA FinishStep ==
  ASSUME IInv, Finish, PlansFit
  PROVE  IInv'
<1> DEFINE key  == Key(side, stat)
           data == disk[side].data
<1>1. /\ TypeOK /\ pc = "read" /\ side \in Sides /\ stat \in StatType /\ got \in Seq(Nat)
      /\ changed \in BOOLEAN /\ data \in Datas
      /\ UNCHANGED <<diskVars, runVars, file, listed, stat, verdict>>
      /\ \/ changed' = (changed \/ (~Capturing /\ Moved)) /\ missed' = missed
         \/ ~Capturing /\ missed' = (missed \/ Moved) /\ changed' = changed
      /\ cache' = Store(cache, key, got)
  BY DEF Finish, IInv, TypeOK, FileType
<1>2. /\ digest' = [digest EXCEPT ![side] = got] /\ got' = <<>>
      /\ side' \in Sides /\ pc' \in {"open", "verdict"}
  BY <1>1 DEF Finish, SideDone, Sides
<1>3. Plan' = Plan /\ Effective' = Effective /\ Same' = Same /\ Differ' = Differ
  BY <1>1, PlanStays DEF runVars
<1>4. key \in KeyType /\ key.stat = stat /\ key.side = side /\ key.level = Effective
  BY <1>1, KeysType
<1>5. /\ DOMAIN cache' = DOMAIN cache \cup {key}
      /\ cache'[key] = got
      /\ \A k \in DOMAIN cache \ {key} : cache'[k] = cache[k]
  BY <1>1 DEF Store
<1>6. stat.mtime = disk[side].mtime =>
        stat = StatOf(disk[side]) /\ got = Sampled(data, Effective)
  <2> SUFFICES ASSUME stat.mtime = disk[side].mtime
               PROVE  stat = StatOf(disk[side]) /\ got = Sampled(data, Effective)
    OBVIOUS
  <2>1. stat = StatOf(disk[side]) /\ PrefixOf(got, data)
    BY <1>1 DEF IInv, ReadStands
  <2>2. ReadOver
    BY DEF Finish
  <2> QED
    BY <1>1, <2>1, <2>2, PrefixComplete DEF ReadOver
<1>7. ~changed' /\ ~missed' /\ ~Capturing => /\ ~changed /\ disk[side] = listed[side]
                                             /\ stat.mtime = disk[side].mtime
  <2> SUFFICES ASSUME ~changed', ~missed', ~Capturing
               PROVE  ~changed /\ disk[side] = listed[side] /\ stat.mtime = disk[side].mtime
    OBVIOUS
  <2>1. ~changed /\ stat = StatOf(disk[side])
    BY <1>1 DEF Moved
  <2>2. stat = StatOf(listed[side])
    BY <1>1, <2>1 DEF IInv, ReadStands
  <2>3. stat.mtime = disk[side].mtime /\ stat.mtime = listed[side].mtime
    BY <2>1, <2>2 DEF StatOf
  <2> QED
    BY <1>1, <2>1, <2>3 DEF IInv, ListedStands
<1> HIDE DEF key, data
<1>8. TypeOK'
  <2>1. got' \in Seq(Nat)
    BY <1>2, EmptySeq
  <2>2. changed' \in BOOLEAN /\ missed' \in BOOLEAN
    BY <1>1 DEF TypeOK, Moved
  <2>3. digest' = [s \in Sides |-> digest'[s]]
    BY <1>1, <1>2 DEF TypeOK
  <2>4. DOMAIN cache' \subseteq KeyType
    BY <1>1, <1>4, <1>5 DEF TypeOK
  <2> QED
    BY <1>1, <1>2, <2>1, <2>2, <2>3, <2>4 DEF TypeOK, diskVars, runVars
<1>9. TimesPast'
  BY <1>1, <1>4, <1>5 DEF IInv, TimesPast, diskVars
<1>10. EntriesSound(cache)'
  <2> SUFFICES ASSUME NEW k \in DOMAIN cache', k.stat.mtime = disk[k.side].mtime
               PROVE  /\ k.stat = StatOf(disk[k.side])
                      /\ cache'[k] = Sampled(disk[k.side].data, k.level)
    BY <1>1 DEF EntriesSound, diskVars
  <2>1. CASE k = key
    BY <1>4, <1>5, <1>6, <2>1 DEF data
  <2>2. CASE k # key
    BY <1>5, <2>2 DEF IInv, EntriesSound
  <2> QED
    BY <2>1, <2>2
<1>11. ListedStands' /\ EntriesSound(file.entries)'
  BY <1>1 DEF IInv, ListedStands, EntriesSound, diskVars
<1>12. ReadStands' /\ NothingYet' /\ TornInCache'
  BY <1>2 DEF ReadStands, NothingYet, TornInCache
<1>13. DigestStands'
  <2> SUFFICES ASSUME NEW s \in Sides, ~changed', ~missed', digest'[s] # None,
                      kind = "live" \/ s = "B"
               PROVE  digest'[s] = Sampled(listed[s].data, Effective)
    BY <1>1, <1>3 DEF DigestStands, runVars
  <2>1. CASE s = side
    <3>1. digest'[s] = got
      BY <1>1, <1>2, <2>1 DEF TypeOK
    <3>2. ~Capturing
      BY <2>1 DEF Capturing
    <3> QED
      BY <1>6, <1>7, <2>1, <3>1, <3>2 DEF data
  <2>2. CASE s # side
    <3>1. digest'[s] = digest[s] /\ ~changed /\ ~missed
      BY <1>1, <1>2, <2>2 DEF TypeOK
    <3> QED
      BY <3>1 DEF IInv, DigestStands
  <2> QED
    BY <2>1, <2>2
<1>14. ChangedStands'
  <2>1. CASE changed
    BY <1>1, <2>1 DEF IInv, ChangedStands, diskVars
  <2>2. CASE ~changed /\ changed'
    <3>1. ~Capturing /\ StatOf(disk[side]) # stat
      BY <1>1, <2>2 DEF Moved
    <3>2. stat = StatOf(listed[side])
      BY <1>1, <2>2, <3>1 DEF IInv, ReadStands
    <3>3. disk[side] # listed[side]
      BY <3>1, <3>2
    <3> QED
      BY <1>1, <2>2, <3>3 DEF IInv, ChangedStands, diskVars
  <2>3. CASE ~changed /\ ~changed'
    BY <1>1, <2>3 DEF IInv, ChangedStands
  <2> QED
    BY <1>1, <2>1, <2>2, <2>3
<1>15. VerdictIsTrue'
  <2>1. ~missed' => ~missed
    BY <1>1 DEF TypeOK
  <2>2. VerdictIsTrue
    BY DEF IInv
  <2> QED
    BY <1>1, <1>3, <2>1, <2>2 DEF VerdictIsTrue, runVars
<1> QED
  BY <1>8, <1>9, <1>10, <1>11, <1>12, <1>13, <1>14, <1>15 DEF IInv

-----------------------------------------------------------------------------
(* The verdict, and the end of a run *)

\* The verdict follows from two digests that stand.
LEMMA DecideStep ==
  ASSUME IInv, Decide
  PROVE  IInv'
<1> USE DEF Decide, diskVars, runVars
<1>1. Plan' = Plan /\ Effective' = Effective /\ Same' = Same /\ Differ' = Differ
  BY PlanStays
<1>2. TypeOK'
  BY DEF IInv, TypeOK
<1>3. TimesPast' /\ ListedStands' /\ EntriesSound(cache)' /\ EntriesSound(file.entries)'
  BY DEF IInv, TimesPast, ListedStands, EntriesSound
<1>4. ReadStands' /\ NothingYet' /\ TornInCache'
  BY DEF ReadStands, NothingYet, TornInCache
<1>5. DigestStands'
  BY <1>1 DEF IInv, DigestStands
<1>6. Same \in {"Identical", "IdenticalPartial"}
      /\ Differ \in {"ContentMismatch", "ContentMismatchPartial"}
  BY DEF Same, Differ
<1>7. ChangedStands'
  BY <1>6 DEF IInv, ChangedStands
<1>8. VerdictIsTrue'
  <2> SUFFICES ASSUME kind = "live", verdict' \in {Same, Differ}, ~missed
               PROVE  verdict' = Same <=> Sampled(listed["A"].data, Effective)
                                            = Sampled(listed["B"].data, Effective)
    BY <1>1 DEF VerdictIsTrue
  <2>1. ~changed
    <3>1. changed => verdict' = "ChangedDuringScan"
      OBVIOUS
    <3> QED  BY <1>6, <3>1
  <2>2. None \notin {digest["A"], digest["B"]}
    <3>1. None \in {digest["A"], digest["B"]} => verdict' = "Unreadable"
      BY <2>1
    <3> QED  BY <1>6, <3>1
  <2>3. verdict' = IF digest["A"] = digest["B"] THEN Same ELSE Differ
    BY <2>1, <2>2
  <2>4. \A s \in Sides : digest[s] = Sampled(listed[s].data, Effective)
    BY <2>1, <2>2 DEF IInv, DigestStands, Sides
  <2> QED
    BY <1>6, <2>3, <2>4 DEF Sides
<1> QED
  BY <1>2, <1>3, <1>4, <1>5, <1>7, <1>8 DEF IInv

\* Leaving a run, in whatever way, or going on to save the cache.
LEMMA EndStep ==
  ASSUME IInv, Cancel \/ Saved \/ Crash
  PROVE  IInv'
<1> USE DEF diskVars, runVars
<1>1. /\ UNCHANGED <<diskVars, runVars, file, side, listed, stat, changed, missed>>
      /\ verdict' = verdict \/ verdict' = None
      /\ \/ RunOver
         \/ pc' = "save" /\ UNCHANGED <<cache, got, digest>>
  BY DEF Cancel, Saved, Crash
<1>2. /\ pc' \in {"off", "save"}
      /\ cache' = cache \/ cache' = <<>>
      /\ got' = got \/ got' = <<>>
      /\ digest' = digest \/ digest' = [s \in Sides |-> None]
  BY <1>1 DEF RunOver
<1>3. Plan' = Plan /\ Effective' = Effective /\ Same' = Same /\ Differ' = Differ
  BY <1>1, PlanStays
<1>4. TypeOK'
  <2>1. got' \in Seq(Nat)
    BY <1>2, EmptySeq DEF IInv, TypeOK
  <2>2. DOMAIN cache' \subseteq KeyType
    BY <1>2 DEF IInv, TypeOK
  <2>3. digest' = [s \in Sides |-> digest'[s]]
    BY <1>2 DEF IInv, TypeOK
  <2> QED
    BY <1>1, <1>2, <2>1, <2>2, <2>3 DEF IInv, TypeOK
<1>5. TimesPast' /\ ListedStands' /\ EntriesSound(file.entries)'
  BY <1>1, <1>2 DEF IInv, TimesPast, ListedStands, EntriesSound
<1>6. EntriesSound(cache)'
  BY <1>1, <1>2 DEF IInv, EntriesSound
<1>7. ReadStands' /\ NothingYet' /\ TornInCache'
  BY <1>2 DEF ReadStands, NothingYet, TornInCache
<1>8. DigestStands'
  BY <1>1, <1>2, <1>3 DEF IInv, DigestStands
<1>9. ChangedStands' /\ VerdictIsTrue'
  BY <1>1, <1>3 DEF IInv, ChangedStands, VerdictIsTrue, Same, Differ, None
<1> QED
  BY <1>4, <1>5, <1>6, <1>7, <1>8, <1>9 DEF IInv

-----------------------------------------------------------------------------
(* The cache is saved *)

\* What is in the file was in memory.
LEMMA SaveStep ==
  ASSUME IInv, Truncate \/ SaveKey \/ SaveDigest
  PROVE  IInv'
<1> USE DEF diskVars, runVars
<1>1. UNCHANGED <<diskVars, runVars, cache, side, listed, stat, got, changed, missed, digest,
                  verdict>>
      /\ pc' = "entries"
  BY DEF Truncate, SaveKey, SaveDigest
<1>2. Plan' = Plan /\ Effective' = Effective /\ Same' = Same /\ Differ' = Differ
  BY <1>1, PlanStays
<1>3. file = [count |-> file.count, entries |-> file.entries, torn |-> file.torn]
  BY DEF IInv, TypeOK
<1>4. /\ DOMAIN file'.entries \subseteq DOMAIN file.entries \cup DOMAIN cache
      /\ \A k \in DOMAIN file'.entries :
           \/ k \in DOMAIN cache /\ file'.entries[k] = cache[k]
           \/ k \in DOMAIN file.entries /\ file'.entries[k] = file.entries[k]
      /\ file'.torn \subseteq DOMAIN cache
      /\ file' = [count |-> file'.count, entries |-> file'.entries, torn |-> file'.torn]
  <2>1. CASE Truncate
    <3>1. file' = [count |-> Cardinality(DOMAIN cache), entries |-> <<>>, torn |-> {}]
      BY <2>1 DEF Truncate, NoFile
    <3>2. DOMAIN <<>> = {}
      OBVIOUS
    <3>3. file'.entries = <<>> /\ file'.torn = {}
      BY <3>1
    <3> QED
      BY <3>1, <3>2, <3>3
  <2>2. CASE SaveKey
    BY <1>3, <2>2 DEF SaveKey, Unsaved
  <2>3. CASE SaveDigest
    <3>1. PICK k \in file.torn :
            file' = [count |-> file.count, entries |-> Store(file.entries, k, cache[k]),
                     torn |-> {}]
      BY <1>3, <2>3 DEF SaveDigest
    <3>2. k \in DOMAIN cache
      BY <2>3 DEF SaveDigest, IInv, TornInCache
    <3>3. /\ DOMAIN file'.entries = DOMAIN file.entries \cup {k}
          /\ file'.entries[k] = cache[k]
          /\ \A j \in DOMAIN file.entries \ {k} : file'.entries[j] = file.entries[j]
      BY <3>1 DEF Store
    <3> QED
      BY <3>1, <3>2, <3>3
  <2> QED
    BY <2>1, <2>2, <2>3
<1>5. TypeOK'
  BY <1>1, <1>4 DEF IInv, TypeOK
<1>6. TimesPast' /\ ListedStands' /\ EntriesSound(cache)'
  BY <1>1, <1>4 DEF IInv, TimesPast, ListedStands, EntriesSound
<1>7. EntriesSound(file.entries)'
  BY <1>1, <1>4 DEF IInv, EntriesSound
<1>8. ReadStands' /\ NothingYet' /\ TornInCache'
  BY <1>1, <1>4 DEF ReadStands, NothingYet, TornInCache
<1>9. DigestStands' /\ ChangedStands' /\ VerdictIsTrue'
  BY <1>1, <1>2 DEF IInv, DigestStands, ChangedStands, VerdictIsTrue
<1> QED
  BY <1>5, <1>6, <1>7, <1>8, <1>9 DEF IInv

-----------------------------------------------------------------------------
(* The theorems *)

\* The invariant holds at the start.
LEMMA InitIInv ==
  ASSUME Init
  PROVE  IInv
<1> USE DEF Init, Sides
<1>1. PICK d \in Datas : disk = [s \in Sides |-> [mtime |-> 0, data |-> d]]
  OBVIOUS
<1>2. disk \in [Sides -> FileType]
  BY <1>1 DEF FileType
<1>3. TypeOK
  <2>1. stat \in StatType
    BY <1>2, StatOfFile
  <2>2. got \in Seq(Nat)
    BY EmptySeq
  <2>3. DOMAIN cache \subseteq KeyType /\ DOMAIN file.entries \subseteq KeyType
        /\ file.torn \subseteq KeyType
    BY DEF NoFile
  <2>4. file = [count |-> file.count, entries |-> file.entries, torn |-> file.torn]
    BY DEF NoFile
  <2>5. digest = [s \in Sides |-> digest[s]]
    OBVIOUS
  <2> QED
    BY <1>2, <2>1, <2>2, <2>3, <2>4, <2>5 DEF TypeOK
<1>4. TimesPast /\ ListedStands
  BY <1>1 DEF TimesPast, ListedStands, NoFile, StatOf
<1>5. EntriesSound(cache) /\ EntriesSound(file.entries)
  BY DEF EntriesSound, NoFile
<1>6. ReadStands /\ DigestStands /\ NothingYet /\ TornInCache
  BY DEF ReadStands, DigestStands, NothingYet, TornInCache
<1>7. ChangedStands /\ VerdictIsTrue
  BY DEF ChangedStands, VerdictIsTrue, Same, Differ, None
<1> QED
  BY <1>3, <1>4, <1>5, <1>6, <1>7 DEF IInv

\* A step that changes nothing.
LEMMA StutterStep ==
  ASSUME IInv, UNCHANGED vars
  PROVE  IInv'
<1> USE DEF vars
<1>1. Plan' = Plan /\ Effective' = Effective /\ Same' = Same /\ Differ' = Differ
      /\ \A n : PositionOf(n)' = PositionOf(n)
  BY PlanStays
<1>2. TypeOK' /\ TimesPast' /\ ListedStands' /\ NothingYet' /\ ChangedStands' /\ TornInCache'
  BY DEF IInv, TypeOK, TimesPast, ListedStands, NothingYet, ChangedStands, TornInCache
<1>3. EntriesSound(cache)' /\ EntriesSound(file.entries)'
  BY DEF IInv, EntriesSound
<1>4. ReadStands' /\ DigestStands' /\ VerdictIsTrue'
  BY <1>1 DEF IInv, ReadStands, PrefixOf, Capturing, DigestStands, VerdictIsTrue
<1> QED
  BY <1>2, <1>3, <1>4 DEF IInv

\* Every step keeps the invariant.
LEMMA NextIInv ==
  ASSUME IInv, [Next]_vars, FreshTimes, PlansFit
  PROVE  IInv'
<1>1. CASE Write \/ CopyOver
  BY <1>1, WriteStep
<1>2. CASE StartRun
  BY <1>2, StartRunStep
<1>3. CASE List
  BY <1>3, ListStep
<1>4. CASE Open
  BY <1>4, OpenStep
<1>5. CASE CannotRead
  BY <1>5, CannotReadStep
<1>6. CASE ReadBlock
  BY <1>6, ReadBlockStep
<1>7. CASE Finish
  BY <1>7, FinishStep
<1>8. CASE Decide
  BY <1>8, DecideStep
<1>9. CASE Cancel \/ Saved \/ Crash
  BY <1>9, EndStep
<1>10. CASE Truncate \/ SaveKey \/ SaveDigest
  BY <1>10, SaveStep
<1>11. CASE UNCHANGED vars
  BY <1>11, StutterStep
<1> QED
  BY <1>1, <1>2, <1>3, <1>4, <1>5, <1>6, <1>7, <1>8, <1>9, <1>10, <1>11 DEF Next

\* The inductive invariant of a hash phase.
THEOREM IInvHolds ==
  ASSUME FreshTimes, PlansFit
  PROVE  Spec => []IInv
<1>1. Init => IInv
  BY InitIInv
<1>2. IInv /\ [Next]_vars => IInv'
  BY NextIInv
<1> QED
  BY <1>1, <1>2, PTL DEF Spec

\* Whatever is written while a pair is hashed, and whatever earlier runs left in
\* the cache, "identical" means that the listed files agree where the plan looks,
\* and "mismatch" that they do not.
THEOREM VerdictsAreTrue ==
  ASSUME FreshTimes, PlansFit
  PROVE  Spec => []VerdictIsTrue
<1>1. IInv => VerdictIsTrue
  BY DEF IInv
<1> QED
  BY <1>1, IInvHolds, PTL

\* What the cache holds for a file as it is now is what reading it would give,
\* across runs, cancelled captures, crashes and saves cut short.
THEOREM CacheHitsAreSound ==
  ASSUME FreshTimes, PlansFit
  PROVE  Spec => []CacheHitIsSound
<1>1. IInv => CacheHitIsSound
  BY DEF IInv, EntriesSound, CacheHitIsSound, StatOf
<1> QED
  BY <1>1, IInvHolds, PTL

\* A pair is reported as changed during the scan only if one of its files is no
\* longer the one that was listed.
THEOREM ChangedHasCause ==
  ASSUME FreshTimes, PlansFit
  PROVE  Spec => []ChangedMeansChanged
<1>1. IInv => ChangedMeansChanged
  BY DEF IInv, ChangedStands, ChangedMeansChanged
<1> QED
  BY <1>1, IInvHolds, PTL
=============================================================================
