----------------------------- MODULE PartialRead -----------------------------
(***************************************************************************)
(* Which parts of a file a partial verification reads                      *)
(* (src/Hashing/PartialRead.cpp): one or two runs of whole MiB blocks,     *)
(* chosen from the size, the percentage and the pattern alone, so that the *)
(* two sides of a pair hash the same bytes.                                *)
(***************************************************************************)
EXTENDS Integers

CONSTANTS
  Mib,                \* kPartialMib: the unit of sampling, in bytes
  FullReadThreshold   \* kFullReadThreshold: smaller files are read whole

ASSUME PartialReadAssumption ==
  /\ Mib \in Nat \ {0}
  /\ FullReadThreshold \in Nat
  /\ FullReadThreshold >= Mib

\* Random is resolved to one of these before a run begins.
Patterns == {"Edges", "Center"}

FullRead == [off1 |-> 0, len1 |-> 0, off2 |-> 0, len2 |-> 0, isFullRead |-> TRUE]

Blocks(off1, len1, off2, len2) ==
  [off1 |-> off1, len1 |-> len1, off2 |-> off2, len2 |-> len2, isFullRead |-> FALSE]

Hundred == 100 * Mib

\* Blocks to read: the percentage of the size in MiB, rounded half up, at
\* least one. The quotient and the remainder are scaled apart, so that the
\* product does not overflow.
Rounded(size, percent) ==
  (size \div Hundred) * percent + ((size % Hundred) * percent + Hundred \div 2) \div Hundred

Target(size, percent) ==
  IF Rounded(size, percent) = 0 THEN 1 ELSE Rounded(size, percent)

\* Blocks that cover the file, the last one perhaps in part.
WholeMibs(size) == (size + Mib - 1) \div Mib

\* One run in the middle; an odd block more is left out before it than after.
CenterBlocks(size, target) ==
  LET discard == size \div Mib - target
      before  == (discard + 1) \div 2
  IN  Blocks(before * Mib, target * Mib, 0, 0)

\* A run at the start, which gets the odd block, and one that ends the file.
EdgeBlocks(size, target) ==
  LET head == ((target + 1) \div 2) * Mib
      tail == (target \div 2) * Mib
  IN  IF tail = 0 THEN Blocks(0, head, 0, 0) ELSE Blocks(0, head, size - tail, tail)

ComputePartialReadPlan(size, percent, pattern) ==
  LET target == Target(size, IF percent < 1 THEN 1 ELSE percent) IN
  IF size <= FullReadThreshold \/ percent >= 100 \/ target >= WholeMibs(size)
  THEN FullRead
  ELSE IF pattern = "Center" THEN CenterBlocks(size, target)
                             ELSE EdgeBlocks(size, target)

\* What a file is recorded, and cached, as verified with.
EffectiveLevel(plan, percent, pattern) ==
  IF plan.isFullRead THEN [percent |-> 100, pattern |-> "Edges"]
                     ELSE [percent |-> percent, pattern |-> pattern]
=============================================================================
