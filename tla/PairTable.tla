----------------------------- MODULE PairTable -----------------------------
(***************************************************************************)
(* The data of the match table (src/Comparison/MatchTable.h) and the       *)
(* effect of one insert on it, with no account of threads or locks: at     *)
(* most one stored entry per key; the second side to deliver a key         *)
(* consumes the stored entry and the two form a pair.                      *)
(*                                                                         *)
(* Definitions marked "Wrong" are no part of the model: each is a plausible *)
(* mistake in the definition that follows it, which a property must catch. *)
(***************************************************************************)
EXTENDS Integers, FiniteSets

CONSTANTS
  Keys,      \* canonical keys (folded relative paths)
  Entries,   \* filesystem entries either side may report
  SideOf,    \* SideOf[e]: the side that reports entry e
  KeyOf,     \* KeyOf[e]: the canonical key of entry e
  Empty      \* a free slot of the table, or no entry at all

Src   == 0
Dst   == 1
Sides == {Src, Dst}
Other(s) == 1 - s

ASSUME PairingAssumption ==
  /\ SideOf \in [Entries -> Sides]
  /\ KeyOf \in [Entries -> Keys]
  /\ Empty \notin Entries

EntriesOf(s) == {e \in Entries : SideOf[e] = s}

VARIABLES
  slot,      \* the table: key -> stored entry, or Empty
  pairs,     \* <<source entry, destination entry>> handed to the classifier
  replaced   \* entries dropped because their own side reported the key again

Pair(e, f) == IF SideOf[e] = Src THEN <<e, f>> ELSE <<f, e>>

(***************************************************************************)
(* Outcome::Inserted, Replaced and Matched of MatchTable::insert, as the   *)
(* effect on the table and on the pairs the callers classify.              *)
(***************************************************************************)
StoreIn(e) ==
  /\ slot[KeyOf[e]] = Empty
  /\ slot' = [slot EXCEPT ![KeyOf[e]] = e]
  /\ UNCHANGED <<pairs, replaced>>

ReplaceIn(e) ==
  /\ slot[KeyOf[e]] # Empty
  /\ SideOf[slot[KeyOf[e]]] = SideOf[e]
  /\ slot' = [slot EXCEPT ![KeyOf[e]] = e]
  /\ replaced' = replaced \cup {slot[KeyOf[e]]}
  /\ UNCHANGED pairs

MatchIn(e) ==
  /\ slot[KeyOf[e]] # Empty
  /\ SideOf[slot[KeyOf[e]]] # SideOf[e]
  /\ pairs' = pairs \cup {Pair(e, slot[KeyOf[e]])}
  /\ slot' = [slot EXCEPT ![KeyOf[e]] = Empty]
  /\ UNCHANGED replaced

InsertIn(e) == StoreIn(e) \/ ReplaceIn(e) \/ MatchIn(e)

\* What MatchTable::remaining() yields for a side.
Stored(s) == {e \in EntriesOf(s) : slot[KeyOf[e]] = e}
=============================================================================
