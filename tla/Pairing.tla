------------------------------ MODULE Pairing ------------------------------
(***************************************************************************)
(* What the match table of the concurrent comparer promises, with every    *)
(* insert a single step: two sides stream their entries into the table of  *)
(* PairTable, in any order, until each of them closes.                     *)
(*                                                                         *)
(* MatchTable is shown to implement this specification, so the modules     *)
(* that build on the table (ConcurrentComparer) may use an atomic insert.  *)
(***************************************************************************)
EXTENDS PairTable

VARIABLES
  todo,      \* entries each side's enumerator has yet to report
  closed     \* sides that have called setSideDone

pvars == <<slot, todo, pairs, replaced, closed>>

-----------------------------------------------------------------------------

Init ==
  /\ slot = [k \in Keys |-> Empty]
  /\ todo = [s \in Sides |-> EntriesOf(s)]
  /\ pairs = {}
  /\ replaced = {}
  /\ closed = {}

Insert(s) ==
  /\ s \notin closed
  /\ \E e \in todo[s] :
       /\ InsertIn(e)
       /\ todo' = [todo EXCEPT ![s] = @ \ {e}]
  /\ UNCHANGED closed

\* A side stops when its enumerator is exhausted, fails or sees the
\* cancellation; what it has not reported is never reported later.
Close(s) ==
  /\ s \notin closed
  /\ closed' = closed \cup {s}
  /\ UNCHANGED <<slot, todo, pairs, replaced>>

Next == \E s \in Sides : Insert(s) \/ Close(s)

Spec == Init /\ [][Next]_pvars

-----------------------------------------------------------------------------
(* Properties *)

Paired    == {e \in Entries : \E p \in pairs : e \in {p[1], p[2]}}

TypeOK ==
  /\ slot \in [Keys -> Entries \cup {Empty}]
  /\ todo \in [Sides -> SUBSET Entries]
  /\ pairs \in SUBSET (Entries \X Entries)
  /\ replaced \in SUBSET Entries
  /\ closed \in SUBSET Sides

\* Every pair given to the classifier is one source and one destination entry
\* of the same key, and no entry is ever classified twice.
PairsAreMatches ==
  /\ \A p \in pairs : /\ SideOf[p[1]] = Src
                      /\ SideOf[p[2]] = Dst
                      /\ KeyOf[p[1]] = KeyOf[p[2]]
  /\ \A p, q \in pairs : p[1] = q[1] \/ p[2] = q[2] => p = q

\* No entry is lost: every entry is still to come, stored in the table, in a
\* pair, or dropped by a last-wins replace of its own side.
NothingLost ==
  \A e \in Entries :
    \/ e \in todo[SideOf[e]]
    \/ slot[KeyOf[e]] = e
    \/ e \in Paired
    \/ e \in replaced

\* The key is reported at most once per side: no case-folding collision.
UniqueKey(k) ==
  \A e, f \in Entries :
    KeyOf[e] = k /\ KeyOf[f] = k /\ SideOf[e] = SideOf[f] => e = f

\* An entry sits in the table only while its counterpart is still to come.
\* Once everything has been inserted, what is left has no counterpart, so
\* reporting it as Missing or Extra is right.
StoredAwaitsPeer ==
  \A e, f \in Entries :
    /\ UniqueKey(KeyOf[e])
    /\ KeyOf[f] = KeyOf[e]
    /\ SideOf[f] # SideOf[e]
    /\ slot[KeyOf[e]] = e
    => f \in todo[SideOf[f]]
=============================================================================
