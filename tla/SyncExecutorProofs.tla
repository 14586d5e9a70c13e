------------------------- MODULE SyncExecutorProofs -------------------------
(***************************************************************************)
(* What a synchronisation promises, for any trees, any rounds of comparing *)
(* and executing, failures, cancellations, crashes and files put in by     *)
(* others: every action has one result in the report, unless the plan was  *)
(* refused and nothing touched; what the report calls done stays done,     *)
(* nothing is lost that no row describes, and a plan of all rows that ran  *)
(* undisturbed made the destination the source.                            *)
(*                                                                         *)
(* The first three rest on IInv: no two actions of a plan create at one    *)
(* path, no directory is deleted that holds what another action creates,   *)
(* and a walk removes an unlisted directory only where something listed    *)
(* lay. The last rests on ProgressStands: at every path lies what the      *)
(* source has, or what the comparison found and an action to come will     *)
(* change, so that every action that is due finds its way free.            *)
(***************************************************************************)
EXTENDS SyncExecutor, FiniteSetTheorems, WellFoundedInduction, TLAPS

-----------------------------------------------------------------------------
(* Paths and trees                                                         *)

Names == UNION {Range(p) : p \in Paths}

\* Above and Beneath order the paths strictly.
LEMMA PathOrder ==
  /\ \A p, q \in Paths : q \in Above(p) <=> p \in Beneath(q)
  /\ \A p \in Paths : p \notin Above(p) /\ Above(p) \subseteq Paths /\ Beneath(p) \subseteq Paths
  /\ \A p, q, r \in Paths : q \in Above(p) /\ r \in Above(q) => r \in Above(p)
<1>1. Paths \subseteq Seq(Names)
  BY TreesAssumption DEF Names
<1>2. ASSUME NEW p \in Seq(Names), NEW q \in Seq(Names)
      PROVE  IsStrictPrefix(p, q) <=> /\ Len(p) < Len(q)
                                      /\ \A i \in 1..Len(p) : p[i] = q[i]
  <2>1. /\ Len(p) \in Nat /\ Len(q) \in Nat
        /\ p \in [1..Len(p) -> Names] /\ q \in [1..Len(q) -> Names]
    OBVIOUS
  <2>2. SubSeq(p, 1, Len(p)) = [i \in 1..Len(p) |-> p[i]]
    BY <2>1
  <2>3. Len(p) <= Len(q) => SubSeq(q, 1, Len(p)) = [i \in 1..Len(p) |-> q[i]]
    BY <2>1
  <2>4. IsPrefix(p, q) <=> Len(p) <= Len(q) /\ \A i \in 1..Len(p) : p[i] = q[i]
    BY <2>1, <2>2, <2>3 DEF IsPrefix
  <2>5. Len(p) = Len(q) /\ (\A i \in 1..Len(p) : p[i] = q[i]) => p = q
    BY <2>1
  <2>6. ASSUME IsStrictPrefix(p, q) PROVE Len(p) < Len(q)
    <3>1. IsPrefix(p, q) /\ p # q
      BY <2>6 DEF IsStrictPrefix
    <3>2. Len(p) <= Len(q) /\ Len(p) # Len(q)
      BY <2>4, <2>5, <3>1
    <3>3. Len(p) \in Nat /\ Len(q) \in Nat
      BY <2>1
    <3> QED
      BY <3>2, <3>3, SMT
  <2>7. ASSUME Len(p) < Len(q) PROVE p # q
    BY <2>1, <2>7
  <2> QED
    BY <2>1, <2>4, <2>6, <2>7 DEF IsStrictPrefix
<1>3. \A p, q, r \in Seq(Names) : IsStrictPrefix(p, q) /\ IsStrictPrefix(q, r) => IsStrictPrefix(p, r)
  <2> SUFFICES ASSUME NEW p \in Seq(Names), NEW q \in Seq(Names), NEW r \in Seq(Names),
                      IsStrictPrefix(p, q), IsStrictPrefix(q, r)
               PROVE  IsStrictPrefix(p, r)
    OBVIOUS
  <2>1. /\ Len(p) \in Nat /\ Len(q) \in Nat /\ Len(r) \in Nat
        /\ Len(p) < Len(q) /\ Len(q) < Len(r)
        /\ \A i \in 1..Len(p) : p[i] = q[i]
        /\ \A i \in 1..Len(q) : q[i] = r[i]
    BY <1>2
  <2>2. \A i \in 1..Len(p) : p[i] = r[i]
    BY <2>1
  <2> QED
    BY <1>2, <2>1, <2>2
<1>4. \A p \in Seq(Names) : ~IsStrictPrefix(p, p)
  BY DEF IsStrictPrefix
<1> QED
  BY <1>1, <1>3, <1>4 DEF Above, Beneath

\* What is above an object is a directory.
LEMMA TreeFacts ==
  ASSUME NEW t \in Trees
  PROVE  /\ t \in [Paths -> Objects \cup {Absent}]
         /\ \A p, q \in Paths : p \in Beneath(q) /\ t[p] # Absent => t[q] = "dir"
         /\ Absent \notin Objects /\ "dir" # Absent /\ "odd" # Absent
         /\ "dir" \notin Files \cup Links /\ "odd" \notin Files \cup Links
         /\ Objects = Files \cup Links \cup {"dir", "odd"} /\ Files \cap Links = {}
BY PathOrder, TreesAssumption DEF Trees, WellFormed, Objects

-----------------------------------------------------------------------------
(* Plans                                                                   *)

Creating == {"DirCreate", "FileCopy", "FileReplace", "LinkCreate", "LinkReplace"}

\* What an action brings is of its kind.
Brings(s, a) ==
  /\ a.op = "DirCreate" => s[a.path] = "dir"
  /\ a.op \in {"FileCopy", "FileReplace"} => s[a.path] \in Files
  /\ a.op \in {"LinkCreate", "LinkReplace"} => s[a.path] \in Links

\* A row is of one kind, which decides its actions.
LEMMA RowKinds ==
  ASSUME NEW s \in Trees, NEW d \in Trees, NEW p \in Paths
  PROVE  /\ p \in Missing(s, d) => RowActions(s, d, p) = AppendMissingLike(p, s[p])
         /\ p \in Extra(s, d) => RowActions(s, d, p) = AppendExtraLike(p, d[p])
         /\ p \in Mismatched(s, d) => RowActions(s, d, p) = AppendMismatchReplace(p, s[p], d[p])
         /\ p \notin Missing(s, d) \cup Extra(s, d) \cup Mismatched(s, d) => RowActions(s, d, p) = {}
<1>1. /\ ~(p \in Missing(s, d) /\ p \in Extra(s, d))
      /\ ~(p \in Missing(s, d) /\ p \in Mismatched(s, d))
      /\ ~(p \in Extra(s, d) /\ p \in Mismatched(s, d))
  BY DEF Missing, Extra, Unmatched, Mismatched, Both
<1> QED
  BY <1>1 DEF RowActions

\* The actions of one row: at most one of them creates.
LEMMA RowFacts ==
  ASSUME NEW s \in Trees, NEW d \in Trees, NEW p \in Paths, NEW a \in RowActions(s, d, p)
  PROVE  /\ a = Action(a.op, p) /\ a.path = p /\ a.op \in Ops
         /\ p \in Rows(s, d)
         /\ a.op \in Creating => Brings(s, a) /\ p \notin Extra(s, d)
         /\ a.op \in {"FileDelete", "LinkDelete"} => p \in PlannedExtra(s, d)
         /\ a.op = "DirDelete" =>
              /\ d[p] = "dir"
              /\ p \in PlannedExtra(s, d) \/ s[p] \in Files \cup Links
         /\ \A b \in RowActions(s, d, p) :
              /\ a.op \in Creating /\ b.op \in Creating => a = b
              /\ a.op \in Creating /\ b.op = "DirDelete" => a.op \in {"FileReplace", "LinkReplace"}
<1> USE TreeFacts DEF Action, Ops, Creating, Brings, Rows
<1>0. \A op, x : Action(op, x).op = op /\ Action(op, x).path = x
  OBVIOUS
<1>1. CASE p \in Missing(s, d)
  <2>1. a \in AppendMissingLike(p, s[p]) /\ RowActions(s, d, p) = AppendMissingLike(p, s[p])
    BY <1>1, RowKinds
  <2>2. s[p] \in Objects /\ p \notin Extra(s, d)
    BY <1>1 DEF Missing, Unmatched, Extra
  <2>3. CASE s[p] \in Files
    BY <1>0, <1>1, <2>1, <2>2, <2>3 DEF AppendMissingLike
  <2>4. CASE s[p] \in Links
    BY <1>0, <1>1, <2>1, <2>2, <2>4 DEF AppendMissingLike
  <2>5. CASE s[p] = "dir"
    BY <1>0, <1>1, <2>1, <2>2, <2>5 DEF AppendMissingLike
  <2>6. CASE s[p] = "odd"
    BY <1>0, <1>1, <2>1, <2>2, <2>6 DEF AppendMissingLike
  <2> QED
    BY <2>2, <2>3, <2>4, <2>5, <2>6
<1>2. CASE p \in Extra(s, d)
  <2>1. a \in AppendExtraLike(p, d[p]) /\ RowActions(s, d, p) = AppendExtraLike(p, d[p])
    BY <1>2, RowKinds
  <2>2. d[p] \in Objects
    BY <1>2 DEF Unmatched, Extra
  <2>3. CASE d[p] \in Files
    BY <1>0, <1>2, <2>1, <2>2, <2>3 DEF AppendExtraLike, PlannedExtra
  <2>4. CASE d[p] \in Links
    BY <1>0, <1>2, <2>1, <2>2, <2>4 DEF AppendExtraLike, PlannedExtra
  <2>5. CASE d[p] = "dir"
    BY <1>0, <1>2, <2>1, <2>2, <2>5 DEF AppendExtraLike, PlannedExtra
  <2>6. CASE d[p] = "odd"
    BY <1>0, <1>2, <2>1, <2>2, <2>6 DEF AppendExtraLike
  <2> QED
    BY <2>2, <2>3, <2>4, <2>5, <2>6
<1>3. CASE p \in Mismatched(s, d)
  <2>1. /\ a \in AppendMismatchReplace(p, s[p], d[p])
        /\ RowActions(s, d, p) = AppendMismatchReplace(p, s[p], d[p])
    BY <1>3, RowKinds
  <2>2. s[p] \in Files \cup Links \cup {"dir"} /\ p \notin Extra(s, d)
    BY <1>3 DEF Unmatched, Extra, Mismatched, Both, Unreadable
  <2>3. CASE s[p] \in Files
    BY <1>0, <1>3, <2>1, <2>2, <2>3 DEF AppendMismatchReplace
  <2>4. CASE s[p] \in Links
    BY <1>0, <1>3, <2>1, <2>2, <2>4 DEF AppendMismatchReplace
  <2>5. CASE s[p] = "dir"
    BY <1>0, <1>3, <2>1, <2>2, <2>5 DEF AppendMismatchReplace
  <2> QED
    BY <2>2, <2>3, <2>4, <2>5
<1> QED
  BY <1>1, <1>2, <1>3, RowKinds

\* An Extra row with something that can be deleted has an action.
LEMMA PlannedHaveActions ==
  ASSUME NEW s \in Trees, NEW d \in Trees, NEW p \in PlannedExtra(s, d)
  PROVE  /\ p \in Paths /\ RowActions(s, d, p) # {}
         /\ s[p] = Absent /\ d[p] \in Files \cup Links \cup {"dir"}
<1> USE TreeFacts
<1>1. p \in Paths /\ p \in Extra(s, d) /\ s[p] = Absent /\ d[p] \in Files \cup Links \cup {"dir"}
  BY DEF PlannedExtra, Extra, Unmatched
<1>4. RowActions(s, d, p) = AppendExtraLike(p, d[p])
  BY <1>1, RowKinds
<1>5. CASE d[p] \in Files
  BY <1>1, <1>4, <1>5 DEF AppendExtraLike
<1>6. CASE d[p] \in Links
  BY <1>1, <1>4, <1>6 DEF AppendExtraLike
<1>7. CASE d[p] = "dir"
  BY <1>1, <1>4, <1>7 DEF AppendExtraLike
<1> QED
  BY <1>1, <1>5, <1>6, <1>7

\* A directory deleted for what lay in it was compared as a directory, something
\* listed lies in it, and no row in it is any but Extra.
LEMMA AncestorFacts ==
  ASSUME NEW s \in Trees, NEW d \in Trees, NEW q \in Ancestors(s, d)
  PROVE  /\ q \in Paths /\ d[q] = "dir" /\ Beneath(q) \cap PlannedExtra(s, d) # {}
         /\ \A p \in {q} \cup Beneath(q) : p \in Rows(s, d) => p \in Extra(s, d)
<1>1. PICK p \in PlannedExtra(s, d) : q \in Above(p)
  BY DEF Ancestors
<1>2. p \in Paths /\ d[p] # Absent
  BY PlannedHaveActions, TreeFacts
<1>3. q \in Paths /\ p \in Beneath(q)
  BY <1>1, <1>2, PathOrder DEF Above
<1> QED
  BY <1>1, <1>2, <1>3, TreeFacts DEF Ancestors, IsClaimedBySource

\* An action of a full plan is that of a row or deletes a directory above an
\* Extra row.
LEMMA ActionOf ==
  ASSUME NEW s \in Trees, NEW d \in Trees, NEW a \in SyncActions(s, d)
  PROVE  \/ a.path \in Rows(s, d) /\ a \in RowActions(s, d, a.path)
         \/ a.path \in Ancestors(s, d) /\ a = Action("DirDelete", a.path)
<1>1. Rows(s, d) \subseteq Paths
  BY DEF Rows, Missing, Extra, Unmatched, Mismatched, Both, Unreadable
<1>2. \/ \E p \in Rows(s, d) : a \in RowActions(s, d, p)
      \/ \E q \in Ancestors(s, d) : a = Action("DirDelete", q)
  BY DEF SyncActions
<1>3. ASSUME NEW p \in Rows(s, d), a \in RowActions(s, d, p)
      PROVE  a.path = p
  BY <1>1, <1>3, RowFacts
<1>4. ASSUME NEW q \in Ancestors(s, d), a = Action("DirDelete", q)
      PROVE  a.path = q
  BY <1>4 DEF Action
<1> QED
  BY <1>2, <1>3, <1>4

-----------------------------------------------------------------------------
(* The inductive invariant                                                 *)

TypeOK ==
  /\ src \in Trees /\ dst \in Trees /\ base \in Trees
  /\ full \in BOOLEAN /\ cancel \in BOOLEAN
  /\ phase \in {"idle", "run", "done"}
  /\ stack \in Seq([path : Paths, dirty : BOOLEAN])
  /\ foreign \subseteq Paths

\* The plan is the one of the comparison it was built from.
PlanStands ==
  \/ plan = {} /\ allowed = {} /\ full
  \/ plan = SyncActions(src, base) /\ allowed = SyncAllowed(src, base) /\ full
  \/ /\ ~full
     /\ \E p \in Rows(src, base) : plan = RowActions(src, base, p) /\ allowed = {p}

ItemsOf(a) == {i \in report : i.action = a}

\* The plan was refused as a whole.
Refused == phase = "done" /\ report = {Refusal}

\* While a plan runs and when it returned, an action is either to come or has
\* one item, unless the plan was refused; the deletion under way is still to come.
ReportStands ==
  /\ todo \subseteq plan
  /\ ~Refused => \A i \in report : i.action \in plan
  /\ phase # "idle" /\ ~Refused =>
       \A a \in plan : IF a \in todo THEN ItemsOf(a) = {}
                       ELSE \E r : ItemsOf(a) = {Item(a, r)}
  /\ phase # "run" => todo = {}
  /\ stack # <<>> => Current \in todo

\* The directories being walked lie one in the other. One that this deletion
\* has taken something from had something listed in it.
StackStands ==
  /\ \A i, j \in DOMAIN stack : i < j => stack[j].path \in Beneath(stack[i].path)
  /\ \A i \in DOMAIN stack : stack[i].dirty =>
       full /\ Beneath(stack[i].path) \cap PlannedExtra(src, base) # {}

\* What was put in the place of a directory came after its deletion.
ReplacedLast ==
  \A p \in Paths : \A op \in {"FileReplace", "LinkReplace"} :
    Item(Action(op, p), "ok") \in report => Action("DirDelete", p) \notin todo

IInv == TypeOK /\ PlanStands /\ ReportStands /\ StackStands /\ ReplacedLast /\ DoneMeansDone

-----------------------------------------------------------------------------
(* What is known of the actions of a plan *)

\* An action is what it is called, brings what the source has, and deletes what
\* the destination had. No directory that is deleted holds, or makes way for,
\* something the source has, but a file or link that replaces it.
LEMMA PlanFacts ==
  ASSUME TypeOK, PlanStands
  PROVE  /\ \A a \in plan : /\ a.path \in Paths /\ a.op \in Ops /\ a = Action(a.op, a.path)
                            /\ Described(a.path)
                            /\ a.op \in Creating => Brings(src, a)
                            /\ a.op \in {"FileDelete", "LinkDelete"} => src[a.path] = Absent
                            /\ a.op = "DirDelete" => base[a.path] = "dir"
         /\ \A a, b \in plan : a.op \in Creating =>
              /\ b.op \in Creating /\ a.path = b.path => a = b
              /\ b.op = "DirDelete" =>
                   /\ a.path \notin Beneath(b.path)
                   /\ a.path = b.path => a.op \in {"FileReplace", "LinkReplace"}
         /\ plan # {} => \A c \in allowed : Described(c)
         /\ full => \A c \in allowed : ({c} \cup Beneath(c)) \cap PlannedExtra(src, base) # {}
         /\ ~full => \A a \in plan, c \in allowed : c = a.path
<1> USE TreeFacts
<1>1. src \in Trees /\ base \in Trees
  BY DEF TypeOK
<1>2. \A s, d : Rows(s, d) \subseteq Paths
  BY DEF Rows, Missing, Extra, Unmatched, Mismatched, Both, Unreadable
<1>3. ASSUME NEW p \in PlannedExtra(src, base)
      PROVE  Described(p)
  BY <1>1, PlannedHaveActions DEF Described
<1>4. ASSUME NEW q \in Ancestors(src, base)
      PROVE  Described(q)
  BY <1>1, AncestorFacts DEF Described
<1>5. ASSUME NEW a \in plan
      PROVE  \/ a.path \in Rows(src, base) /\ a \in RowActions(src, base, a.path)
             \/ /\ full /\ a.path \in Ancestors(src, base)
                /\ a = Action("DirDelete", a.path)
  <2>1. CASE ~full
    <3>1. PICK p \in Rows(src, base) : a \in RowActions(src, base, p)
      BY <2>1 DEF PlanStands
    <3>2. a.path = p
      BY <1>1, <1>2, <3>1, RowFacts
    <3> QED
      BY <3>1, <3>2
  <2>2. CASE full
    <3>1. a \in SyncActions(src, base)
      BY <2>2 DEF PlanStands
    <3> QED
      BY <1>1, <2>2, <3>1, ActionOf
  <2> QED
    BY <2>1, <2>2 DEF TypeOK
<1>6. ASSUME NEW a \in plan
      PROVE  /\ a.path \in Paths /\ a.op \in Ops /\ a = Action(a.op, a.path)
             /\ Described(a.path)
             /\ a.op \in Creating => Brings(src, a)
             /\ a.op \in {"FileDelete", "LinkDelete"} => src[a.path] = Absent
             /\ a.op = "DirDelete" => base[a.path] = "dir"
  <2>1. CASE a.path \in Rows(src, base) /\ a \in RowActions(src, base, a.path)
    <3>1. /\ a = Action(a.op, a.path) /\ a.op \in Ops /\ a.path \in Paths
          /\ a.op \in Creating => Brings(src, a)
          /\ a.op \in {"FileDelete", "LinkDelete"} => a.path \in PlannedExtra(src, base)
          /\ a.op = "DirDelete" => base[a.path] = "dir"
      BY <1>1, <1>2, <2>1, RowFacts
    <3>2. Described(a.path)
      BY <2>1 DEF Described
    <3> QED
      BY <1>1, <3>1, <3>2, PlannedHaveActions
  <2>2. CASE a.path \in Ancestors(src, base) /\ a = Action("DirDelete", a.path)
    <3>1. a.op = "DirDelete"
      BY <2>2 DEF Action
    <3> QED
      BY <1>1, <1>4, <2>2, <3>1, AncestorFacts DEF Ops, Creating
  <2> QED
    BY <1>5, <2>1, <2>2
<1>7. ASSUME NEW a \in plan, a.op \in Creating
      PROVE  /\ a.path \in Rows(src, base) \ Extra(src, base)
             /\ a \in RowActions(src, base, a.path)
             /\ src[a.path] # Absent
  <2>1. a.op # "DirDelete"
    BY <1>7 DEF Creating
  <2>2. a.path \in Rows(src, base) /\ a \in RowActions(src, base, a.path)
    BY <1>5, <2>1 DEF Action
  <2>3. a.path \notin Extra(src, base)
    BY <1>1, <1>2, <1>7, <2>2, RowFacts
  <2>4. src[a.path] # Absent
    BY <1>1, <1>6, <1>7 DEF Brings, Creating
  <2> QED
    BY <2>2, <2>3, <2>4
<1>8. ASSUME NEW a \in plan, NEW b \in plan, a.op \in Creating
      PROVE  /\ b.op \in Creating /\ a.path = b.path => a = b
             /\ b.op = "DirDelete" =>
                  /\ a.path \notin Beneath(b.path)
                  /\ a.path = b.path => a.op \in {"FileReplace", "LinkReplace"}
  <2>1. ASSUME b.op \in Creating, a.path = b.path PROVE a = b
    BY <1>1, <1>2, <1>7, <1>8, <2>1, RowFacts
  <2>2. CASE b.path \in Ancestors(src, base)
    <3>1. a.path \notin {b.path} \cup Beneath(b.path)
      BY <1>1, <1>7, <1>8, <2>2, AncestorFacts
    <3> QED
      BY <2>1, <3>1
  <2>3. CASE b.op = "DirDelete" /\ b \in RowActions(src, base, b.path) /\ b.path \in Rows(src, base)
    <3>1. src[b.path] # "dir"
      BY <1>1, <1>2, <2>3, RowFacts, PlannedHaveActions
    <3>2. a.path \notin Beneath(b.path)
      BY <1>1, <1>6, <1>7, <1>8, <3>1
    <3>3. a.path = b.path => a.op \in {"FileReplace", "LinkReplace"}
      BY <1>1, <1>2, <1>7, <1>8, <2>3, RowFacts
    <3> QED
      BY <2>1, <3>2, <3>3
  <2> QED
    BY <1>5, <2>1, <2>2, <2>3
<1>9. ASSUME plan # {}, NEW c \in allowed
      PROVE  Described(c)
  <2>1. CASE full
    <3>1. c \in PlannedExtra(src, base) \/ c \in Ancestors(src, base)
      BY <1>9, <2>1 DEF PlanStands, SyncAllowed
    <3> QED
      BY <1>3, <1>4, <3>1
  <2>2. CASE ~full
    BY <1>9, <2>2 DEF PlanStands, Described
  <2> QED
    BY <2>1, <2>2 DEF TypeOK
<1>10. ASSUME full, NEW c \in allowed
       PROVE  ({c} \cup Beneath(c)) \cap PlannedExtra(src, base) # {}
  <2>1. c \in PlannedExtra(src, base) \/ c \in Ancestors(src, base)
    BY <1>10 DEF PlanStands, SyncAllowed
  <2> QED
    BY <1>1, <2>1, AncestorFacts
<1>11. ASSUME ~full, NEW a \in plan, NEW c \in allowed
       PROVE  c = a.path
  BY <1>1, <1>2, <1>11, RowFacts DEF PlanStands
<1> QED
  BY <1>6, <1>8, <1>9, <1>10, <1>11

-----------------------------------------------------------------------------
(* Steps, by what they do                                                  *)

\* Some actions are taken off the list, each with one item; no deletion of a
\* directory goes on, but perhaps that of another.
LEMMA ReportGrows ==
  ASSUME IInv, phase = "run", phase' = phase, plan' = plan,
         todo' \subseteq todo, NEW new, report' = report \cup new,
         \A i \in new : i.action \in todo \ todo',
         \A a \in todo \ todo' : \E r : {i \in new : i.action = a} = {Item(a, r)},
         stack' # <<>> => Current' \in todo'
  PROVE  ReportStands'
<1>1. /\ todo \subseteq plan /\ \A i \in report : i.action \in plan
      /\ \A a \in plan : IF a \in todo THEN ItemsOf(a) = {} ELSE \E r : ItemsOf(a) = {Item(a, r)}
  BY DEF IInv, ReportStands, Refused
<1>2. \A a : ItemsOf(a)' = ItemsOf(a) \cup {i \in new : i.action = a}
  BY DEF ItemsOf
<1>3. \A a \in plan : IF a \in todo' THEN ItemsOf(a)' = {}
                                     ELSE \E r : ItemsOf(a)' = {Item(a, r)}
  <2> SUFFICES ASSUME NEW a \in plan
               PROVE  IF a \in todo' THEN ItemsOf(a)' = {}
                                     ELSE \E r : ItemsOf(a)' = {Item(a, r)}
    OBVIOUS
  <2>1. CASE a \in todo'
    <3>1. {i \in new : i.action = a} = {}
      BY <2>1
    <3> QED
      BY <1>1, <1>2, <2>1, <3>1
  <2>2. CASE a \in todo \ todo'
    <3>1. ItemsOf(a) = {}
      BY <1>1, <2>2
    <3>2. PICK r : {i \in new : i.action = a} = {Item(a, r)}
      BY <2>2
    <3>3. ItemsOf(a)' = {Item(a, r)}
      BY <1>2, <3>1, <3>2
    <3> QED
      BY <2>2, <3>3
  <2>3. CASE a \notin todo
    <3>1. {i \in new : i.action = a} = {}
      BY <2>3
    <3>2. ItemsOf(a)' = ItemsOf(a)
      BY <1>2, <3>1
    <3>3. \E r : ItemsOf(a) = {Item(a, r)}
      BY <1>1, <2>3
    <3> QED
      BY <2>3, <3>2, <3>3
  <2> QED
    BY <2>1, <2>2, <2>3
<1>4. todo' \subseteq plan' /\ \A i \in report' : i.action \in plan'
  BY <1>1
<1> HIDE DEF Current
<1> QED
  BY <1>3, <1>4 DEF ReportStands

\* One action is over.
LEMMA FinishReports ==
  ASSUME IInv, phase = "run", phase' = phase, plan' = plan,
         NEW a \in todo, NEW r, Finish(a, r), stack' = <<>>
  PROVE  ReportStands'
<1>1. {i \in {Item(a, r)} : i.action = a} = {Item(a, r)} /\ Item(a, r).action = a
  BY DEF Item
<1> DEFINE new == {Item(a, r)}
<1>2. /\ report' = report \cup new /\ todo' = todo \ {a} /\ todo \ todo' = {a}
  BY DEF Finish
<1>3. \A i \in new : i.action \in todo \ todo'
  BY <1>1, <1>2
<1>4. \A b \in todo \ todo' : \E x : {i \in new : i.action = b} = {Item(b, x)}
  BY <1>1, <1>2
<1> HIDE DEF new
<1> QED
  BY <1>2, <1>3, <1>4, ReportGrows

\* The rest of the plan is abandoned, at an action that fails or before one.
LEMMA AbortReports ==
  ASSUME IInv, phase = "run", phase' = phase, plan' = plan, NEW first \in SUBSET todo,
         todo' = {}, stack' = <<>>,
         report' = report \cup {Item(a, "failed") : a \in first}
                          \cup {Item(b, "cancelled") : b \in todo \ first}
  PROVE  ReportStands'
<1> DEFINE new == {Item(a, "failed") : a \in first} \cup {Item(b, "cancelled") : b \in todo \ first}
<1>1. \A a, r : Item(a, r).action = a
  BY DEF Item
<1>2. report' = report \cup new
  OBVIOUS
<1>3. \A i \in new : i.action \in todo
  BY <1>1
<1>4. ASSUME NEW a \in todo
      PROVE  \E r : {i \in new : i.action = a} = {Item(a, r)}
  <2>1. CASE a \in first
    <3>1. {i \in new : i.action = a} = {Item(a, "failed")}
      BY <1>1, <2>1
    <3> QED
      BY <3>1
  <2>2. CASE a \notin first
    <3>1. {i \in new : i.action = a} = {Item(a, "cancelled")}
      BY <1>1, <2>2
    <3> QED
      BY <3>1
  <2> QED
    BY <2>1, <2>2
<1> HIDE DEF new
<1> QED
  BY <1>2, <1>3, <1>4, ReportGrows

\* What a step takes away or overwrites is described by a row.
OnlyDescribed ==
  \A p \in Paths : dst[p] # Absent /\ dst'[p] # dst[p] => Described(p)

\* A step that leaves the destination alone and finishes nothing.
LEMMA NothingTouched ==
  ASSUME IInv, UNCHANGED <<src, base, dst, foreign>>, todo' \subseteq todo, phase = "run",
         NEW new, report' = report \cup new, \A i \in new : i.result # "ok"
  PROVE  DoneMeansDone' /\ ReplacedLast' /\ OnlyDescribed
<1>1. \A a : Item(a, "ok").result = "ok"
  BY DEF Item
<1>2. \A a : Item(a, "ok") \in report' => Item(a, "ok") \in report
  BY <1>1
<1>3. DoneMeansDone'
  BY <1>2 DEF IInv, DoneMeansDone
<1>4. ReplacedLast'
  BY <1>2 DEF IInv, ReplacedLast
<1> QED
  BY <1>3, <1>4 DEF OnlyDescribed

\* Putting an object where nothing is in the way.
LEMMA PutEffect ==
  ASSUME TypeOK, NEW p \in Paths, NEW o \in Objects \cup {Absent}, ~Blocked(p),
         dst[p] = "dir" => Empty(p) \/ o = "dir"
  PROVE  /\ Put(p, o) \in Trees
         /\ Put(p, o)[p] = o
         /\ \A q \in Above(p) : Put(p, o)[q] = "dir" /\ dst[q] \in {Absent, "dir"}
         /\ \A q \in Paths : q # p /\ q \notin Above(p) => Put(p, o)[q] = dst[q]
<1> DEFINE t == Put(p, o)
<1> USE TreeFacts
<1>1. dst \in Trees
  BY DEF TypeOK
<1>2. \A q \in Paths : t[q] = IF q = p THEN o ELSE IF q \in Above(p) THEN "dir" ELSE dst[q]
  BY DEF Put
<1>3. t \in [Paths -> Objects \cup {Absent}]
  BY <1>1 DEF Put
<1>4. /\ p \notin Above(p) /\ Above(p) \subseteq Paths
      /\ \A q \in Above(p) : dst[q] \in {Absent, "dir"}
  BY PathOrder DEF Blocked
<1> HIDE DEF t
<1>5. ASSUME NEW x \in Paths, NEW y \in Above(x), t[x] # Absent
      PROVE  t[y] = "dir"
  <2>1. y \in Paths /\ y # x /\ x \in Beneath(y)
    BY PathOrder
  <2>2. CASE x = p \/ x \in Above(p)
    <3>1. y \in Above(p)
      BY <1>4, <2>1, <2>2, PathOrder
    <3> QED
      BY <1>2, <1>4, <2>1, <3>1
  <2>3. CASE x # p /\ x \notin Above(p)
    <3>1. dst[x] # Absent /\ dst[y] = "dir"
      BY <1>1, <1>2, <1>5, <2>1, <2>3
    <3>2. y = p => o = "dir"
      <4>1. y = p => x \in Within(dst, p)
        BY <2>1, <3>1 DEF Within
      <4> QED
        BY <3>1, <4>1 DEF Empty
    <3> QED
      BY <1>2, <2>1, <3>1, <3>2
  <2> QED
    BY <2>2, <2>3
<1>6. t \in Trees
  BY <1>3, <1>5 DEF Trees, WellFormed
<1> QED
  BY <1>2, <1>4, <1>6 DEF t

\* An action that creates, whether it succeeds or not: what the report calls
\* done stays done, and only what its row describes is overwritten.
LEMMA CreatingStep ==
  ASSUME IInv, phase = "run", phase' = phase, UNCHANGED <<src, base, foreign>>,
         NEW a \in todo, a.op \in Creating, ~Blocked(a.path),
         NEW o \in Files \cup {src[a.path], Absent},
         dst[a.path] = "dir" => Empty(a.path) \/ o = "dir",
         dst' = Put(a.path, o),
         a.op \in {"FileReplace", "LinkReplace"} => Action("DirDelete", a.path) \notin todo,
         todo' \subseteq todo, NEW new, report' = report \cup new,
         \A i \in new : i.result = "ok" => i.action = a /\ o = src[a.path]
  PROVE  dst' \in Trees /\ DoneMeansDone' /\ ReplacedLast' /\ OnlyDescribed
<1> DEFINE p == a.path
<1> USE TreeFacts
<1>1. /\ TypeOK /\ PlanStands /\ a \in plan /\ src \in Trees /\ base \in Trees /\ dst \in Trees
      /\ todo \subseteq plan /\ \A i \in report : i.action \in plan
  BY DEF IInv, TypeOK, ReportStands, Refused
<1>2. /\ p \in Paths /\ a = Action(a.op, p) /\ Described(p) /\ Brings(src, a) /\ src[p] # Absent
      /\ src[p] \in Objects
  BY <1>1, PlanFacts DEF Brings, Creating
<1>3. /\ dst' \in Trees /\ dst'[p] = o
      /\ \A q \in Above(p) : dst'[q] = "dir" /\ dst[q] \in {Absent, "dir"}
      /\ \A q \in Paths : q # p /\ q \notin Above(p) => dst'[q] = dst[q]
  BY <1>1, <1>2, PutEffect
<1>4. \A b, r : Item(b, r).action = b /\ Item(b, r).result = r
  BY DEF Item
<1>5. \A op, q : Action(op, q).op = op /\ Action(op, q).path = q
  BY DEF Action
<1>6. \A q \in Paths : q \in Above(p) => p \in Beneath(q) /\ src[q] = "dir"
  BY <1>1, <1>2, PathOrder
<1>7. ASSUME NEW q \in Paths \ foreign, NEW op \in Ops, Item(Action(op, q), "ok") \in report'
      PROVE  IF op \in {"FileDelete", "LinkDelete", "DirDelete"}
             THEN dst'[q] # base[q] \/ dst'[q] = Absent
             ELSE dst'[q] = src[q]
  <2>1. CASE Item(Action(op, q), "ok") \in report
    <3>1. Action(op, q) \in plan /\ Action(op, q) \notin todo
      <4>1. Item(Action(op, q), "ok").action \in plan
        BY <1>1, <2>1
      <4>2. Action(op, q) \in todo => ItemsOf(Action(op, q)) = {}
        BY <1>1 DEF IInv, ReportStands, Refused
      <4>3. Item(Action(op, q), "ok") \in ItemsOf(Action(op, q))
        BY <1>4, <2>1 DEF ItemsOf
      <4> QED
        BY <1>4, <4>1, <4>2, <4>3
    <3>2. IF op \in {"FileDelete", "LinkDelete", "DirDelete"}
          THEN dst[q] # base[q] \/ dst[q] = Absent
          ELSE dst[q] = src[q]
      BY <2>1 DEF IInv, DoneMeansDone
    <3>3. CASE op \in Creating
      <4>1. q # p
        <5>1. q = p => Action(op, q) = a
          BY <1>1, <1>5, <3>1, <3>3, PlanFacts
        <5> QED
          BY <3>1, <5>1
      <4>2. q \in Above(p) => dst'[q] = src[q]
        BY <1>3, <1>6
      <4>3. op \notin {"FileDelete", "LinkDelete", "DirDelete"}
        BY <3>3 DEF Creating
      <4> QED
        BY <1>3, <3>2, <4>1, <4>2, <4>3
    <3>4. CASE op \in {"FileDelete", "LinkDelete"}
      <4>1. src[q] = Absent
        BY <1>1, <1>5, <3>1, <3>4, PlanFacts
      <4>2. q # p
        BY <1>2, <4>1
      <4>3. q \notin Above(p)
        BY <1>1, <1>6, <4>1
      <4> QED
        BY <1>3, <3>2, <3>4, <4>2, <4>3
    <3>5. CASE op = "DirDelete"
      <4>1. /\ p \notin Beneath(q) /\ base[q] = "dir"
            /\ p = q => a.op \in {"FileReplace", "LinkReplace"}
        BY <1>1, <1>5, <3>1, <3>5, PlanFacts
      <4>2. q \notin Above(p)
        BY <1>6, <4>1
      <4>3. q = p => dst'[q] # "dir"
        <5>1. q = p => src[p] \in Files \cup Links
          BY <1>2, <4>1 DEF Brings
        <5> QED
          BY <1>3, <5>1
      <4> QED
        BY <1>3, <3>2, <3>5, <4>1, <4>2, <4>3
    <3> QED
      BY <3>3, <3>4, <3>5 DEF Ops, Creating
  <2>2. CASE Item(Action(op, q), "ok") \in new
    <3>1. Action(op, q) = a /\ o = src[p]
      BY <1>4, <2>2
    <3>2. q = p /\ op = a.op
      BY <1>5, <3>1
    <3>3. op \notin {"FileDelete", "LinkDelete", "DirDelete"}
      BY <3>2 DEF Creating
    <3> QED
      BY <1>3, <3>1, <3>2, <3>3
  <2> QED
    BY <1>7, <2>1, <2>2
<1>8. ReplacedLast'
  <2>1. ASSUME NEW q \in Paths, NEW op \in {"FileReplace", "LinkReplace"},
               Item(Action(op, q), "ok") \in report'
        PROVE  Action("DirDelete", q) \notin todo'
    <3>1. CASE Item(Action(op, q), "ok") \in report
      BY <3>1 DEF IInv, ReplacedLast
    <3>2. CASE Item(Action(op, q), "ok") \in new
      <4>1. Action(op, q) = a
        BY <1>4, <3>2
      <4>2. q = p /\ op = a.op
        BY <1>5, <4>1
      <4> QED
        BY <4>2
    <3> QED
      BY <2>1, <3>1, <3>2
  <2> QED
    BY <2>1 DEF ReplacedLast
<1>9. OnlyDescribed
  BY <1>2, <1>3 DEF OnlyDescribed
<1>10. DoneMeansDone'
  BY <1>7 DEF DoneMeansDone
<1> QED
  BY <1>3, <1>8, <1>9, <1>10

\* An action or a walk that only takes away, and from where nothing is created.
LEMMA RemovingStep ==
  ASSUME IInv, phase = "run", phase' = phase, UNCHANGED <<src, base, foreign>>,
         NEW p \in Paths, dst' = [dst EXCEPT ![p] = Absent], Empty(p) \/ dst[p] # "dir",
         dst[p] # Absent => Described(p),
         \A a : Item(a, "ok") \in report /\ a.op \in Creating => a.path # p,
         todo' \subseteq todo, NEW new, report' = report \cup new,
         \A i \in new : i.result = "ok" =>
           \E op \in {"FileDelete", "LinkDelete", "DirDelete"} : i.action = Action(op, p)
  PROVE  dst' \in Trees /\ DoneMeansDone' /\ ReplacedLast' /\ OnlyDescribed
<1> USE TreeFacts
<1>1. dst \in Trees
  BY DEF IInv, TypeOK
<1>2. dst'[p] = Absent /\ \A q \in Paths : q # p => dst'[q] = dst[q]
  BY <1>1
<1>3. \A b, r : Item(b, r).action = b /\ Item(b, r).result = r
  BY DEF Item
<1>4. \A op, q : Action(op, q).op = op /\ Action(op, q).path = q
  BY DEF Action
<1>5. dst' \in Trees
  <2>1. \A q \in Beneath(p) : dst[q] = Absent
    <3>1. CASE Empty(p)
      BY <3>1 DEF Empty, Within
    <3>2. CASE dst[p] # "dir"
      BY <1>1, <3>2, PathOrder
    <3> QED
      BY <3>1, <3>2
  <2>2. ASSUME NEW x \in Paths, NEW y \in Above(x), dst'[x] # Absent
        PROVE  dst'[y] = "dir"
    <3>1. y \in Paths /\ x \in Beneath(y) /\ x # p /\ dst[x] # Absent
      BY <1>2, <2>2, PathOrder
    <3>2. y # p /\ dst[y] = "dir"
      BY <1>1, <2>1, <3>1
    <3> QED
      BY <1>2, <3>1, <3>2
  <2>3. dst' \in [Paths -> Objects \cup {Absent}]
    BY <1>1
  <2> QED
    BY <2>2, <2>3 DEF Trees, WellFormed
<1>6. ASSUME NEW q \in Paths \ foreign, NEW op \in Ops, Item(Action(op, q), "ok") \in report'
      PROVE  IF op \in {"FileDelete", "LinkDelete", "DirDelete"}
             THEN dst'[q] # base[q] \/ dst'[q] = Absent
             ELSE dst'[q] = src[q]
  <2>1. CASE Item(Action(op, q), "ok") \in report
    <3>2. IF op \in {"FileDelete", "LinkDelete", "DirDelete"}
          THEN dst[q] # base[q] \/ dst[q] = Absent
          ELSE dst[q] = src[q]
      BY <2>1 DEF IInv, DoneMeansDone
    <3>3. CASE op \in Creating
      <4>1. q # p
        BY <1>4, <2>1, <3>3
      <4>2. op \notin {"FileDelete", "LinkDelete", "DirDelete"}
        BY <3>3 DEF Creating
      <4> QED
        BY <1>2, <3>2, <4>1, <4>2
    <3>4. CASE op \notin Creating
      <4>1. op \in {"FileDelete", "LinkDelete", "DirDelete"}
        BY <3>4 DEF Creating, Ops
      <4> QED
        BY <1>2, <3>2, <4>1
    <3> QED
      BY <3>3, <3>4
  <2>2. CASE Item(Action(op, q), "ok") \in new
    <3>1. PICK o \in {"FileDelete", "LinkDelete", "DirDelete"} : Action(op, q) = Action(o, p)
      BY <1>3, <2>2
    <3>2. q = p /\ op = o
      BY <1>4, <3>1
    <3> QED
      BY <1>2, <3>2
  <2> QED
    BY <1>6, <2>1, <2>2
<1>7. ReplacedLast'
  <2>1. ASSUME NEW q \in Paths, NEW op \in {"FileReplace", "LinkReplace"},
               Item(Action(op, q), "ok") \in report'
        PROVE  Item(Action(op, q), "ok") \in report
    <3>1. CASE Item(Action(op, q), "ok") \in new
      <4>1. PICK o \in {"FileDelete", "LinkDelete", "DirDelete"} : Action(op, q) = Action(o, p)
        BY <1>3, <3>1
      <4>2. op = o
        BY <1>4, <4>1
      <4> QED
        BY <4>2
    <3> QED
      BY <2>1, <3>1
  <2> QED
    BY <2>1 DEF IInv, ReplacedLast
<1>8. DoneMeansDone'
  BY <1>6 DEF DoneMeansDone
<1>9. OnlyDescribed
  BY <1>2 DEF OnlyDescribed
<1> QED
  BY <1>5, <1>7, <1>8, <1>9

-----------------------------------------------------------------------------
(* One action of a plan, that is carried out or fails                      *)

\* The group of an action, from its kind.
LEMMA GroupFacts ==
  ASSUME NEW a
  PROVE  /\ a.op = "DirCreate" => GroupOf(a) = 1
         /\ a.op \in {"FileDelete", "LinkDelete"} => GroupOf(a) = 2
         /\ a.op = "DirDelete" => GroupOf(a) = 3
         /\ a.op \in {"FileCopy", "FileReplace"} => GroupOf(a) = 4
         /\ a.op \in {"LinkCreate", "LinkReplace"} => GroupOf(a) = 5
<1>1. /\ DOMAIN Groups = 1..5
      /\ Groups[1] = {"DirCreate"} /\ Groups[2] = {"FileDelete", "LinkDelete"}
      /\ Groups[3] = {"DirDelete"} /\ Groups[4] = {"FileCopy", "FileReplace"}
      /\ Groups[5] = {"LinkCreate", "LinkReplace"}
  BY DEF Groups
<1>2. ASSUME NEW i \in 1..5, a.op \in Groups[i]
      PROVE  GroupOf(a) = i
  <2>1. \A j \in 1..5 : a.op \in Groups[j] <=> j = i
    BY <1>1, <1>2
  <2> QED
    BY <1>1, <2>1 DEF GroupOf
<1> QED
  BY <1>1, <1>2

\* An action that is due belongs to the plan, and a directory that it replaces
\* was dealt with.
LEMMA DueFacts ==
  ASSUME IInv, NEW a \in todo, Due(a)
  PROVE  /\ phase = "run" /\ stack = <<>> /\ a \in plan /\ a.path \in Paths /\ Described(a.path)
         /\ a.op \in {"FileReplace", "LinkReplace"} => Action("DirDelete", a.path) \notin todo
<1>1. a \in plan /\ phase = "run" /\ stack = <<>> /\ a.path \in Paths /\ Described(a.path)
  BY PlanFacts DEF IInv, ReportStands, Due
<1>2. ASSUME a.op \in {"FileReplace", "LinkReplace"}
      PROVE  Precedes(Action("DirDelete", a.path), a)
  <2>1. Action("DirDelete", a.path).op = "DirDelete"
    BY DEF Action
  <2> QED
    BY <1>2, <2>1, GroupFacts DEF Precedes
<1> QED
  BY <1>1, <1>2 DEF Due

\* What a step keeps that changes neither the plan nor the walk.
LEMMA Kept ==
  ASSUME IInv, UNCHANGED planVars, stack' = <<>>, dst' \in Trees, cancel' \in BOOLEAN,
         phase' \in {"idle", "run", "done"}, foreign' \subseteq Paths
  PROVE  TypeOK' /\ PlanStands' /\ StackStands'
<1>1. stack' \in Seq([path : Paths, dirty : BOOLEAN]) /\ DOMAIN stack' = {}
  OBVIOUS
<1> QED
  BY <1>1 DEF IInv, TypeOK, PlanStands, StackStands, planVars

\* An action is over that did nothing, or was not what it was asked to be.
LEMMA FailedStep ==
  ASSUME IInv, NEW a \in todo, Due(a), NEW r \in {"failed", "skipped"}, Finish(a, r),
         UNCHANGED <<planVars, dst, stack, phase, foreign>>, cancel' \in BOOLEAN
  PROVE  IInv' /\ OnlyDescribed
<1>1. phase = "run" /\ stack = <<>>
  BY DueFacts
<1>2. ReportStands'
  BY <1>1, FinishReports DEF planVars
<1>3. DoneMeansDone' /\ ReplacedLast' /\ OnlyDescribed
  <2> DEFINE new == {Item(a, r)}
  <2>1. \A i \in new : i.result # "ok"
    BY DEF Item
  <2>2. report' = report \cup new /\ todo' \subseteq todo
    BY DEF Finish
  <2> HIDE DEF new
  <2> QED
    BY <1>1, <2>1, <2>2, NothingTouched DEF planVars
<1>4. TypeOK' /\ PlanStands' /\ StackStands'
  BY <1>1, Kept DEF IInv, TypeOK
<1> QED
  BY <1>2, <1>3, <1>4 DEF IInv

\* An action that creates is over, and o lies where it was to create something.
LEMMA CreatedStep ==
  ASSUME IInv, NEW a \in todo, Due(a), a.op \in Creating, ~Blocked(a.path),
         NEW o \in Files \cup {src[a.path], Absent},
         dst[a.path] = "dir" => Empty(a.path) \/ o = "dir",
         dst' = Put(a.path, o),
         NEW r, r = "ok" => o = src[a.path], Finish(a, r),
         UNCHANGED <<planVars, stack, phase, foreign>>, cancel' \in BOOLEAN
  PROVE  IInv' /\ OnlyDescribed
<1>1. /\ phase = "run" /\ stack = <<>>
      /\ a.op \in {"FileReplace", "LinkReplace"} => Action("DirDelete", a.path) \notin todo
  BY DueFacts
<1>2. ReportStands'
  BY <1>1, FinishReports DEF planVars
<1>3. dst' \in Trees /\ DoneMeansDone' /\ ReplacedLast' /\ OnlyDescribed
  <2> DEFINE new == {Item(a, r)}
  <2>1. \A i \in new : i.result = "ok" => i.action = a /\ o = src[a.path]
    BY DEF Item
  <2>2. report' = report \cup new /\ todo' \subseteq todo
    BY DEF Finish
  <2> HIDE DEF new
  <2> QED
    BY <1>1, <2>1, <2>2, CreatingStep DEF planVars
<1>4. TypeOK' /\ PlanStands' /\ StackStands'
  BY <1>1, <1>3, Kept DEF IInv, TypeOK
<1> QED
  BY <1>2, <1>3, <1>4 DEF IInv

\* A copy (RunCopy), done or refused.
LEMMA RunCopyStep ==
  ASSUME IInv, NEW a \in todo, RunCopy(a)
  PROVE  IInv' /\ OnlyDescribed
<1>1. /\ Due(a) /\ a.op \in Creating /\ UNCHANGED <<planVars, stack, phase, foreign>>
      /\ cancel' \in BOOLEAN
  BY DEF RunCopy, Quiet, Creating, IInv, TypeOK
<1>2. CASE Finish(a, "failed") /\ UNCHANGED dst
  BY <1>1, <1>2, FailedStep
<1>3. CASE /\ ~Blocked(a.path) /\ GivesWay(a.path)
           /\ Finish(a, "ok") /\ dst' = Put(a.path, src[a.path])
  BY <1>1, <1>3, CreatedStep DEF GivesWay
<1> QED
  BY <1>2, <1>3 DEF RunCopy

\* A link (RunLink), created or refused.
LEMMA RunLinkStep ==
  ASSUME IInv, NEW a \in todo, RunLink(a)
  PROVE  IInv' /\ OnlyDescribed
<1>1. /\ Due(a) /\ a.op \in Creating /\ UNCHANGED <<planVars, stack, phase, foreign>>
      /\ cancel' \in BOOLEAN
  BY DEF RunLink, Quiet, Creating, IInv, TypeOK
<1>2. CASE Finish(a, "failed") /\ UNCHANGED dst
  BY <1>1, <1>2, FailedStep
<1>3. CASE /\ ~Blocked(a.path) /\ GivesWay(a.path)
           /\ Finish(a, "ok") /\ dst' = Put(a.path, src[a.path])
  BY <1>1, <1>3, CreatedStep DEF GivesWay
<1> QED
  BY <1>2, <1>3 DEF RunLink

\* A directory is created, or something above it is none.
LEMMA CreateDirStep ==
  ASSUME IInv, NEW a \in todo, CreateDir(a)
  PROVE  IInv' /\ OnlyDescribed
<1>1. /\ Due(a) /\ a.op \in Creating /\ UNCHANGED <<planVars, stack, phase, foreign>>
      /\ cancel' \in BOOLEAN /\ a.op = "DirCreate"
  BY DEF CreateDir, Quiet, Creating, IInv, TypeOK
<1>2. CASE Finish(a, "failed") /\ UNCHANGED dst
  BY <1>1, <1>2, FailedStep
<1>3. CASE ~Blocked(a.path) /\ Finish(a, "ok") /\ dst' = Put(a.path, "dir")
  <2>1. src[a.path] = "dir"
    BY <1>1, DueFacts, PlanFacts DEF IInv, Brings
  <2> QED
    BY <1>1, <1>3, <2>1, CreatedStep
<1> QED
  BY <1>2, <1>3 DEF CreateDir

\* A copy that fails, with the remaining actions abandoned or not.
LEMMA CopyFailsStep ==
  ASSUME IInv, NEW a \in todo, CopyFails(a)
  PROVE  IInv' /\ OnlyDescribed
<1>1. /\ Due(a) /\ a.op \in Creating /\ UNCHANGED <<planVars, stack, phase, foreign>>
      /\ cancel' \in BOOLEAN /\ ~Blocked(a.path) /\ (dst[a.path] = "dir" => Empty(a.path))
      /\ phase = "run" /\ stack = <<>>
      /\ a.op \in {"FileReplace", "LinkReplace"} => Action("DirDelete", a.path) \notin todo
  BY DueFacts DEF CopyFails, Creating, GivesWay, IInv, TypeOK
<1>2. CASE Finish(a, "failed")
  <2>1. CASE dst' = dst
    BY <1>1, <1>2, <2>1, FailedStep
  <2>2. ASSUME NEW left \in Files \cup {Absent}, dst' = Put(a.path, left) PROVE IInv' /\ OnlyDescribed
    BY <1>1, <1>2, <2>2, CreatedStep
  <2> QED
    BY <2>1, <2>2 DEF CopyFails
<1>3. CASE /\ todo' = {}
           /\ report' = report \cup {Item(a, "failed")}
                               \cup {Item(b, "cancelled") : b \in todo \ {a}}
  <2> DEFINE new == {Item(a, "failed")} \cup {Item(b, "cancelled") : b \in todo \ {a}}
  <2>1. \A i \in new : i.result # "ok"
    BY DEF Item
  <2>2. report' = report \cup new /\ todo' \subseteq todo
    BY <1>3
  <2>3. ReportStands'
    <3>1. /\ {a} \in SUBSET todo
          /\ report' = report \cup {Item(b, "failed") : b \in {a}}
                              \cup {Item(b, "cancelled") : b \in todo \ {a}}
      BY <1>3
    <3> HIDE DEF new
    <3> QED
      BY <1>1, <1>3, <3>1, AbortReports DEF planVars
  <2> HIDE DEF new
  <2>4. dst' \in Trees /\ DoneMeansDone' /\ ReplacedLast' /\ OnlyDescribed
    <3>1. CASE dst' = dst
      BY <1>1, <2>1, <2>2, <3>1, NothingTouched DEF IInv, TypeOK, planVars
    <3>2. ASSUME NEW left \in Files \cup {Absent}, dst' = Put(a.path, left)
          PROVE  dst' \in Trees /\ DoneMeansDone' /\ ReplacedLast' /\ OnlyDescribed
      BY <1>1, <2>1, <2>2, <3>2, CreatingStep DEF planVars
    <3> QED
      BY <3>1, <3>2 DEF CopyFails
  <2>5. TypeOK' /\ PlanStands' /\ StackStands'
    BY <1>1, <2>4, Kept DEF IInv, TypeOK
  <2> QED
    BY <2>3, <2>4, <2>5 DEF IInv
<1> QED
  BY <1>2, <1>3 DEF CopyFails

\* A link that is not created, its predecessor gone or not.
LEMMA LinkFailsStep ==
  ASSUME IInv, NEW a \in todo, LinkFails(a)
  PROVE  IInv' /\ OnlyDescribed
<1>1. /\ Due(a) /\ a.op \in Creating /\ UNCHANGED <<planVars, stack, phase, foreign>>
      /\ cancel' \in BOOLEAN /\ ~Blocked(a.path) /\ (dst[a.path] = "dir" => Empty(a.path))
      /\ Finish(a, "failed") /\ dst' \in {dst, Put(a.path, Absent)}
  BY DEF LinkFails, Creating, GivesWay, IInv, TypeOK
<1>2. CASE dst' = dst
  BY <1>1, <1>2, FailedStep
<1>3. CASE dst' = Put(a.path, Absent)
  BY <1>1, <1>3, CreatedStep
<1> QED
  BY <1>1, <1>2, <1>3

\* A directory that is not created, what was in its way gone or not.
LEMMA CreateDirFailsStep ==
  ASSUME IInv, NEW a \in todo, CreateDirFails(a)
  PROVE  IInv' /\ OnlyDescribed
<1>1. /\ Due(a) /\ a.op \in Creating /\ UNCHANGED <<planVars, stack, phase, foreign>>
      /\ cancel' \in BOOLEAN /\ Finish(a, "failed")
  BY DEF CreateDirFails, Creating, IInv, TypeOK
<1>2. CASE dst' = dst
  BY <1>1, <1>2, FailedStep
<1>3. CASE ~Blocked(a.path) /\ dst[a.path] # "dir" /\ dst' = Put(a.path, Absent)
  BY <1>1, <1>3, CreatedStep
<1> QED
  BY <1>2, <1>3 DEF CreateDirFails

\* A file or a link is deleted, was gone, or is left alone.
LEMMA DeleteOneStep ==
  ASSUME IInv, NEW a \in todo, DeleteOne(a)
  PROVE  IInv' /\ OnlyDescribed
<1>1. /\ Due(a) /\ a.op \in {"FileDelete", "LinkDelete"} /\ UNCHANGED <<planVars, stack, phase, foreign>>
      /\ cancel' \in BOOLEAN
      /\ phase = "run" /\ stack = <<>> /\ a \in plan /\ a.path \in Paths /\ Described(a.path)
  BY DueFacts DEF DeleteOne, Quiet, IInv, TypeOK
<1>2. CASE Finish(a, "failed") /\ UNCHANGED dst
  BY <1>1, <1>2, FailedStep
<1>3. CASE /\ dst[a.path] \in Deletable(a.op)
           /\ Finish(a, "ok") /\ dst' = [dst EXCEPT ![a.path] = Absent]
  <2>1. dst[a.path] # "dir"
    BY <1>3, TreeFacts DEF Deletable, IInv, TypeOK
  <2>2. a = Action(a.op, a.path) /\ src[a.path] = Absent
    BY <1>1, PlanFacts DEF IInv
  <2>3. \A b : Item(b, "ok") \in report /\ b.op \in Creating => b.path # a.path
    <3>1. \A b : Item(b, "ok").action = b
      BY DEF Item
    <3>2. \A b : Item(b, "ok") \in report => b \in plan
      BY <3>1 DEF IInv, ReportStands, Refused
    <3>3. \A b \in plan : b.op \in Creating => src[b.path] # Absent
      BY PlanFacts, TreeFacts DEF IInv, TypeOK, Brings, Creating
    <3> QED
      BY <2>2, <3>2, <3>3
  <2>4. ReportStands'
    BY <1>1, <1>3, FinishReports DEF planVars
  <2>5. dst' \in Trees /\ DoneMeansDone' /\ ReplacedLast' /\ OnlyDescribed
    <3> DEFINE new == {Item(a, "ok")}
    <3>1. \A i \in new : i.result = "ok" =>
            \E op \in {"FileDelete", "LinkDelete", "DirDelete"} : i.action = Action(op, a.path)
      BY <1>1, <2>2 DEF Item
    <3>2. report' = report \cup new /\ todo' \subseteq todo
      BY <1>3 DEF Finish
    <3> HIDE DEF new
    <3> QED
      BY <1>1, <1>3, <2>1, <2>3, <3>1, <3>2, RemovingStep DEF planVars
  <2>6. TypeOK' /\ PlanStands' /\ StackStands'
    BY <1>1, <2>5, Kept DEF IInv, TypeOK
  <2> QED
    BY <2>4, <2>5, <2>6 DEF IInv
<1> QED
  BY <1>2, <1>3 DEF DeleteOne

\* A file or link that cannot be deleted.
LEMMA DeleteFailsStep ==
  ASSUME IInv, NEW a \in todo, DeleteFails(a)
  PROVE  IInv' /\ OnlyDescribed
BY FailedStep DEF DeleteFails, IInv, TypeOK

-----------------------------------------------------------------------------
(* The walk of a directory that is deleted                                 *)

\* The directory on top is the one to be deleted or beneath it, nothing that was
\* created lies there, and what may be removed from it was listed.
LEMMA TopFacts ==
  ASSUME IInv, phase = "run", stack # <<>>
  PROVE  /\ Len(stack) \in Nat \ {0} /\ stack \in Seq([path : Paths, dirty : BOOLEAN])
         /\ Current \in todo /\ Current \in plan /\ Current = Action("DirDelete", stack[1].path)
         /\ Top.path \in Paths /\ Top = stack[Len(stack)]
         /\ \A b : Item(b, "ok") \in report /\ b.op \in Creating =>
              b.path # Top.path /\ b.path \notin Beneath(Top.path)
         /\ \A c \in allowed : Described(c)
         /\ \A c \in Beneath(Top.path) : c \in allowed =>
              full /\ Beneath(Top.path) \cap PlannedExtra(src, base) # {}
         /\ \A i \in DOMAIN stack : stack[i].dirty => Described(stack[i].path)
<1>1. /\ TypeOK /\ PlanStands /\ stack \in Seq([path : Paths, dirty : BOOLEAN])
      /\ Current \in todo /\ Current \in plan /\ Current = Action("DirDelete", stack[1].path)
  BY DEF IInv, TypeOK, ReportStands, Current
<1>2. /\ Len(stack) \in Nat \ {0} /\ DOMAIN stack = 1..Len(stack) /\ Top = stack[Len(stack)]
      /\ \A i \in DOMAIN stack : stack[i].path \in Paths
  <2> DEFINE F == [path : Paths, dirty : BOOLEAN]
  <2>1. \A f \in F : f.path \in Paths
    OBVIOUS
  <2> HIDE DEF F
  <2>2. stack \in Seq(F)
    BY <1>1 DEF F
  <2>3. Len(stack) \in Nat /\ DOMAIN stack = 1..Len(stack) /\ \A i \in DOMAIN stack : stack[i] \in F
    BY <2>2
  <2>4. Len(stack) # 0
    BY <2>2
  <2>5. Top = stack[Len(stack)]
    BY DEF Top, Last
  <2> QED
    BY <2>1, <2>3, <2>4, <2>5
<1>3. Top.path = stack[1].path \/ Top.path \in Beneath(stack[1].path)
  <2>1. CASE Len(stack) = 1
    BY <1>2, <2>1
  <2>2. CASE Len(stack) # 1
    BY <1>2, <2>2 DEF IInv, StackStands
  <2> QED
    BY <2>1, <2>2
<1>4. \A c \in Beneath(Top.path) : c \in Beneath(stack[1].path) /\ c # stack[1].path
  BY <1>2, <1>3, PathOrder
<1>5. ASSUME NEW b, Item(b, "ok") \in report, b.op \in Creating
      PROVE  b.path # Top.path /\ b.path \notin Beneath(Top.path)
  <2>1. b \in plan
    <3>1. Item(b, "ok").action = b
      BY DEF Item
    <3> QED
      BY <1>5, <3>1 DEF IInv, ReportStands, Refused
  <2>2. Current.op = "DirDelete" /\ Current.path = stack[1].path
    BY <1>1 DEF Action
  <2>3. b.path \notin Beneath(stack[1].path)
    BY <1>1, <1>5, <2>1, <2>2, PlanFacts
  <2>4. b.path # stack[1].path
    <3>1. b.path = stack[1].path => b.op \in {"FileReplace", "LinkReplace"}
      BY <1>1, <1>5, <2>1, <2>2, PlanFacts
    <3>2. b = Action(b.op, b.path)
      BY <1>1, <2>1, PlanFacts
    <3>3. b.path = stack[1].path => Action("DirDelete", b.path) \notin todo
      BY <1>2, <1>5, <3>1, <3>2 DEF IInv, ReplacedLast
    <3> QED
      BY <1>1, <3>3
  <2> QED
    BY <1>3, <1>4, <2>3, <2>4
<1>6. \A c \in allowed : Described(c)
  BY <1>1, PlanFacts
<1>7. ASSUME NEW c \in Beneath(Top.path), c \in allowed
      PROVE  full /\ Beneath(Top.path) \cap PlannedExtra(src, base) # {}
  <2>1. full
    <3>1. Current.path = stack[1].path
      BY <1>1 DEF Action
    <3>2. ~full => c = stack[1].path
      BY <1>1, <1>7, <3>1, PlanFacts
    <3> QED
      BY <1>4, <3>2
  <2>2. PICK x \in {c} \cup Beneath(c) : x \in PlannedExtra(src, base)
    BY <1>1, <1>7, <2>1, PlanFacts
  <2>3. x \in Beneath(Top.path)
    BY <1>2, <2>2, PathOrder
  <2> QED
    BY <2>1, <2>2, <2>3
<1>8. ASSUME NEW i \in DOMAIN stack, stack[i].dirty
      PROVE  Described(stack[i].path)
  <2>1. PICK x \in PlannedExtra(src, base) : x \in Beneath(stack[i].path)
    BY <1>8 DEF IInv, StackStands
  <2>2. base[x] # Absent /\ x \in Paths
    BY <1>1, PlannedHaveActions, TreeFacts DEF TypeOK
  <2>3. base[stack[i].path] = "dir"
    BY <1>1, <1>2, <2>1, <2>2, TreeFacts DEF TypeOK
  <2> QED
    BY <2>1, <2>3 DEF Described
<1> QED
  BY <1>1, <1>2, <1>5, <1>6, <1>7, <1>8

\* The deletion of the directory is given up.
LEMMA WalkEnds ==
  ASSUME IInv, phase = "run", stack # <<>>, stack' = <<>>,
         NEW r \in {"failed", "skipped"}, Finish(Current, r),
         UNCHANGED <<planVars, dst, phase, foreign>>, cancel' \in BOOLEAN
  PROVE  IInv' /\ OnlyDescribed
<1>1. PICK a \in todo : a = Current
  BY TopFacts
<1>2. Finish(a, r)
  BY <1>1
<1>3. ReportStands'
  BY <1>2, FinishReports DEF planVars
<1>4. DoneMeansDone' /\ ReplacedLast' /\ OnlyDescribed
  <2> DEFINE new == {Item(a, r)}
  <2>1. \A i \in new : i.result # "ok"
    BY DEF Item
  <2>2. report' = report \cup new /\ todo' \subseteq todo
    BY <1>2 DEF Finish
  <2> HIDE DEF new
  <2> QED
    BY <2>1, <2>2, NothingTouched DEF planVars
<1>5. TypeOK' /\ PlanStands' /\ StackStands'
  BY Kept DEF IInv, TypeOK
<1> QED
  BY <1>3, <1>4, <1>5 DEF IInv

\* The deletion of a directory begins, or is over at once.
LEMMA OpenDirStep ==
  ASSUME IInv, NEW a \in todo, OpenDir(a)
  PROVE  IInv' /\ OnlyDescribed
<1>1. /\ Due(a) /\ a.op = "DirDelete" /\ UNCHANGED <<planVars, dst, cancel, phase, foreign>>
      /\ phase = "run" /\ stack = <<>> /\ a \in plan /\ a.path \in Paths
      /\ a = Action("DirDelete", a.path)
  <2>1. Due(a) /\ a.op = "DirDelete" /\ UNCHANGED <<planVars, dst, cancel, phase, foreign>>
    BY DEF OpenDir
  <2> QED
    BY <2>1, DueFacts, PlanFacts DEF IInv
<1>2. CASE stack' = <<Frame(a.path)>> /\ UNCHANGED <<todo, report>>
  <2>1. /\ stack' \in Seq([path : Paths, dirty : BOOLEAN]) /\ DOMAIN stack' = {1}
        /\ stack'[1].path = a.path /\ ~stack'[1].dirty
    BY <1>1, <1>2 DEF Frame
  <2>2. TypeOK' /\ PlanStands'
    BY <1>1, <2>1 DEF IInv, TypeOK, PlanStands, planVars
  <2>3. StackStands'
    BY <2>1 DEF StackStands
  <2>4. ReportStands'
    <3>1. Current' = a
      BY <1>1, <2>1 DEF Current
    <3> HIDE DEF Current
    <3> QED
      BY <1>1, <1>2, <3>1 DEF IInv, ReportStands, Refused, ItemsOf, planVars
  <2>5. ReplacedLast' /\ DoneMeansDone'
    BY <1>1, <1>2 DEF IInv, ReplacedLast, DoneMeansDone, planVars
  <2>6. OnlyDescribed
    BY <1>1 DEF OnlyDescribed
  <2> QED
    BY <2>2, <2>3, <2>4, <2>5, <2>6 DEF IInv
<1>3. CASE Finish(a, "failed") /\ UNCHANGED stack
  BY <1>1, <1>3, FailedStep DEF IInv, TypeOK
<1>4. CASE Finish(a, "ok") /\ UNCHANGED stack /\ dst[a.path] = Absent
  <2>1. ReportStands'
    BY <1>1, <1>4, FinishReports DEF planVars
  <2>2. DoneMeansDone'
    <3>1. \A op \in Ops, p \in Paths :
            Item(Action(op, p), "ok") \in report' =>
              \/ Item(Action(op, p), "ok") \in report
              \/ op = "DirDelete" /\ p = a.path
      BY <1>1, <1>4 DEF Finish, Item, Action
    <3> QED
      BY <1>1, <1>4, <3>1 DEF IInv, DoneMeansDone, planVars
  <2>3. ReplacedLast'
    <3>1. \A op \in {"FileReplace", "LinkReplace"}, p \in Paths :
            Item(Action(op, p), "ok") \in report' => Item(Action(op, p), "ok") \in report
      BY <1>1, <1>4 DEF Finish, Item, Action
    <3>2. todo' \subseteq todo
      BY <1>4 DEF Finish
    <3> QED
      BY <3>1, <3>2 DEF IInv, ReplacedLast
  <2>4. TypeOK' /\ PlanStands' /\ StackStands'
    BY <1>1, <1>4, Kept DEF IInv, TypeOK
  <2>5. OnlyDescribed
    BY <1>1 DEF OnlyDescribed
  <2> QED
    BY <2>1, <2>2, <2>3, <2>4, <2>5 DEF IInv
<1> QED
  BY <1>2, <1>3, <1>4 DEF OpenDir

Frames == [path : Paths, dirty : BOOLEAN]

\* Marking the top of a walk changes nothing else of it.
LEMMA Soiled ==
  ASSUME NEW s \in Seq(Frames), s # <<>>
  PROVE  /\ SoilTop(s) \in Seq(Frames) /\ SoilTop(s) # <<>> /\ DOMAIN SoilTop(s) = DOMAIN s
         /\ \A i \in DOMAIN s : /\ SoilTop(s)[i].path = s[i].path
                                /\ SoilTop(s)[i].dirty => s[i].dirty \/ i = Len(s)
<1>1. \A f \in Frames : /\ [f EXCEPT !.dirty = TRUE] \in Frames
                        /\ [f EXCEPT !.dirty = TRUE].path = f.path
  BY DEF Frames
<1> HIDE DEF Frames
<1>2. Len(s) \in Nat /\ Len(s) # 0 /\ DOMAIN s = 1..Len(s) /\ \A i \in DOMAIN s : s[i] \in Frames
  OBVIOUS
<1>3. SoilTop(s) = [i \in 1..Len(s) |-> IF i = Len(s) THEN [s[i] EXCEPT !.dirty = TRUE] ELSE s[i]]
  BY <1>2 DEF SoilTop
<1>4. \A i \in 1..Len(s) : SoilTop(s)[i] \in Frames
  BY <1>1, <1>2, <1>3
<1>5. SoilTop(s) \in Seq(Frames) /\ DOMAIN SoilTop(s) = 1..Len(s)
  BY <1>2, <1>3, <1>4
<1>6. SoilTop(s) # <<>>
  BY <1>2, <1>5
<1>7. \A i \in DOMAIN s : /\ SoilTop(s)[i].path = s[i].path
                          /\ SoilTop(s)[i].dirty => s[i].dirty \/ i = Len(s)
  BY <1>1, <1>2, <1>3
<1> QED
  BY <1>2, <1>5, <1>6, <1>7

\* The deletion of the directory goes on.
LEMMA WalkGoesOn ==
  ASSUME IInv, phase = "run", stack # <<>>, UNCHANGED <<planVars, todo, report, phase, foreign>>,
         cancel' \in BOOLEAN, dst' \in Trees,
         stack' \in Seq(Frames), stack'[1].path = stack[1].path, StackStands'
  PROVE  TypeOK' /\ PlanStands' /\ ReportStands' /\ StackStands'
<1>1. TypeOK' /\ PlanStands'
  BY DEF IInv, TypeOK, PlanStands, planVars, Frames
<1>2. Current' = Current /\ Current \in todo
  BY TopFacts DEF Current
<1> HIDE DEF Current
<1>3. ReportStands'
  BY <1>2 DEF IInv, ReportStands, Refused, ItemsOf, planVars
<1> QED
  BY <1>1, <1>3

\* What lies in a directory lies beneath it.
LEMMA ChildFacts ==
  ASSUME NEW p, NEW c \in Children(dst, p)
  PROVE  c \in Paths /\ c \in Beneath(p) /\ dst[c] # Absent
BY DEF Children, Within, Beneath

\* The walk enters a directory.
LEMMA DescendStep ==
  ASSUME IInv, Descend
  PROVE  IInv' /\ OnlyDescribed
<1>1. /\ phase = "run" /\ stack # <<>>
      /\ UNCHANGED <<planVars, dst, todo, report, cancel, phase, foreign>>
  BY DEF Descend, Walking
<1>2. PICK c \in Children(dst, Top.path) : stack' = Append(stack, Frame(c))
  BY DEF Descend
<1>3. c \in Paths /\ c \in Beneath(Top.path)
  BY <1>2, ChildFacts
<1>4. /\ Frame(c) \in Frames /\ Frame(c).path = c /\ ~Frame(c).dirty
  BY <1>3 DEF Frame, Frames
<1>5. /\ Len(stack) \in Nat \ {0} /\ stack \in Seq(Frames) /\ Top.path \in Paths /\ Top = stack[Len(stack)]
  BY <1>1, TopFacts DEF Frames
<1> HIDE DEF Frames
<1>6. DOMAIN stack = 1..Len(stack)
  BY <1>5
<1>7. /\ stack' \in Seq(Frames) /\ DOMAIN stack' = 1..Len(stack) + 1
      /\ stack'[Len(stack) + 1] = Frame(c)
      /\ \A i \in 1..Len(stack) : stack'[i] = stack[i]
  BY <1>2, <1>4, <1>5
<1>8. \A i \in 1..Len(stack) : stack[i].path = Top.path \/ Top.path \in Beneath(stack[i].path)
  BY <1>5, <1>6 DEF IInv, StackStands
<1>9. \A i \in 1..Len(stack) : stack[i].path \in Paths
  <2>1. \A f \in Frames : f.path \in Paths
    BY DEF Frames
  <2> QED
    BY <1>5, <1>6, <2>1
<1>10. \A i \in 1..Len(stack) : c \in Beneath(stack[i].path)
  BY <1>3, <1>5, <1>8, <1>9, PathOrder
<1>11. StackStands'
  <2>1. ASSUME NEW i \in DOMAIN stack', NEW j \in DOMAIN stack', i < j
        PROVE  stack'[j].path \in Beneath(stack'[i].path)
    <3>1. i \in 1..Len(stack)
      BY <1>5, <1>7, <2>1
    <3>2. CASE j = Len(stack) + 1
      BY <1>4, <1>7, <1>10, <3>1, <3>2
    <3>3. CASE j # Len(stack) + 1
      <4>1. j \in 1..Len(stack)
        BY <1>5, <1>7, <3>3
      <4> QED
        BY <1>6, <1>7, <2>1, <3>1, <4>1 DEF IInv, StackStands
    <3> QED
      BY <3>2, <3>3
  <2>2. ASSUME NEW i \in DOMAIN stack', stack'[i].dirty
        PROVE  full' /\ Beneath(stack'[i].path) \cap PlannedExtra(src', base') # {}
    <3>1. i # Len(stack) + 1
      BY <1>4, <1>7, <2>2
    <3>2. i \in 1..Len(stack) /\ stack'[i] = stack[i]
      BY <1>5, <1>7, <3>1
    <3>3. full /\ Beneath(stack[i].path) \cap PlannedExtra(src, base) # {}
      BY <1>6, <2>2, <3>2 DEF IInv, StackStands
    <3> QED
      BY <1>1, <3>2, <3>3 DEF planVars
  <2> QED
    BY <2>1, <2>2 DEF StackStands
<1>12. stack'[1].path = stack[1].path
  BY <1>5, <1>7
<1>13. TypeOK' /\ PlanStands' /\ ReportStands' /\ StackStands'
  BY <1>1, <1>7, <1>11, <1>12, WalkGoesOn DEF IInv, TypeOK
<1>14. ReplacedLast' /\ DoneMeansDone'
  BY <1>1 DEF IInv, ReplacedLast, DoneMeansDone, planVars
<1>15. OnlyDescribed
  BY <1>1 DEF OnlyDescribed
<1> QED
  BY <1>13, <1>14, <1>15 DEF IInv

\* The walk removes a file or a link that is listed.
LEMMA RemoveChildStep ==
  ASSUME IInv, RemoveChild
  PROVE  IInv' /\ OnlyDescribed
<1>1. /\ phase = "run" /\ stack # <<>> /\ stack' = SoilTop(stack)
      /\ UNCHANGED <<planVars, todo, report, cancel, phase, foreign>>
  BY DEF RemoveChild, Walking
<1>2. PICK c \in Children(dst, Top.path) \cap allowed :
        dst[c] # "dir" /\ dst' = [dst EXCEPT ![c] = Absent]
  BY DEF RemoveChild
<1>3. c \in Paths /\ c \in Beneath(Top.path)
  BY <1>2, ChildFacts
<1>4. /\ stack \in Seq(Frames) /\ Top = stack[Len(stack)] /\ Len(stack) \in Nat \ {0}
      /\ Described(c) /\ full /\ Beneath(Top.path) \cap PlannedExtra(src, base) # {}
      /\ \A b : Item(b, "ok") \in report /\ b.op \in Creating => b.path # c
  BY <1>1, <1>2, <1>3, TopFacts DEF Frames
<1> HIDE DEF Frames
<1>5. /\ stack' \in Seq(Frames) /\ DOMAIN stack' = DOMAIN stack
      /\ \A i \in DOMAIN stack : /\ stack'[i].path = stack[i].path
                                 /\ stack'[i].dirty => stack[i].dirty \/ i = Len(stack)
  BY <1>1, <1>4, Soiled
<1>6. StackStands'
  BY <1>1, <1>4, <1>5 DEF IInv, StackStands, planVars
<1>7. stack'[1].path = stack[1].path
  <2>1. 1 \in DOMAIN stack
    BY <1>4
  <2> QED
    BY <1>5, <2>1
<1>8. dst' \in Trees /\ DoneMeansDone' /\ ReplacedLast' /\ OnlyDescribed
  <2>1. PICK new : new = {}
    OBVIOUS
  <2>2. /\ report' = report \cup new /\ todo' \subseteq todo
        /\ phase' = phase /\ UNCHANGED <<src, base, foreign>>
    BY <1>1, <2>1 DEF planVars
  <2>3. \A i \in new : i.result = "ok" =>
          \E op \in {"FileDelete", "LinkDelete", "DirDelete"} : i.action = Action(op, c)
    BY <2>1
  <2>4. /\ dst' = [dst EXCEPT ![c] = Absent] /\ (Empty(c) \/ dst[c] # "dir")
        /\ dst[c] # Absent => Described(c)
        /\ \A a : Item(a, "ok") \in report /\ a.op \in Creating => a.path # c
    BY <1>2, <1>4
  <2> QED
    BY <1>1, <1>3, <2>2, <2>3, <2>4, RemovingStep
<1>9. TypeOK' /\ PlanStands' /\ ReportStands' /\ StackStands'
  BY <1>1, <1>5, <1>6, <1>7, <1>8, WalkGoesOn DEF IInv, TypeOK
<1> QED
  BY <1>8, <1>9 DEF IInv

\* The walk meets what is not listed and gives up.
LEMMA MeetsUnexpectedStep ==
  ASSUME IInv, MeetsUnexpected
  PROVE  IInv' /\ OnlyDescribed
<1>1. /\ phase = "run" /\ stack # <<>> /\ stack' = <<>> /\ Finish(Current, "skipped")
      /\ UNCHANGED <<planVars, dst, phase, foreign>> /\ cancel' \in BOOLEAN
  BY DEF MeetsUnexpected, Walking, IInv, TypeOK
<1> QED
  BY <1>1, WalkEnds

\* The walk fails.
LEMMA DirDeleteFailsStep ==
  ASSUME IInv, DirDeleteFails
  PROVE  IInv' /\ OnlyDescribed
<1>1. /\ phase = "run" /\ stack # <<>> /\ stack' = <<>>
      /\ UNCHANGED <<planVars, dst, phase, foreign>> /\ cancel' \in BOOLEAN
  BY DEF DirDeleteFails, Walking, IInv, TypeOK
<1>2. PICK r \in {"failed", "skipped"} : Finish(Current, r)
  BY DEF DirDeleteFails
<1> QED
  BY <1>1, <1>2, WalkEnds

\* The walk leaves a directory that is gone now, and goes on above it.
LEMMA FrontFacts ==
  ASSUME NEW s \in Seq(Frames), Len(s) > 1
  PROVE  /\ Front(s) \in Seq(Frames) /\ Front(s) # <<>>
         /\ Len(s) \in Nat /\ Len(Front(s)) = Len(s) - 1 /\ DOMAIN Front(s) = 1..(Len(s) - 1)
         /\ \A i \in 1..(Len(s) - 1) : Front(s)[i] = s[i]
<1> HIDE DEF Frames
<1>1. Len(s) \in Nat /\ Front(s) = SubSeq(s, 1, Len(s) - 1)
  BY DEF Front
<1>2. /\ Front(s) \in Seq(Frames) /\ Len(Front(s)) = Len(s) - 1
      /\ \A i \in 1..(Len(s) - 1) : Front(s)[i] = s[i]
  BY <1>1
<1>3. \A r \in Seq(Frames) : DOMAIN r = 1..Len(r) /\ (r = <<>> => Len(r) = 0)
  OBVIOUS
<1>4. DOMAIN Front(s) = 1..(Len(s) - 1)
  BY <1>2, <1>3
<1>5. Len(s) - 1 # 0
  BY <1>1
<1>6. Front(s) # <<>>
  BY <1>2, <1>3, <1>5
<1> QED
  BY <1>1, <1>2, <1>4, <1>6

\* The walk leaves a directory, removing it or giving up.
LEMMA CloseDirStep ==
  ASSUME IInv, CloseDir
  PROVE  IInv' /\ OnlyDescribed
<1> DEFINE n == Len(stack)
<1>1. /\ phase = "run" /\ stack # <<>> /\ Empty(Top.path)
      /\ UNCHANGED <<planVars, cancel, phase, foreign>>
      /\ TypeOK /\ PlanStands /\ StackStands
  BY DEF CloseDir, Walking, IInv
<1>2. /\ n \in Nat \ {0} /\ stack \in Seq(Frames) /\ DOMAIN stack = 1..n
      /\ Current \in todo /\ Current \in plan /\ Current = Action("DirDelete", stack[1].path)
      /\ Top.path \in Paths /\ Top = stack[n]
      /\ \A b : Item(b, "ok") \in report /\ b.op \in Creating => b.path # Top.path
      /\ \A c \in allowed : Described(c)
      /\ \A i \in DOMAIN stack : stack[i].dirty => Described(stack[i].path)
  <2>1. stack \in Seq(Frames)
    BY <1>1, TopFacts DEF Frames
  <2> HIDE DEF Frames
  <2>2. DOMAIN stack = 1..n
    BY <2>1
  <2> QED
    BY <1>1, <2>1, <2>2, TopFacts
<1> HIDE DEF n, Frames
<1>3. CASE Finish(Current, "skipped") /\ stack' = <<>> /\ UNCHANGED dst
  BY <1>1, <1>3, WalkEnds DEF TypeOK
<1>4. CASE /\ Top.path \in allowed \/ Top.dirty
           /\ dst' = [dst EXCEPT ![Top.path] = Absent]
           /\ stack' = SoilTop(Front(stack))
           /\ IF n = 1 THEN Finish(Current, "ok") ELSE UNCHANGED <<todo, report>>
  <2>1. Described(Top.path)
    BY <1>2, <1>4
  <2>2. CASE n = 1
    <3>1. Finish(Current, "ok") /\ Current = Action("DirDelete", Top.path)
      BY <1>2, <1>4, <2>2
    <3>2. stack' = <<>>
      <4>1. Front(stack) = <<>>
        BY <1>2, <2>2 DEF Front, n
      <4> QED
        BY <1>4, <4>1 DEF SoilTop
    <3>3. PICK a \in todo : a = Current
      BY <1>2
    <3>4. Finish(a, "ok") /\ phase' = phase /\ plan' = plan
      BY <1>1, <3>1, <3>3 DEF planVars
    <3>5. ReportStands'
      BY <1>1, <3>2, <3>4, FinishReports
    <3>6. dst' \in Trees /\ DoneMeansDone' /\ ReplacedLast' /\ OnlyDescribed
      <4>1. PICK new : new = {Item(a, "ok")}
        OBVIOUS
      <4>2. /\ report' = report \cup new /\ todo' \subseteq todo
            /\ phase' = phase /\ UNCHANGED <<src, base, foreign>>
        BY <1>1, <3>4, <4>1 DEF planVars, Finish
      <4>3. \A i \in new : i.result = "ok" =>
              \E op \in {"FileDelete", "LinkDelete", "DirDelete"} : i.action = Action(op, Top.path)
        BY <3>1, <3>3, <4>1 DEF Item
      <4> QED
        BY <1>1, <1>2, <1>4, <2>1, <4>2, <4>3, RemovingStep
    <3>7. TypeOK' /\ PlanStands' /\ StackStands'
      BY <1>1, <3>2, <3>6, Kept DEF TypeOK
    <3> QED
      BY <3>5, <3>6, <3>7 DEF IInv
  <2>3. CASE n # 1
    <3>1. n > 1 /\ UNCHANGED <<todo, report>>
      BY <1>2, <1>4, <2>3
    <3>2. /\ Front(stack) \in Seq(Frames) /\ Front(stack) # <<>>
          /\ Len(Front(stack)) = n - 1 /\ DOMAIN Front(stack) = 1..(n - 1)
          /\ \A i \in 1..(n - 1) : Front(stack)[i] = stack[i]
      BY <1>2, <3>1, FrontFacts DEF n
    <3>3. /\ stack' \in Seq(Frames) /\ DOMAIN stack' = 1..(n - 1)
          /\ \A i \in 1..(n - 1) : /\ stack'[i].path = stack[i].path
                                   /\ stack'[i].dirty => stack[i].dirty \/ i = n - 1
      BY <1>4, <3>2, Soiled
    <3>4. 1..(n - 1) \subseteq DOMAIN stack /\ n - 1 \in DOMAIN stack /\ n \in DOMAIN stack
          /\ 1 \in 1..(n - 1) /\ n - 1 < n /\ 1 < n
      BY <1>2, <3>1
    <3>5. full /\ Beneath(stack[n - 1].path) \cap PlannedExtra(src, base) # {}
      <4>1. /\ Top.path \in Beneath(stack[n - 1].path) /\ Top.path \in Beneath(stack[1].path)
            /\ stack[n - 1].path \in Paths /\ stack[1].path \in Paths
        <5>1. \A f \in Frames : f.path \in Paths
          BY DEF Frames
        <5>2. \A i \in DOMAIN stack : stack[i] \in Frames
          BY <1>2
        <5> QED
          BY <1>1, <1>2, <3>4, <5>1, <5>2 DEF StackStands
      <4>2. CASE Top.dirty
        <5>1. full /\ Beneath(Top.path) \cap PlannedExtra(src, base) # {}
          BY <1>1, <1>2, <3>4, <4>2 DEF StackStands
        <5> QED
          BY <1>2, <4>1, <5>1, PathOrder
      <4>3. CASE Top.path \in allowed
        <5>1. Current.path = stack[1].path
          BY <1>2 DEF Action
        <5>2. Top.path # stack[1].path
          BY <4>1, PathOrder
        <5>3. full
          BY <1>1, <1>2, <4>3, <5>1, <5>2, PlanFacts
        <5>4. PICK x \in {Top.path} \cup Beneath(Top.path) : x \in PlannedExtra(src, base)
          BY <1>1, <4>3, <5>3, PlanFacts
        <5>5. x \in Beneath(stack[n - 1].path)
          BY <1>2, <4>1, <5>4, PathOrder
        <5> QED
          BY <5>3, <5>4, <5>5
      <4> QED
        BY <1>4, <4>2, <4>3
    <3>6. StackStands'
      <4>1. ASSUME NEW i \in DOMAIN stack', NEW j \in DOMAIN stack', i < j
            PROVE  stack'[j].path \in Beneath(stack'[i].path)
        BY <1>1, <3>3, <3>4, <4>1 DEF StackStands
      <4>2. ASSUME NEW i \in DOMAIN stack', stack'[i].dirty
            PROVE  full' /\ Beneath(stack'[i].path) \cap PlannedExtra(src', base') # {}
        <5>1. i \in 1..(n - 1) /\ i \in DOMAIN stack /\ stack'[i].path = stack[i].path
          BY <3>3, <3>4
        <5>2. full /\ Beneath(stack[i].path) \cap PlannedExtra(src, base) # {}
          BY <1>1, <3>3, <3>5, <4>2, <5>1 DEF StackStands
        <5> QED
          BY <1>1, <5>1, <5>2 DEF planVars
      <4> QED
        BY <4>1, <4>2 DEF StackStands
    <3>7. dst' \in Trees /\ DoneMeansDone' /\ ReplacedLast' /\ OnlyDescribed
      <4>1. PICK new : new = {}
        OBVIOUS
      <4>2. /\ report' = report \cup new /\ todo' \subseteq todo
            /\ phase' = phase /\ UNCHANGED <<src, base, foreign>>
        BY <1>1, <3>1, <4>1 DEF planVars
      <4>3. \A i \in new : i.result = "ok" =>
              \E op \in {"FileDelete", "LinkDelete", "DirDelete"} : i.action = Action(op, Top.path)
        BY <4>1
      <4> QED
        BY <1>1, <1>2, <1>4, <2>1, <4>2, <4>3, RemovingStep
    <3>8. stack'[1].path = stack[1].path
      BY <3>3, <3>4
    <3>9. TypeOK' /\ PlanStands' /\ ReportStands' /\ StackStands'
      BY <1>1, <3>1, <3>3, <3>6, <3>7, <3>8, WalkGoesOn DEF TypeOK
    <3> QED
      BY <3>7, <3>9 DEF IInv
  <2> QED
    BY <2>2, <2>3
<1> QED
  BY <1>3, <1>4 DEF CloseDir, n

-----------------------------------------------------------------------------
(* What can go wrong                                                       *)

\* Somebody puts a file where there was nothing.
LEMMA ForeignFileStep ==
  ASSUME IInv, ForeignFile
  PROVE  IInv' /\ OnlyDescribed
<1> USE TreeFacts
<1>1. /\ UNCHANGED <<planVars, todo, report, stack, cancel, phase>> /\ dst \in Trees
  BY DEF ForeignFile, IInv, TypeOK
<1>2. PICK p \in Paths, f \in Files :
        /\ dst[p] = Absent /\ \A q \in Above(p) : dst[q] = "dir"
        /\ dst' = [dst EXCEPT ![p] = f] /\ foreign' = foreign \cup {p}
  BY DEF ForeignFile
<1>3. dst'[p] = f /\ \A q \in Paths : q # p => dst'[q] = dst[q]
  BY <1>1, <1>2
<1>4. dst' \in Trees
  <2>1. ASSUME NEW x \in Paths, NEW y \in Above(x), dst'[x] # Absent
        PROVE  dst'[y] = "dir"
    <3>1. y \in Paths /\ y # x /\ x \in Beneath(y)
      BY PathOrder
    <3>2. CASE x = p
      BY <1>2, <1>3, <3>1, <3>2
    <3>3. CASE x # p
      <4>1. dst[y] = "dir"
        BY <1>1, <1>3, <2>1, <3>1, <3>3
      <4>2. y # p
        BY <1>1, <1>2, <4>1
      <4> QED
        BY <1>3, <3>1, <4>1, <4>2
    <3> QED
      BY <3>2, <3>3
  <2>2. dst' \in [Paths -> Objects \cup {Absent}]
    <3>1. f \in Objects
      BY <1>1
    <3> QED
      BY <1>1, <1>2, <3>1
  <2> QED
    BY <2>1, <2>2 DEF Trees, WellFormed
<1>5. TypeOK' /\ PlanStands' /\ StackStands'
  BY <1>1, <1>2, <1>4 DEF IInv, TypeOK, PlanStands, StackStands, planVars
<1>6. ReportStands'
  <2>1. Current' = Current
    BY <1>1 DEF Current
  <2> HIDE DEF Current
  <2> QED
    BY <1>1, <2>1 DEF IInv, ReportStands, Refused, ItemsOf, planVars
<1>7. ReplacedLast'
  BY <1>1 DEF IInv, ReplacedLast
<1>8. DoneMeansDone'
  <2>1. \A q \in Paths \ foreign' : q \in Paths \ foreign /\ dst'[q] = dst[q]
    BY <1>2, <1>3
  <2> QED
    BY <1>1, <2>1 DEF IInv, DoneMeansDone, planVars
<1>9. OnlyDescribed
  BY <1>2, <1>3 DEF OnlyDescribed
<1> QED
  BY <1>5, <1>6, <1>7, <1>8, <1>9 DEF IInv

\* A request to cancel changes nothing yet.
LEMMA RequestCancelStep ==
  ASSUME IInv, RequestCancel \/ UNCHANGED vars
  PROVE  IInv' /\ OnlyDescribed
<1>1. /\ UNCHANGED <<planVars, dst, todo, report, stack, phase, foreign>> /\ cancel' \in BOOLEAN
  BY DEF RequestCancel, vars, planVars, IInv, TypeOK
<1>2. TypeOK' /\ PlanStands' /\ StackStands'
  BY <1>1 DEF IInv, TypeOK, PlanStands, StackStands, planVars
<1>3. ReportStands'
  <2>1. Current' = Current
    BY <1>1 DEF Current
  <2> HIDE DEF Current
  <2> QED
    BY <1>1, <2>1 DEF IInv, ReportStands, Refused, ItemsOf, planVars
<1>4. ReplacedLast' /\ DoneMeansDone'
  BY <1>1 DEF IInv, ReplacedLast, DoneMeansDone, planVars
<1>5. OnlyDescribed
  BY <1>1 DEF OnlyDescribed
<1> QED
  BY <1>2, <1>3, <1>4, <1>5 DEF IInv

\* Between two actions nothing is under way; inside the deletion of a directory
\* it is reported as failed. All that was to come is reported as cancelled.
LEMMA CancelledStep ==
  ASSUME IInv, Cancelled \/ DirDeleteCancelled
  PROVE  IInv' /\ OnlyDescribed
<1>1. /\ phase = "run" /\ UNCHANGED <<planVars, dst, cancel, phase, foreign>>
      /\ stack' = <<>> /\ todo' = {}
  BY DEF Cancelled, DirDeleteCancelled, Abort
<1>2. PICK first \in SUBSET todo :
        report' = report \cup {Item(a, "failed") : a \in first}
                         \cup {Item(b, "cancelled") : b \in todo \ first}
  <2>1. CASE Cancelled
    <3>1. report' = report \cup {Item(a, "failed") : a \in {}}
                           \cup {Item(b, "cancelled") : b \in todo \ {}}
      BY <2>1 DEF Cancelled, Abort
    <3> QED
      BY <3>1
  <2>2. CASE DirDeleteCancelled
    <3>1. {Current} \in SUBSET todo
      BY <1>1, <2>2, TopFacts DEF DirDeleteCancelled
    <3>2. report' = report \cup {Item(a, "failed") : a \in {Current}}
                           \cup {Item(b, "cancelled") : b \in todo \ {Current}}
      BY <2>2 DEF DirDeleteCancelled
    <3> QED
      BY <3>1, <3>2
  <2> QED
    BY <2>1, <2>2
<1>3. ReportStands'
  BY <1>1, <1>2, AbortReports DEF planVars
<1>4. DoneMeansDone' /\ ReplacedLast' /\ OnlyDescribed
  <2>1. PICK new : new = {Item(a, "failed") : a \in first} \cup {Item(b, "cancelled") : b \in todo \ first}
    OBVIOUS
  <2>2. \A i \in new : i.result # "ok"
    BY <2>1 DEF Item
  <2>3. report' = report \cup new /\ todo' \subseteq todo
    BY <1>1, <1>2, <2>1
  <2> QED
    BY <1>1, <2>2, <2>3, NothingTouched DEF planVars
<1>5. TypeOK' /\ PlanStands' /\ StackStands'
  BY <1>1, Kept DEF IInv, TypeOK
<1> QED
  BY <1>3, <1>4, <1>5 DEF IInv

\* The process dies.
LEMMA CrashStep ==
  ASSUME IInv, Crash
  PROVE  IInv' /\ OnlyDescribed
<1>1. /\ UNCHANGED <<planVars, dst, report, cancel, foreign>>
      /\ phase = "run" /\ phase' = "idle" /\ todo' = {} /\ stack' = <<>>
  BY DEF Crash
<1>2. TypeOK' /\ PlanStands' /\ StackStands'
  BY <1>1, Kept DEF IInv, TypeOK
<1>3. ReportStands'
  <2> HIDE DEF Current
  <2> QED
    BY <1>1 DEF IInv, ReportStands, Refused, planVars
<1>4. ReplacedLast' /\ DoneMeansDone' /\ OnlyDescribed
  BY <1>1 DEF ReplacedLast, DoneMeansDone, OnlyDescribed
<1> QED
  BY <1>2, <1>3, <1>4 DEF IInv

\* The plan returns.
LEMMA ReturnStep ==
  ASSUME IInv, Return
  PROVE  IInv' /\ OnlyDescribed
<1>1. /\ UNCHANGED <<planVars, dst, todo, report, stack, cancel, foreign>>
      /\ phase = "run" /\ phase' = "done" /\ todo = {}
  BY DEF Return
<1>2. stack = <<>>
  BY <1>1 DEF IInv, ReportStands
<1>3. TypeOK' /\ PlanStands' /\ StackStands'
  BY <1>1, <1>2, Kept DEF IInv, TypeOK
<1>4. ReportStands'
  <2> HIDE DEF Current
  <2> QED
    BY <1>1, <1>2 DEF IInv, ReportStands, Refused, ItemsOf, planVars
<1>5. ReplacedLast' /\ DoneMeansDone' /\ OnlyDescribed
  BY <1>1 DEF IInv, ReplacedLast, DoneMeansDone, OnlyDescribed, planVars
<1> QED
  BY <1>3, <1>4, <1>5 DEF IInv

\* A plan is refused as a whole: no action is to come and none is reported.
LEMMA NoRoomStep ==
  ASSUME IInv, NoRoom
  PROVE  IInv' /\ OnlyDescribed
<1>1. /\ UNCHANGED <<planVars, dst, stack, cancel, foreign>> /\ stack = <<>>
      /\ phase' = "done" /\ todo' = {} /\ report' = {Refusal}
  BY DEF NoRoom
<1>2. Refused' /\ \A a : Item(a, "ok") \notin report'
  BY <1>1 DEF Refused, Refusal, Item
<1>3. TypeOK' /\ PlanStands' /\ StackStands'
  BY <1>1, Kept DEF IInv, TypeOK
<1>4. ReportStands'
  <2> HIDE DEF Current
  <2> QED
    BY <1>1, <1>2 DEF ReportStands
<1>5. ReplacedLast' /\ DoneMeansDone' /\ OnlyDescribed
  BY <1>1, <1>2 DEF ReplacedLast, DoneMeansDone, OnlyDescribed
<1> QED
  BY <1>3, <1>4, <1>5 DEF IInv

-----------------------------------------------------------------------------
(* A new plan                                                              *)

\* A plan begins, that of all rows or of one.
LEMMA StartStep ==
  ASSUME IInv, StartFull \/ StartSingle
  PROVE  IInv' /\ OnlyDescribed
<1>1. PICK actions, allow, isFull :
        /\ Start(actions, allow, isFull)
        /\ \/ actions = SyncActions(src, dst) /\ allow = SyncAllowed(src, dst) /\ isFull = TRUE
           \/ /\ isFull = FALSE
              /\ \E p \in Rows(src, dst) : actions = RowActions(src, dst, p) /\ allow = {p}
  BY DEF StartFull, StartSingle
<1>2. /\ phase' = "run" /\ base' = dst /\ full' = isFull /\ plan' = actions /\ todo' = actions
      /\ allowed' = allow /\ report' = {} /\ stack' = <<>> /\ cancel' = FALSE /\ foreign' = {}
      /\ UNCHANGED <<src, dst>>
  BY <1>1 DEF Start
<1>3. TypeOK'
  <2>1. stack' \in Seq(Frames)
    BY <1>2
  <2> QED
    BY <1>1, <1>2, <2>1 DEF IInv, TypeOK, Frames
<1>4. PlanStands'
  BY <1>1, <1>2 DEF PlanStands
<1>5. ReportStands'
  <2> HIDE DEF Current
  <2>1. \A a : ItemsOf(a)' = {}
    BY <1>2 DEF ItemsOf
  <2> QED
    BY <1>2, <2>1 DEF ReportStands, Refused
<1>6. StackStands' /\ ReplacedLast' /\ DoneMeansDone' /\ OnlyDescribed
  BY <1>2 DEF StackStands, ReplacedLast, DoneMeansDone, OnlyDescribed
<1> QED
  BY <1>3, <1>4, <1>5, <1>6 DEF IInv

\* The invariant holds before the first plan.
LEMMA InitIInv == Init => IInv
<1> SUFFICES ASSUME Init PROVE IInv
  OBVIOUS
<1>1. /\ src \in SourceTrees /\ dst \in DestTrees /\ base = dst /\ full = TRUE
      /\ plan = {} /\ allowed = {} /\ todo = {} /\ report = {} /\ stack = <<>>
      /\ cancel = FALSE /\ phase = "idle" /\ foreign = {}
  BY DEF Init
<1>2. TypeOK
  <2>1. stack \in Seq(Frames)
    BY <1>1
  <2> QED
    BY <1>1, <2>1, SyncAssumption DEF TypeOK, Frames
<1>3. PlanStands /\ StackStands /\ ReplacedLast /\ DoneMeansDone
  BY <1>1 DEF PlanStands, StackStands, ReplacedLast, DoneMeansDone
<1>4. ReportStands
  <2> HIDE DEF Current
  <2> QED
    BY <1>1 DEF ReportStands, Refused
<1> QED
  BY <1>2, <1>3, <1>4 DEF IInv

\* Every step keeps the invariant and takes away only what a row describes.
LEMMA NextIInv == IInv /\ [Next]_vars => IInv' /\ OnlyDescribed
<1> SUFFICES ASSUME IInv, [Next]_vars PROVE IInv' /\ OnlyDescribed
  OBVIOUS
<1>1. CASE StartFull \/ StartSingle
  BY <1>1, StartStep
<1>2. ASSUME NEW a \in todo, Execute(a) PROVE IInv' /\ OnlyDescribed
  BY <1>2, RunCopyStep, RunLinkStep, CreateDirStep, DeleteOneStep, OpenDirStep DEF Execute
<1>3. ASSUME NEW a \in todo, Fail(a) PROVE IInv' /\ OnlyDescribed
  BY <1>3, CopyFailsStep, LinkFailsStep, CreateDirFailsStep, DeleteFailsStep DEF Fail
<1>4. CASE Walk
  BY <1>4, DescendStep, RemoveChildStep, MeetsUnexpectedStep, CloseDirStep DEF Walk
<1>5. CASE DirDeleteFails
  BY <1>5, DirDeleteFailsStep
<1>6. CASE ForeignFile
  BY <1>6, ForeignFileStep
<1>7. CASE RequestCancel \/ Rest \/ UNCHANGED vars
  BY <1>7, RequestCancelStep DEF Rest
<1>8. CASE Cancelled \/ DirDeleteCancelled
  BY <1>8, CancelledStep
<1>9. CASE Crash
  BY <1>9, CrashStep
<1>10. CASE Return
  BY <1>10, ReturnStep
<1>11. CASE NoRoom
  BY <1>11, NoRoomStep
<1> QED
  BY <1>1, <1>2, <1>3, <1>4, <1>5, <1>6, <1>7, <1>8, <1>9, <1>10, <1>11 DEF Next

-----------------------------------------------------------------------------
(* A plan that is refused                                                  *)

\* As long as nothing is reported and no deletion is under way, and when the
\* plan was refused, the destination is as it was compared.
UntouchedYet ==
  (phase = "run" /\ report = {} /\ stack = <<>>) \/ Refused =>
    \A p \in Paths \ foreign : dst[p] = base[p]

\* What is over has an item.
LEMMA FinishTells == ASSUME NEW a, NEW r, Finish(a, r) PROVE report' # {}
BY DEF Finish

\* A step of an action is reported or opens a directory, a step of a deletion is
\* reported or stays in a directory.
LEMMA StepsTell ==
  ASSUME IInv, (\E a \in todo : Execute(a) \/ Fail(a)) \/ Walk \/ DirDeleteFails
                 \/ Cancelled \/ DirDeleteCancelled
  PROVE  phase' = "run" /\ (report' # {} \/ stack' # <<>>)
<1>1. ASSUME NEW a \in todo, Execute(a) PROVE phase' = "run" /\ (report' # {} \/ stack' # <<>>)
  <2>1. phase' = "run"
    BY <1>1 DEF Execute, RunCopy, RunLink, CreateDir, DeleteOne, OpenDir, Due, Quiet
  <2>2. (\E r : Finish(a, r)) \/ stack' = <<Frame(a.path)>>
    BY <1>1 DEF Execute, RunCopy, RunLink, CreateDir, DeleteOne, OpenDir
  <2> QED
    BY <2>1, <2>2, FinishTells
<1>2. ASSUME NEW a \in todo, Fail(a) PROVE phase' = "run" /\ report' # {}
  <2>1. phase' = "run"
    BY <1>2 DEF Fail, CopyFails, LinkFails, CreateDirFails, DeleteFails, Due
  <2>2. (\E r : Finish(a, r)) \/ Item(a, "failed") \in report'
    BY <1>2 DEF Fail, CopyFails, LinkFails, CreateDirFails, DeleteFails
  <2> QED
    BY <2>1, <2>2, FinishTells
<1>3. CASE Walk \/ DirDeleteFails
  <2>1. phase = "run" /\ phase' = "run" /\ stack # <<>>
    BY <1>3 DEF Walk, DirDeleteFails, Descend, RemoveChild, MeetsUnexpected, CloseDir, Walking
  <2>2. (\E r : Finish(Current, r)) \/ Descend \/ RemoveChild
          \/ (stack' = SoilTop(Front(stack)) /\ Len(stack) # 1)
    BY <1>3 DEF Walk, DirDeleteFails, MeetsUnexpected, CloseDir
  <2>3. Descend => stack' # <<>>
    BY TopFacts DEF Descend
  <2>4. \A frames \in Seq(Frames) : frames # <<>> => SoilTop(frames) # <<>>
    BY DEF SoilTop
  <2>5. stack \in Seq(Frames) /\ Len(stack) \in Nat \ {0}
    BY <2>1, TopFacts DEF Frames
  <2>6. Len(stack) # 1 => Front(stack) \in Seq(Frames) /\ Front(stack) # <<>>
    <3> HIDE DEF Frames
    <3>1. \A n \in Nat \ {0} : n # 1 => n > 1
      OBVIOUS
    <3> QED
      BY <2>5, <3>1, FrontFacts
  <2> QED
    BY <2>1, <2>2, <2>3, <2>4, <2>5, <2>6, FinishTells DEF RemoveChild
<1>4. CASE Cancelled \/ DirDeleteCancelled
  <2>1. phase' = "run"
    BY <1>4 DEF Cancelled, DirDeleteCancelled
  <2>2. (\E a \in todo : Item(a, "cancelled") \in report') \/ Item(Current, "failed") \in report'
    BY <1>4 DEF Cancelled, DirDeleteCancelled, Abort
  <2> QED
    BY <2>1, <2>2
<1> QED
  BY <1>1, <1>2, <1>3, <1>4

\* Every step keeps it.
LEMMA NextUntouched == IInv /\ UntouchedYet /\ [Next]_vars => UntouchedYet'
<1> SUFFICES ASSUME IInv, UntouchedYet, [Next]_vars PROVE UntouchedYet'
  OBVIOUS
<1>1. CASE StartFull \/ StartSingle
  BY <1>1 DEF StartFull, StartSingle, Start, UntouchedYet, Refused
<1>2. CASE (\E a \in todo : Execute(a) \/ Fail(a)) \/ Walk \/ DirDeleteFails
             \/ Cancelled \/ DirDeleteCancelled
  BY <1>2, StepsTell DEF UntouchedYet, Refused
<1>3. CASE NoRoom
  BY <1>3 DEF NoRoom, UntouchedYet, Refused, planVars
<1>4. CASE ForeignFile
  <2>1. PICK p \in Paths, f \in Files :
          dst' = [dst EXCEPT ![p] = f] /\ foreign' = foreign \cup {p}
    BY <1>4 DEF ForeignFile
  <2>2. /\ \A q \in Paths \ foreign' : q \in Paths \ foreign /\ dst'[q] = dst[q]
        /\ UNCHANGED <<planVars, report, stack, phase>>
    BY <1>4, <2>1, TreeFacts DEF ForeignFile, IInv, TypeOK
  <2> QED
    BY <2>2 DEF UntouchedYet, Refused, planVars
<1>5. CASE RequestCancel \/ Rest \/ UNCHANGED vars
  BY <1>5 DEF RequestCancel, Rest, vars, planVars, UntouchedYet, Refused
<1>6. CASE Crash
  BY <1>6 DEF Crash, UntouchedYet, Refused
<1>7. CASE Return
  <2>1. phase = "run" /\ phase' = "done" /\ UNCHANGED <<planVars, dst, report, stack, foreign>>
    BY <1>7 DEF Return
  <2>2. Refusal \notin report
    <3>1. Refusal \in report => Refusal.action \in plan
      BY <2>1 DEF IInv, ReportStands, Refused
    <3>2. Refusal.action.op = "None"
      BY DEF Refusal, Item, Action
    <3> QED
      BY <3>1, <3>2, PlanFacts DEF IInv, Ops
  <2> QED
    BY <2>1, <2>2 DEF UntouchedYet, Refused
<1> QED
  BY <1>1, <1>2, <1>3, <1>4, <1>5, <1>6, <1>7 DEF Next

-----------------------------------------------------------------------------
(* A full plan that nothing disturbs                                       *)

Deleting == {"FileDelete", "LinkDelete", "DirDelete"}

Supported(s, d) == \A p \in Paths : "odd" \notin {s[p], d[p]}

Undisturbed == phase # "idle" /\ full /\ smooth /\ Supported(src, base)

\* What lies at a path is what the source has there, or what the comparison
\* found and an action to come will change. Directories may be missing.
PathStands(p) ==
  /\ src[p] \in Files \cup Links =>
       dst[p] = IF \E a \in todo : a.path = p /\ a.op \in Creating THEN base[p] ELSE src[p]
  /\ src[p] = "dir" =>
       dst[p] \in {Absent, "dir"} \/ (dst[p] = base[p] /\ Action("DirCreate", p) \in todo)
  /\ src[p] = Absent =>
       dst[p] = Absent \/ (dst[p] = base[p] /\ \E a \in todo : a.path = p /\ a.op \in Deleting)

\* The actions run in their order, and a directory that the source does not
\* have is empty when its deletion begins.
ProgressStands ==
  Undisturbed =>
    /\ ~cancel
    /\ plan = SyncActions(src, base) /\ allowed = SyncAllowed(src, base)
    /\ \A a \in plan \ todo, b \in todo : ~Precedes(b, a)
    /\ \A p \in Paths : PathStands(p)
    /\ stack # <<>> =>
         /\ \A b \in todo : ~Precedes(b, Current)
         /\ src[stack[1].path] # "dir" =>
              Len(stack) = 1 /\ ~stack[1].dirty /\ Within(dst, stack[1].path) = {}

\* Of some paths, one has none of the others beneath it.
LEMMA Lowest ==
  ASSUME NEW S \in SUBSET Paths, S # {}
  PROVE  \E q \in S : Beneath(q) \cap S = {}
<1> DEFINE Below(q) == Beneath(q) \cap S
           T == {Below(q) : q \in S}
           R == StrictSubsetOrdering(Paths)
<1>1. IsWellFoundedOn(R, FiniteSubsetsOf(Paths))
  BY FS_StrictSubsetOrderingWellFounded
<1>2. T \subseteq FiniteSubsetsOf(Paths) /\ T # {}
  <2>1. FiniteSubsetsOf(Paths) = SUBSET Paths
    BY FS_FiniteSubsetsOfFinite, TreesAssumption
  <2>2. \A q \in S : Below(q) \in SUBSET Paths
    OBVIOUS
  <2> HIDE DEF Below
  <2>3. T \subseteq SUBSET Paths
    BY <2>2
  <2>4. T # {}
    OBVIOUS
  <2> QED
    BY <2>1, <2>3, <2>4
<1>3. PICK x \in T : \A y \in T : ~(<<y, x>> \in R)
  <2> HIDE DEF T, R
  <2> QED
    BY <1>1, <1>2, WFMin
<1>4. PICK q \in S : x = Below(q)
  BY <1>3
<1>5. ASSUME NEW r \in Below(q)
      PROVE  FALSE
  <2>1. r \in S /\ r \in Paths /\ q \in Paths /\ r \notin Beneath(r)
    BY PathOrder
  <2>2. Below(r) \subseteq Below(q)
    BY <2>1, PathOrder
  <2>3. Below(r) # Below(q)
    BY <2>1
  <2>4. <<Below(r), Below(q)>> \in R
    BY <2>2, <2>3 DEF StrictSubsetOrdering
  <2> QED
    BY <1>3, <1>4, <2>1, <2>4
<1> QED
  BY <1>5

\* A full plan has an action for whatever differs, except for directories that
\* come to be with what lies in them.
LEMMA FullPlan ==
  ASSUME NEW s \in Trees, NEW d \in Trees, Supported(s, d), NEW p \in Paths
  PROVE  /\ s[p] \in Files \cup Links /\ d[p] # s[p] =>
              \E a \in SyncActions(s, d) : a.path = p /\ a.op \in Creating
         /\ s[p] = "dir" /\ d[p] \notin {Absent, "dir"} => Action("DirCreate", p) \in SyncActions(s, d)
         /\ s[p] = Absent /\ d[p] # Absent =>
              \E a \in SyncActions(s, d) : a.path = p /\ a.op \in Deleting
<1> USE TreeFacts
<1>0. \A op : Action(op, p).op = op /\ Action(op, p).path = p
  BY DEF Action
<1>1. \A r \in Rows(s, d) : RowActions(s, d, r) \subseteq SyncActions(s, d)
  BY DEF SyncActions
<1>2. s[p] \in Objects \cup {Absent} /\ d[p] \in Objects \cup {Absent} /\ s[p] # "odd" /\ d[p] # "odd"
  BY DEF Supported
<1>3. CASE s[p] \in Files \cup Links /\ d[p] = Absent
  <2>1. p \in Missing(s, d) /\ p \in Rows(s, d)
    BY <1>3 DEF Missing, Unmatched, Rows
  <2>2. AppendMissingLike(p, s[p]) \subseteq SyncActions(s, d)
    BY <1>1, <2>1, RowKinds
  <2>3. s[p] \in Files => Action("FileCopy", p) \in SyncActions(s, d)
    BY <1>3, <2>2 DEF AppendMissingLike
  <2>4. s[p] \in Links => Action("LinkCreate", p) \in SyncActions(s, d)
    BY <1>3, <2>2 DEF AppendMissingLike
  <2> QED
    BY <1>0, <1>3, <2>3, <2>4 DEF Creating
<1>4. CASE s[p] # Absent /\ d[p] # Absent /\ s[p] # d[p]
  <2>1. p \in Mismatched(s, d) /\ p \in Rows(s, d) /\ p \notin Missing(s, d) /\ p \notin Extra(s, d)
    BY <1>2, <1>4 DEF Mismatched, Both, Unreadable, Rows, Missing, Extra, Unmatched
  <2>2. AppendMismatchReplace(p, s[p], d[p]) \subseteq SyncActions(s, d)
    BY <1>1, <2>1, RowKinds
  <2>3. s[p] \in Files => Action("FileReplace", p) \in SyncActions(s, d)
    BY <2>2 DEF AppendMismatchReplace
  <2>4. s[p] \in Links => Action("LinkReplace", p) \in SyncActions(s, d)
    BY <2>2 DEF AppendMismatchReplace
  <2>5. s[p] = "dir" => Action("DirCreate", p) \in SyncActions(s, d)
    BY <2>2 DEF AppendMismatchReplace
  <2> QED
    BY <1>0, <1>4, <2>3, <2>4, <2>5 DEF Creating
<1>5. CASE s[p] = Absent /\ d[p] # Absent
  <2> DEFINE only == {q \in Paths : d[q] # Absent /\ s[q] = Absent}
  <2>1. CASE p \in Extra(s, d)
    <3>1. p \in Rows(s, d) /\ p \notin Missing(s, d)
      BY <1>5, <2>1 DEF Rows, Missing, Unmatched
    <3>2. AppendExtraLike(p, d[p]) \subseteq SyncActions(s, d)
      BY <1>1, <2>1, <3>1, RowKinds
    <3>3. d[p] \in Files => Action("FileDelete", p) \in SyncActions(s, d)
      BY <3>2 DEF AppendExtraLike
    <3>4. d[p] \in Links => Action("LinkDelete", p) \in SyncActions(s, d)
      BY <3>2 DEF AppendExtraLike
    <3>5. d[p] = "dir" => Action("DirDelete", p) \in SyncActions(s, d)
      BY <3>2 DEF AppendExtraLike
    <3> QED
      BY <1>0, <1>2, <1>5, <3>3, <3>4, <3>5 DEF Deleting
  <2>2. CASE p \notin Extra(s, d)
    <3>1. Beneath(p) \cap only # {}
      BY <1>5, <2>2 DEF Extra, Unmatched
    <3>2. PICK q \in Beneath(p) \cap only : Beneath(q) \cap (Beneath(p) \cap only) = {}
      <4>1. Beneath(p) \cap only \in SUBSET Paths
        OBVIOUS
      <4> HIDE DEF only
      <4> QED
        BY <3>1, <4>1, Lowest
    <3>3. Beneath(q) \cap only = {}
      BY <3>2, PathOrder
    <3>4. q \in PlannedExtra(s, d)
      BY <3>2, <3>3 DEF PlannedExtra, Extra, Unmatched, Supported
    <3>5. \A x \in {p} \cup Beneath(p) : s[x] = Absent
      BY <1>5, PathOrder
    <3>6. ~IsClaimedBySource(s, d, p)
      BY <3>5, PathOrder DEF IsClaimedBySource, Rows, Missing, Extra, Unmatched, Mismatched, Both, Unreadable
    <3>7. p \in Ancestors(s, d)
      BY <3>2, <3>4, <3>6, PathOrder DEF Ancestors
    <3>8. Action("DirDelete", p) \in SyncActions(s, d)
      BY <3>7 DEF SyncActions
    <3> QED
      BY <1>0, <1>5, <3>8 DEF Deleting
  <2> QED
    BY <2>1, <2>2
<1> QED
  BY <1>2, <1>3, <1>4, <1>5

\* What the actions of a full plan find at their paths. Nothing that the plan
\* allows a walk to remove is a file or a link of the source.
LEMMA FullPlanFacts ==
  ASSUME NEW s \in Trees, NEW d \in Trees
  PROVE  /\ \A c \in SyncAllowed(s, d) : c \in Paths /\ s[c] \notin Files \cup Links
         /\ \A a \in SyncActions(s, d) :
              /\ a.op = "DirDelete" /\ s[a.path] = Absent => a.path \in SyncAllowed(s, d)
              /\ a.op = "FileDelete" => d[a.path] \in Files
              /\ a.op = "LinkDelete" => d[a.path] \in Links
              /\ a.op = "LinkReplace" => d[a.path] # Absent
<1> USE TreeFacts
<1>0. Rows(s, d) \subseteq Paths
  BY DEF Rows, Missing, Extra, Unmatched, Mismatched, Both, Unreadable
<1>1. ASSUME NEW c \in SyncAllowed(s, d)
      PROVE  c \in Paths /\ s[c] \notin Files \cup Links
  <2>1. CASE c \in PlannedExtra(s, d)
    BY <2>1, PlannedHaveActions
  <2>2. CASE c \in Ancestors(s, d)
    <3>1. c \in Paths /\ d[c] = "dir" /\ (c \in Rows(s, d) => c \in Extra(s, d))
      BY <2>2, AncestorFacts
    <3>2. s[c] \in Files \cup Links => c \in Rows(s, d) /\ c \notin Extra(s, d)
      BY <3>1 DEF Rows, Mismatched, Both, Unreadable, Extra, Unmatched
    <3> QED
      BY <3>1, <3>2
  <2> QED
    BY <1>1, <2>1, <2>2 DEF SyncAllowed
<1>2. ASSUME NEW a \in SyncActions(s, d)
      PROVE  /\ a.op = "DirDelete" /\ s[a.path] = Absent => a.path \in SyncAllowed(s, d)
             /\ a.op = "FileDelete" => d[a.path] \in Files
             /\ a.op = "LinkDelete" => d[a.path] \in Links
             /\ a.op = "LinkReplace" => d[a.path] # Absent
  <2>1. CASE a.path \in Ancestors(s, d) /\ a = Action("DirDelete", a.path)
    <3>1. a.op = "DirDelete"
      BY <2>1 DEF Action
    <3> QED
      BY <2>1, <3>1 DEF SyncAllowed
  <2>2. CASE a.path \in Rows(s, d) /\ a \in RowActions(s, d, a.path)
    <3>1. ASSUME a.op = "DirDelete", s[a.path] = Absent
          PROVE  a.path \in SyncAllowed(s, d)
      <4>1. a.path \in PlannedExtra(s, d) \/ s[a.path] \in Files \cup Links
        BY <1>0, <2>2, <3>1, RowFacts
      <4> QED
        BY <3>1, <4>1 DEF SyncAllowed
    <3>2. /\ a.op = "FileDelete" => d[a.path] \in Files
          /\ a.op = "LinkDelete" => d[a.path] \in Links
          /\ a.op = "LinkReplace" => d[a.path] # Absent
      <4> DEFINE p == a.path
      <4>0. \A op, x : Action(op, x).op = op
        BY DEF Action
      <4>1. CASE p \in Missing(s, d)
        <5>1. a \in AppendMissingLike(p, s[p]) /\ s[p] \in Objects
          BY <1>0, <2>2, <4>1, RowKinds DEF Missing, Unmatched
        <5>2. a.op \in {"FileCopy", "LinkCreate", "DirCreate"}
          BY <4>0, <5>1 DEF AppendMissingLike
        <5> QED
          BY <5>2
      <4>2. CASE p \in Extra(s, d)
        <5>1. a \in AppendExtraLike(p, d[p]) /\ d[p] \in Objects
          BY <1>0, <2>2, <4>2, RowKinds DEF Extra, Unmatched
        <5>2. CASE d[p] \in Files
          BY <4>0, <5>1, <5>2 DEF AppendExtraLike
        <5>3. CASE d[p] \in Links
          BY <4>0, <5>1, <5>3 DEF AppendExtraLike
        <5>4. CASE d[p] \in {"dir", "odd"}
          BY <4>0, <5>1, <5>4 DEF AppendExtraLike
        <5> QED
          BY <5>1, <5>2, <5>3, <5>4
      <4>3. CASE p \in Mismatched(s, d)
        <5>1. a \in AppendMismatchReplace(p, s[p], d[p]) /\ d[p] # Absent
              /\ s[p] \in Files \cup Links \cup {"dir"}
          BY <1>0, <2>2, <4>3, RowKinds DEF Mismatched, Both, Unreadable
        <5>2. a.op \in {"DirDelete", "FileReplace", "LinkReplace", "DirCreate"}
          BY <4>0, <5>1 DEF AppendMismatchReplace
        <5> QED
          BY <5>1, <5>2
      <4> QED
        BY <1>0, <2>2, <4>1, <4>2, <4>3, RowKinds
    <3> QED
      BY <3>1, <3>2
  <2> QED
    BY <2>1, <2>2, ActionOf
<1> QED
  BY <1>1, <1>2

\* In an undisturbed run, an action that may begin finds its way free: what it
\* creates has room, what it deletes is as it was compared, and a directory to
\* be deleted that the source does not have is empty.
LEMMA Ready ==
  ASSUME IInv, ProgressStands, Undisturbed, NEW a \in todo, \A b \in todo : ~Precedes(b, a)
  PROVE  /\ a.op \in Creating \/ src[a.path] = Absent => ~Blocked(a.path)
         /\ dst[a.path] # "odd"
         /\ src[a.path] \in Files \cup Links => (dst[a.path] = "dir" /\ a.op \in Creating => Empty(a.path))
         /\ a.op = "LinkReplace" => dst[a.path] # Absent
         /\ a.op \in {"FileDelete", "LinkDelete"} => dst[a.path] \in Deletable(a.op)
         /\ a.op = "DirDelete" /\ src[a.path] # "dir" => Within(dst, a.path) = {}
         /\ a.op = "DirDelete" /\ src[a.path] = Absent => dst[a.path] \in {Absent, "dir"}
<1> DEFINE p == a.path
<1> USE TreeFacts
<1>1. /\ TypeOK /\ PlanStands /\ src \in Trees /\ dst \in Trees /\ base \in Trees
      /\ a \in plan /\ todo \subseteq plan /\ plan = SyncActions(src, base)
      /\ \A x \in plan \ todo, y \in todo : ~Precedes(y, x)
      /\ \A x \in Paths : PathStands(x) /\ src[x] # "odd" /\ base[x] # "odd"
  BY DEF IInv, TypeOK, ReportStands, ProgressStands, Undisturbed, Supported
<1>2. /\ p \in Paths /\ a.op \in Ops /\ a = Action(a.op, p)
      /\ a.op \in Creating => Brings(src, a)
      /\ a.op \in {"FileDelete", "LinkDelete"} => src[p] = Absent
      /\ a.op = "DirDelete" => base[p] = "dir"
  BY <1>1, PlanFacts
<1>3. /\ a.op = "FileDelete" => base[p] \in Files
      /\ a.op = "LinkDelete" => base[p] \in Links
      /\ a.op = "LinkReplace" => base[p] # Absent
  BY <1>1, FullPlanFacts
<1>4. \A x \in Paths : x \in Above(p) <=> p \in Beneath(x)
  BY <1>2, PathOrder
<1>5. ASSUME a.op \in Creating \/ src[p] = Absent, NEW q \in Above(p)
      PROVE  dst[q] \in {Absent, "dir"}
  <2>1. q \in Paths
    BY DEF Above
  <2>2. CASE a.op \in Creating
    <3>1. src[q] = "dir"
      BY <1>1, <1>2, <1>4, <2>1, <2>2 DEF Brings, Creating
    <3>2. Precedes(Action("DirCreate", q), a)
      <4>1. Action("DirCreate", q).op = "DirCreate" /\ Action("DirCreate", q).path = q
        BY DEF Action
      <4>2. CASE a.op = "DirCreate"
        BY <4>1, <4>2 DEF Precedes
      <4>3. CASE a.op # "DirCreate"
        <5>1. GroupOf(Action("DirCreate", q)) = 1 /\ GroupOf(a) \in {4, 5}
          BY <2>2, <4>1, <4>3, GroupFacts DEF Creating
        <5> QED
          BY <5>1 DEF Precedes
      <4> QED
        BY <4>2, <4>3
    <3> QED
      BY <1>1, <2>1, <3>1, <3>2 DEF PathStands
  <2>3. CASE src[p] = Absent
    <3>1. a.op \notin Creating
      BY <1>1, <1>2, <2>3 DEF Brings, Creating
    <3>2. a.op \in Deleting /\ base[p] # Absent
      BY <1>1, <1>2, <1>3, <3>1 DEF Ops, Creating, Deleting
    <3>3. base[q] = "dir"
      BY <1>1, <1>2, <1>4, <2>1, <3>2
    <3>4. CASE src[q] \in Files \cup Links
      <4>1. PICK c \in plan : c.path = q /\ c.op \in Creating
        BY <1>1, <2>1, <3>3, <3>4, FullPlan DEF Undisturbed
      <4>2. CASE c \in todo
        BY <1>1, <2>1, <3>3, <3>4, <4>1, <4>2 DEF PathStands
      <4>3. CASE c \notin todo
        <5>1. c.op # "DirCreate"
          BY <1>1, <3>4, <4>1, PlanFacts DEF Brings
        <5>2. GroupOf(c) \in {4, 5} /\ GroupOf(a) \in {2, 3}
          BY <3>2, <4>1, <5>1, GroupFacts DEF Creating, Deleting
        <5>3. Precedes(a, c)
          BY <5>2 DEF Precedes
        <5> QED
          BY <1>1, <4>1, <4>3, <5>3
      <4> QED
        BY <4>2, <4>3
    <3>5. CASE src[q] \in {Absent, "dir"}
      BY <1>1, <2>1, <3>3, <3>5 DEF PathStands
    <3> QED
      BY <1>1, <2>1, <3>4, <3>5
  <2> QED
    BY <1>5, <2>2, <2>3
<1>6. dst[p] \in {Absent, "dir", src[p], base[p]} /\ dst[p] # "odd"
  <2>1. src[p] \in Files \cup Links \cup {"dir", Absent}
    BY <1>1, <1>2
  <2> QED
    BY <1>1, <1>2, <2>1 DEF PathStands
<1>7. ASSUME src[p] # "dir", NEW x \in Beneath(p), dst[x] # Absent
      PROVE  \E b \in todo : b.path = x /\ b.op \in Deleting
  <2>1. x \in Paths /\ src[x] = Absent
    BY <1>1, <1>2, <1>7, PathOrder
  <2> QED
    BY <1>1, <1>7, <2>1 DEF PathStands
<1>8. ASSUME src[p] \in Files \cup Links, dst[p] = "dir", a.op \in Creating
      PROVE  Empty(p)
  <2>1. a.op \in {"FileCopy", "FileReplace", "LinkCreate", "LinkReplace"}
    BY <1>1, <1>2, <1>8 DEF Brings, Creating
  <2>2. ASSUME NEW b \in todo, b.op \in Deleting PROVE FALSE
    <3>1. GroupOf(b) \in {2, 3} /\ GroupOf(a) \in {4, 5}
      BY <2>1, <2>2, GroupFacts DEF Deleting
    <3> QED
      BY <2>2, <3>1 DEF Precedes
  <2>3. src[p] # "dir"
    BY <1>1, <1>8
  <2> QED
    BY <1>7, <2>2, <2>3 DEF Empty, Within
<1>9. ASSUME a.op = "LinkReplace"
      PROVE  dst[p] # Absent
  <2>1. src[p] \in Files \cup Links /\ a.op \in Creating
    BY <1>2, <1>9 DEF Brings, Creating
  <2> QED
    BY <1>1, <1>2, <1>3, <1>9, <2>1 DEF PathStands
<1>10. ASSUME a.op \in {"FileDelete", "LinkDelete"}
       PROVE  dst[p] \in Deletable(a.op)
  <2>1. dst[p] \in {Absent, base[p]}
    BY <1>1, <1>2, <1>10 DEF PathStands
  <2> QED
    BY <1>3, <1>10, <2>1 DEF Deletable
<1>11. ASSUME a.op = "DirDelete", src[p] # "dir"
       PROVE  Within(dst, p) = {}
  <2>1. ASSUME NEW b \in todo, b.op \in Deleting, b.path \in Beneath(p) PROVE FALSE
    <3>1. CASE b.op = "DirDelete"
      BY <1>11, <2>1, <3>1 DEF Precedes
    <3>2. CASE b.op # "DirDelete"
      <4>1. GroupOf(b) = 2 /\ GroupOf(a) = 3
        BY <1>11, <2>1, <3>2, GroupFacts DEF Deleting
      <4> QED
        BY <2>1, <4>1 DEF Precedes
    <3> QED
      BY <3>1, <3>2
  <2> QED
    BY <1>7, <1>11, <2>1 DEF Within
<1>12. ASSUME a.op = "DirDelete", src[p] = Absent
       PROVE  dst[p] \in {Absent, "dir"}
  BY <1>1, <1>2, <1>12 DEF PathStands
<1> QED
  BY <1>5, <1>6, <1>8, <1>9, <1>10, <1>11, <1>12 DEF Blocked

\* A path at which nothing changed, and where nothing but the deletion of a
\* directory is over.
LEMMA PathKept ==
  ASSUME NEW p \in Paths, PathStands(p), UNCHANGED <<src, base>>, dst'[p] = dst[p],
         todo' \subseteq todo,
         \A b \in todo \ todo' : b.path = p =>
           b.op = "DirDelete" /\ (src[p] = Absent => dst[p] = Absent)
  PROVE  PathStands(p)'
<1>1. \A b \in todo : b.path = p /\ b.op \in Creating => b \in todo'
  BY DEF Creating
<1>2. Action("DirCreate", p) \in todo => Action("DirCreate", p) \in todo'
  BY DEF Action
<1>3. src[p] = Absent /\ dst[p] # Absent => \A b \in todo : b.path = p => b \in todo'
  OBVIOUS
<1> QED
  BY <1>1, <1>2, <1>3 DEF PathStands

\* An action that was due is over.
LEMMA OverProgress ==
  ASSUME IInv, ProgressStands, Undisturbed, NEW a \in todo, \A b \in todo : ~Precedes(b, a),
         todo' = todo \ {a}, stack' = <<>>, UNCHANGED <<planVars, cancel>>,
         \A p \in Paths : PathStands(p)'
  PROVE  ProgressStands'
<1>1. plan' = plan /\ src' = src /\ base' = base /\ allowed' = allowed
  BY DEF planVars
<1>2. \A x \in plan' \ todo', y \in todo' : ~Precedes(y, x)
  BY <1>1 DEF ProgressStands
<1> HIDE DEF Current
<1> QED
  BY <1>1, <1>2 DEF ProgressStands

\* An action that creates puts what the source has, and makes directories above
\* it that the source has too.
LEMMA CreatedProgress ==
  ASSUME IInv, ProgressStands, Undisturbed, NEW a \in todo, Due(a), a.op \in Creating,
         todo' = todo \ {a}, UNCHANGED <<planVars, stack, cancel>>,
         dst' = Put(a.path, src[a.path])
  PROVE  ProgressStands'
<1> USE TreeFacts
<1>1. /\ TypeOK /\ PlanStands /\ src \in Trees /\ a \in plan /\ todo \subseteq plan
      /\ stack = <<>> /\ \A b \in todo : ~Precedes(b, a)
      /\ src' = src /\ base' = base /\ \A p \in Paths : PathStands(p)
  BY DEF IInv, TypeOK, ReportStands, ProgressStands, Due, planVars
<1>2. a.path \in Paths /\ Brings(src, a)
  BY <1>1, PlanFacts
<1>3. \A q \in Paths : dst'[q] = IF q = a.path THEN src[q] ELSE IF q \in Above(a.path) THEN "dir" ELSE dst[q]
  BY DEF Put
<1>4. ASSUME NEW q \in Paths
      PROVE  PathStands(q)'
  <2>1. CASE q = a.path
    <3>1. \A b \in todo' : ~(b.path = q /\ b.op \in Creating)
      BY <1>1, <2>1, PlanFacts
    <3>2. src[q] \in Files \cup Links \cup {"dir"} /\ dst'[q] = src[q]
      BY <1>2, <1>3, <2>1 DEF Brings, Creating
    <3> QED
      BY <1>1, <3>1, <3>2 DEF PathStands
  <2>2. CASE q \in Above(a.path) /\ q # a.path
    <3>1. src[q] = "dir" /\ dst'[q] = "dir"
      BY <1>1, <1>2, <1>3, <2>2, PathOrder DEF Brings, Creating
    <3> QED
      BY <1>1, <3>1 DEF PathStands
  <2>3. CASE q \notin Above(a.path) /\ q # a.path
    <3>1. dst'[q] = dst[q]
      BY <1>3, <2>3
    <3>2. todo' \subseteq todo /\ \A b \in todo \ todo' : b.path # q
      BY <2>3
    <3> QED
      BY <1>1, <3>1, <3>2, PathKept
  <2> QED
    BY <2>1, <2>2, <2>3
<1> QED
  BY <1>1, <1>4, OverProgress

\* A step that keeps the plan and leaves the destination as it is, but for a
\* path at which the source has neither a file nor a link and where something
\* was taken away.
LEMMA RemovedProgress ==
  ASSUME IInv, ProgressStands, Undisturbed, UNCHANGED <<src, base>>,
         NEW p \in Paths, src[p] \notin Files \cup Links, dst' = [dst EXCEPT ![p] = Absent],
         todo' \subseteq todo, \A b \in todo \ todo' : b.path = p /\ b.op \in Deleting
  PROVE  \A q \in Paths : PathStands(q)'
<1> USE TreeFacts
<1>1. src \in Trees /\ dst \in Trees /\ \A q \in Paths : PathStands(q)
  BY DEF IInv, TypeOK, ProgressStands
<1>2. dst'[p] = Absent /\ \A q \in Paths : q # p => dst'[q] = dst[q]
  BY <1>1
<1>3. PathStands(p)'
  BY <1>1, <1>2 DEF PathStands
<1>4. ASSUME NEW q \in Paths, q # p
      PROVE  PathStands(q)'
  <2>1. dst'[q] = dst[q] /\ \A b \in todo \ todo' : b.path # q
    BY <1>2, <1>4
  <2> QED
    BY <1>1, <2>1, PathKept
<1> QED
  BY <1>3, <1>4

\* Every action of the list that is due succeeds, but for the deletion of a
\* directory that the source has.
LEMMA ExecuteProgress ==
  ASSUME IInv, ProgressStands, Undisturbed, NEW a \in todo, Execute(a)
  PROVE  ProgressStands'
<1> USE TreeFacts
<1>1. /\ TypeOK /\ PlanStands /\ src \in Trees /\ dst \in Trees /\ a \in plan
      /\ stack = <<>> /\ Due(a) /\ \A b \in todo : ~Precedes(b, a)
      /\ \A p \in Paths : PathStands(p)
  BY DEF IInv, TypeOK, ReportStands, ProgressStands, Execute, RunCopy, RunLink, CreateDir, DeleteOne, OpenDir, Due
<1>2. a.path \in Paths /\ a = Action(a.op, a.path) /\ (a.op \in Creating => Brings(src, a))
      /\ (a.op \in {"FileDelete", "LinkDelete"} => src[a.path] = Absent)
  BY <1>1, PlanFacts
<1>3. /\ a.op \in Creating \/ src[a.path] = Absent => ~Blocked(a.path)
      /\ dst[a.path] # "odd"
      /\ src[a.path] \in Files \cup Links => (dst[a.path] = "dir" /\ a.op \in Creating => Empty(a.path))
      /\ a.op = "LinkReplace" => dst[a.path] # Absent
      /\ a.op \in {"FileDelete", "LinkDelete"} => dst[a.path] \in Deletable(a.op)
      /\ a.op = "DirDelete" /\ src[a.path] # "dir" => Within(dst, a.path) = {}
      /\ a.op = "DirDelete" /\ src[a.path] = Absent => dst[a.path] \in {Absent, "dir"}
  BY <1>1, Ready
<1>4. CASE RunCopy(a)
  <2>1. /\ a.op \in Creating /\ ~Blocked(a.path) /\ GivesWay(a.path)
        /\ UNCHANGED <<planVars, stack, cancel>>
    BY <1>2, <1>3, <1>4 DEF RunCopy, Quiet, Creating, Brings, GivesWay
  <2>2. todo' = todo \ {a} /\ dst' = Put(a.path, src[a.path])
    BY <1>4, <2>1 DEF RunCopy, Finish
  <2> QED
    BY <1>1, <2>1, <2>2, CreatedProgress
<1>5. CASE RunLink(a)
  <2>1. /\ a.op \in Creating /\ ~Blocked(a.path) /\ GivesWay(a.path)
        /\ UNCHANGED <<planVars, stack, cancel>>
    BY <1>2, <1>3, <1>5 DEF RunLink, Quiet, Creating, Brings, GivesWay
  <2>2. todo' = todo \ {a} /\ dst' = Put(a.path, src[a.path])
    BY <1>3, <1>5, <2>1 DEF RunLink, Finish
  <2> QED
    BY <1>1, <2>1, <2>2, CreatedProgress
<1>6. CASE CreateDir(a)
  <2>1. /\ a.op \in Creating /\ ~Blocked(a.path) /\ src[a.path] = "dir"
        /\ UNCHANGED <<planVars, stack, cancel>>
    BY <1>2, <1>3, <1>6 DEF CreateDir, Quiet, Creating, Brings
  <2>2. todo' = todo \ {a} /\ dst' = Put(a.path, src[a.path])
    BY <1>3, <1>6, <2>1 DEF CreateDir, Finish
  <2> QED
    BY <1>1, <2>1, <2>2, CreatedProgress
<1>7. CASE DeleteOne(a)
  <2>1. /\ src[a.path] = Absent /\ ~Blocked(a.path) /\ a.op \in Deleting
        /\ UNCHANGED <<planVars, stack, cancel>>
    BY <1>2, <1>3, <1>7 DEF DeleteOne, Quiet, Deleting
  <2>2. todo' = todo \ {a} /\ dst' = [dst EXCEPT ![a.path] = Absent]
    BY <1>3, <1>7, <2>1 DEF DeleteOne, Finish
  <2>3. \A q \in Paths : PathStands(q)'
    <3>1. src[a.path] \notin Files \cup Links /\ src' = src /\ base' = base
      BY <1>1, <2>1 DEF planVars
    <3>2. todo' \subseteq todo /\ \A b \in todo \ todo' : b.path = a.path /\ b.op \in Deleting
      BY <2>1, <2>2
    <3> QED
      BY <1>2, <2>2, <3>1, <3>2, RemovedProgress
  <2> QED
    BY <1>1, <2>1, <2>2, <2>3, OverProgress
<1>8. CASE OpenDir(a)
  <2>1. /\ a.op = "DirDelete" /\ UNCHANGED <<planVars, dst, cancel>>
        /\ src' = src /\ base' = base /\ plan' = plan /\ allowed' = allowed
    BY <1>8 DEF OpenDir, planVars
  <2>2. CASE stack' = <<Frame(a.path)>> /\ UNCHANGED <<todo, report>>
    <3>1. /\ stack'[1].path = a.path /\ Len(stack') = 1 /\ ~stack'[1].dirty /\ Current' = a
      BY <1>2, <2>1, <2>2 DEF Frame, Current
    <3>2. Within(dst', a.path) = Within(dst, a.path)
      BY <2>1
    <3>3. \A q \in Paths : PathStands(q)'
      BY <1>1, <2>1, <2>2 DEF PathStands
    <3> HIDE DEF Current
    <3>4. src'[stack'[1].path] # "dir" => Within(dst', stack'[1].path) = {}
      BY <1>3, <2>1, <3>1, <3>2
    <3> QED
      BY <1>1, <2>1, <2>2, <3>1, <3>3, <3>4 DEF ProgressStands
  <2>3. CASE /\ todo' = todo \ {a} /\ UNCHANGED stack
             /\ dst[a.path] = "dir" => Blocked(a.path)
    <3>1. src[a.path] = Absent => dst[a.path] = Absent
      BY <1>3, <2>1, <2>3
    <3>2. ASSUME NEW q \in Paths PROVE PathStands(q)'
      <4>1. dst'[q] = dst[q] /\ todo' \subseteq todo
        BY <2>1, <2>3
      <4>2. \A b \in todo \ todo' : b.path = q =>
              b.op = "DirDelete" /\ (src[q] = Absent => dst[q] = Absent)
        BY <2>1, <2>3, <3>1
      <4> QED
        BY <1>1, <2>1, <4>1, <4>2, PathKept
    <3> QED
      BY <1>1, <2>1, <2>3, <3>2, OverProgress
  <2> QED
    BY <1>8, <2>2, <2>3 DEF OpenDir, Finish
<1> QED
  BY <1>4, <1>5, <1>6, <1>7, <1>8 DEF Execute

\* The walk goes on, in a directory that the source has.
LEMMA WalkProgress ==
  ASSUME IInv, ProgressStands, Undisturbed, stack # <<>>,
         UNCHANGED <<planVars, todo, cancel>>, \A p \in Paths : PathStands(p)',
         stack'[1].path = stack[1].path, src[stack[1].path] = "dir"
  PROVE  ProgressStands'
<1>1. /\ plan' = plan /\ src' = src /\ base' = base /\ allowed' = allowed /\ Current' = Current
  BY DEF planVars, Current
<1>2. \A b \in todo' : ~Precedes(b, Current')
  BY <1>1 DEF ProgressStands
<1> HIDE DEF Current
<1>3. \A a \in plan' \ todo', b \in todo' : ~Precedes(b, a)
  BY <1>1 DEF ProgressStands
<1>4. src'[stack'[1].path] = "dir"
  BY <1>1
<1> QED
  BY <1>1, <1>2, <1>3, <1>4 DEF ProgressStands

\* A directory that the source does not have is deleted; one that it has keeps
\* its files and links.
LEMMA WalkStepProgress ==
  ASSUME IInv, ProgressStands, Undisturbed, Walk
  PROVE  ProgressStands'
<1> USE TreeFacts
<1> DEFINE n == Len(stack)
           r == stack[1].path
<1>1. /\ TypeOK /\ PlanStands /\ StackStands /\ src \in Trees /\ dst \in Trees /\ base \in Trees
      /\ phase = "run" /\ stack # <<>> /\ UNCHANGED <<planVars, cancel>>
      /\ src' = src /\ base' = base
      /\ \A p \in Paths : PathStands(p)
      /\ plan = SyncActions(src, base) /\ allowed = SyncAllowed(src, base)
      /\ \A b \in todo : ~Precedes(b, Current)
      /\ src[r] # "dir" => n = 1 /\ ~stack[1].dirty /\ Within(dst, r) = {}
  BY DEF IInv, TypeOK, ProgressStands, Walk, Walking, Descend, RemoveChild, MeetsUnexpected, CloseDir, planVars
<1>2. /\ n \in Nat \ {0} /\ stack \in Seq(Frames) /\ DOMAIN stack = 1..n
      /\ Current \in todo /\ Current \in plan /\ Current.op = "DirDelete" /\ Current.path = r
      /\ Top.path \in Paths /\ Top = stack[n]
  <2>1. stack \in Seq(Frames)
    BY <1>1, TopFacts DEF Frames
  <2>2. DOMAIN stack = 1..n
    <3> HIDE DEF Frames
    <3> QED
      BY <2>1
  <2>3. Current.op = "DirDelete" /\ Current.path = r
    BY DEF Current, Action
  <2> HIDE DEF Frames, Current
  <2> QED
    BY <1>1, <2>1, <2>2, <2>3, TopFacts
<1>3. r \in Paths /\ base[r] = "dir"
  BY <1>1, <1>2, PlanFacts
<1>4. \A c \in allowed : c \in Paths /\ src[c] \notin Files \cup Links
  BY <1>1, FullPlanFacts
<1>5. Children(dst, Top.path) # {} => src[r] = "dir"
  BY <1>1, <1>2 DEF Children
<1> HIDE DEF n, r, Current, Frames
<1>6. CASE Descend
  <2>1. PICK c \in Children(dst, Top.path) : stack' = Append(stack, Frame(c))
    BY <1>6 DEF Descend
  <2>2. src[r] = "dir" /\ UNCHANGED <<todo, dst>>
    BY <1>5, <1>6, <2>1 DEF Descend
  <2>3. stack'[1].path = r
    <3>1. Frame(c) \in Frames
      BY <2>1, ChildFacts DEF Frame, Frames
    <3>2. stack'[1] = stack[1]
      BY <1>2, <2>1, <3>1 DEF n
    <3> QED
      BY <3>2 DEF r
  <2>4. \A p \in Paths : PathStands(p)'
    BY <1>1, <2>2 DEF PathStands
  <2> QED
    BY <1>1, <2>2, <2>3, <2>4, WalkProgress DEF r
<1>7. CASE RemoveChild
  <2>1. PICK c \in Children(dst, Top.path) \cap allowed : dst' = [dst EXCEPT ![c] = Absent]
    BY <1>7 DEF RemoveChild
  <2>2. src[r] = "dir" /\ UNCHANGED todo /\ stack' = SoilTop(stack)
    BY <1>5, <1>7, <2>1 DEF RemoveChild
  <2>3. stack'[1].path = r
    <3>1. 1 \in DOMAIN stack
      BY <1>2
    <3> QED
      BY <1>1, <1>2, <2>2, <3>1, Soiled DEF r
  <2>4. \A p \in Paths : PathStands(p)'
    <3>1. c \in Paths /\ src[c] \notin Files \cup Links
      BY <1>4, <2>1
    <3>2. todo' \subseteq todo /\ \A b \in todo \ todo' : b.path = c /\ b.op \in Deleting
      BY <2>2
    <3> QED
      BY <1>1, <2>1, <3>1, <3>2, RemovedProgress
  <2> QED
    BY <1>1, <2>2, <2>3, <2>4, WalkProgress DEF r
<1>8. CASE Finish(Current, "skipped") /\ stack' = <<>> /\ UNCHANGED dst /\ src[r] # Absent
  <2>1. todo' = todo \ {Current}
    BY <1>8 DEF Finish
  <2>2. ASSUME NEW p \in Paths PROVE PathStands(p)'
    <3>1. \A b \in todo \ todo' : b.path = p =>
            b.op = "DirDelete" /\ (src[p] = Absent => dst[p] = Absent)
      BY <1>2, <1>8, <2>1
    <3> QED
      BY <1>1, <1>8, <2>1, <3>1, PathKept
  <2>3. PICK a \in todo : a = Current
    BY <1>2
  <2> QED
    BY <1>1, <1>8, <2>1, <2>2, <2>3, OverProgress
<1>9. CASE MeetsUnexpected
  <2>1. src[r] = "dir"
    BY <1>5, <1>9 DEF MeetsUnexpected
  <2> QED
    BY <1>1, <1>8, <1>9, <2>1 DEF MeetsUnexpected
<1>10. CASE CloseDir
  <2>1. CASE Top.path \in allowed \/ Top.dirty
    <3>1. /\ dst' = [dst EXCEPT ![Top.path] = Absent] /\ stack' = SoilTop(Front(stack))
          /\ IF n = 1 THEN Finish(Current, "ok") ELSE UNCHANGED todo
      BY <1>10, <2>1 DEF CloseDir, n
    <3>2. src[Top.path] \notin Files \cup Links
      <4>1. CASE Top.path \in allowed
        BY <1>4, <4>1
      <4>2. CASE Top.dirty /\ src[Top.path] \in Files \cup Links
        <5>1. src[r] = "dir"
          <6>1. src[r] # "dir" => Top = stack[1] /\ ~Top.dirty
            BY <1>1, <1>2
          <6> QED
            BY <4>2, <6>1
        <5>2. n # 1 /\ 1 < n
          <6>1. n # 1
            BY <1>1, <1>2, <4>2, <5>1 DEF r
          <6> QED
            BY <1>2, <6>1
        <5>3. Top.path \in Beneath(r)
          BY <1>1, <1>2, <5>2 DEF StackStands, r
        <5>4. base[Top.path] = "dir"
          <6>1. PICK x \in PlannedExtra(src, base) : x \in Beneath(Top.path)
            BY <1>1, <1>2, <4>2 DEF StackStands
          <6>2. x \in Paths /\ base[x] # Absent
            BY <1>1, PlannedHaveActions
          <6> QED
            BY <1>1, <1>2, <6>1, <6>2
        <5>5. base[Top.path] # src[Top.path]
          BY <1>1, <4>2, <5>4
        <5>6. PICK c \in plan : c.path = Top.path /\ c.op \in Creating
          BY <1>1, <1>2, <4>2, <5>5, FullPlan DEF Undisturbed
        <5> QED
          BY <1>1, <1>2, <5>3, <5>6, PlanFacts
      <4> QED
        BY <2>1, <4>1, <4>2
    <3>3. CASE n = 1
      <4>1. todo' = todo \ {Current} /\ Top.path = r
        BY <1>2, <3>1, <3>3 DEF Finish, r
      <4>2. stack' = <<>>
        <5>1. Front(stack) = <<>>
          BY <1>2, <3>3 DEF Front, n
        <5> QED
          BY <3>1, <5>1 DEF SoilTop
      <4>3. \A b \in todo \ todo' : b.path = Top.path /\ b.op \in Deleting
        BY <1>2, <4>1 DEF Deleting
      <4>4. \A p \in Paths : PathStands(p)'
        BY <1>1, <1>2, <3>1, <3>2, <4>1, <4>3, RemovedProgress
      <4>5. PICK a \in todo : a = Current
        BY <1>2
      <4> QED
        BY <1>1, <4>1, <4>2, <4>4, <4>5, OverProgress
    <3>4. CASE n # 1
      <4>1. todo' = todo /\ src[r] = "dir" /\ n > 1
        BY <1>1, <1>2, <3>1, <3>4
      <4>2. \A p \in Paths : PathStands(p)'
        <5>1. todo' \subseteq todo /\ \A b \in todo \ todo' : b.path = Top.path /\ b.op \in Deleting
          BY <4>1
        <5> QED
          BY <1>1, <1>2, <3>1, <3>2, <5>1, RemovedProgress
      <4>3. stack'[1].path = r
        <5>1. /\ Front(stack) \in Seq(Frames) /\ Front(stack) # <<>>
              /\ DOMAIN Front(stack) = 1..(n - 1) /\ Front(stack)[1] = stack[1]
          BY <1>2, <4>1, FrontFacts DEF n
        <5>2. 1 \in DOMAIN Front(stack)
          BY <1>2, <4>1, <5>1
        <5> QED
          BY <3>1, <5>1, <5>2, Soiled DEF r
      <4> QED
        BY <1>1, <4>1, <4>2, <4>3, WalkProgress DEF r
    <3> QED
      BY <3>3, <3>4
  <2>2. CASE Top.path \notin allowed /\ ~Top.dirty
    <3>1. src[r] # Absent
      <4>1. src[r] = Absent => Top.path = r
        BY <1>1, <1>2 DEF r
      <4>2. src[r] = Absent => r \in allowed
        BY <1>1, <1>2, FullPlanFacts
      <4> QED
        BY <2>2, <4>1, <4>2
    <3> QED
      BY <1>8, <1>10, <2>2, <3>1 DEF CloseDir
  <2> QED
    BY <2>1, <2>2
<1> QED
  BY <1>6, <1>7, <1>9, <1>10 DEF Walk

\* A full plan stands at its beginning as it does at its end.
LEMMA StartProgress ==
  ASSUME IInv, StartFull \/ StartSingle
  PROVE  ProgressStands'
<1>1. CASE StartFull
  <2>1. /\ src' = src /\ dst' = dst /\ base' = dst /\ stack' = <<>> /\ cancel' = FALSE
        /\ plan' = SyncActions(src, dst) /\ allowed' = SyncAllowed(src, dst) /\ todo' = plan'
    BY <1>1 DEF StartFull, Start
  <2>2. ASSUME Undisturbed', NEW p \in Paths PROVE PathStands(p)'
    <3>1. Supported(src, dst) /\ src \in Trees /\ dst \in Trees
      BY <2>1, <2>2 DEF Undisturbed, IInv, TypeOK
    <3>2. /\ src[p] \in Files \cup Links /\ dst[p] # src[p] =>
               \E a \in todo' : a.path = p /\ a.op \in Creating
          /\ src[p] = "dir" /\ dst[p] \notin {Absent, "dir"} => Action("DirCreate", p) \in todo'
          /\ src[p] = Absent /\ dst[p] # Absent =>
               \E a \in todo' : a.path = p /\ a.op \in Deleting
      BY <2>1, <3>1, FullPlan
    <3> QED
      BY <2>1, <3>2 DEF PathStands
  <2> QED
    BY <2>1, <2>2 DEF ProgressStands
<1>2. CASE StartSingle
  <2>1. ~full'
    BY <1>2 DEF StartSingle, Start
  <2> QED
    BY <2>1 DEF ProgressStands, Undisturbed
<1> QED
  BY <1>1, <1>2

\* Every step of a run that stays undisturbed keeps its progress.
LEMMA NextProgress == IInv /\ ProgressStands /\ [Next]_vars => ProgressStands'
<1> SUFFICES ASSUME IInv, ProgressStands, [Next]_vars, Undisturbed'
             PROVE  ProgressStands'
  BY DEF ProgressStands
<1>1. CASE StartFull \/ StartSingle
  BY <1>1, StartProgress
<1>2. CASE \E a \in todo : Fail(a)
  BY <1>2 DEF Fail, CopyFails, LinkFails, CreateDirFails, DeleteFails, Mishap, Undisturbed
<1>3. CASE DirDeleteFails \/ NoRoom \/ ForeignFile \/ RequestCancel \/ Crash
  BY <1>3 DEF DirDeleteFails, NoRoom, ForeignFile, RequestCancel, Crash, Mishap, Undisturbed
<1>4. ASSUME NEW a \in todo, Execute(a) PROVE ProgressStands'
  <2>1. Undisturbed
    <3>1. phase = "run" /\ UNCHANGED <<planVars, phase, smooth>>
      BY <1>4 DEF Execute, RunCopy, RunLink, CreateDir, DeleteOne, OpenDir, Due, Quiet
    <3> QED
      BY <3>1 DEF Undisturbed, Supported, planVars
  <2> QED
    BY <1>4, <2>1, ExecuteProgress
<1>5. CASE Walk
  <2>1. Undisturbed
    <3>1. phase = "run" /\ UNCHANGED <<planVars, phase, smooth>>
      BY <1>5 DEF Walk, Descend, RemoveChild, MeetsUnexpected, CloseDir, Walking
    <3> QED
      BY <3>1 DEF Undisturbed, Supported, planVars
  <2> QED
    BY <1>5, <2>1, WalkStepProgress
<1>6. CASE Cancelled \/ DirDeleteCancelled
  <2>1. /\ cancel /\ phase = "run" /\ UNCHANGED <<planVars, phase, smooth>>
    BY <1>6 DEF Cancelled, DirDeleteCancelled
  <2>2. Undisturbed
    BY <2>1 DEF Undisturbed, Supported, planVars
  <2> QED
    BY <2>1, <2>2 DEF ProgressStands
<1>7. CASE Return \/ Rest \/ UNCHANGED vars
  <2>1. /\ UNCHANGED <<planVars, dst, todo, stack, cancel, smooth>> /\ (phase = "idle" => phase' = phase)
    BY <1>7 DEF Return, Rest, vars, planVars
  <2>2. Undisturbed
    BY <2>1 DEF Undisturbed, Supported, planVars
  <2>3. Current' = Current
    BY <2>1 DEF Current
  <2>4. \A p \in Paths : PathStands(p) => PathStands(p)'
    BY <2>1 DEF PathStands, planVars
  <2> HIDE DEF Current
  <2>5. Within(dst', stack'[1].path) = Within(dst, stack[1].path)
    BY <2>1
  <2> QED
    BY <2>1, <2>2, <2>3, <2>4, <2>5 DEF ProgressStands, planVars
<1> QED
  BY <1>1, <1>2, <1>3, <1>4, <1>5, <1>6, <1>7 DEF Next

-----------------------------------------------------------------------------
(* What holds of every execution                                           *)

\* The inductive invariant holds: the plan is the one of its comparison, the
\* actions to come and the report account for it, and a walk soils a directory
\* only where something listed lay.
THEOREM IInvHolds == Spec => []IInv
<1>1. IInv /\ [Next]_vars => IInv'
  BY NextIInv
<1> QED
  BY InitIInv, <1>1, PTL DEF Spec

\* Every action of a plan that returned has exactly one result in the report of
\* ExecutePlan, whichever way it was stopped, or else the plan was refused as a
\* whole and the destination is as it was compared.
THEOREM AllReported == Spec => []EveryActionReported
<1>1. IInv /\ UntouchedYet => EveryActionReported
  <2> SUFFICES ASSUME IInv, UntouchedYet, phase = "done", ~Refused, NEW a \in plan
               PROVE  Cardinality({i \in report : i.action = a}) = 1
    BY DEF EveryActionReported, UntouchedYet, Refused
  <2>1. a \notin todo
    BY DEF IInv, ReportStands
  <2>2. PICK r : ItemsOf(a) = {Item(a, r)}
    BY <2>1 DEF IInv, ReportStands
  <2>3. {i \in report : i.action = a} = {Item(a, r)}
    BY <2>2 DEF ItemsOf
  <2>4. Cardinality({Item(a, r)}) = 1
    BY FS_Singleton
  <2> QED
    BY <2>3, <2>4
<1>2. Init => UntouchedYet
  BY DEF Init, UntouchedYet, Refused
<1>3. Spec => []UntouchedYet
  BY IInvHolds, <1>2, NextUntouched, PTL DEF Spec
<1> QED
  BY IInvHolds, <1>1, <1>3, PTL

\* What the report of ExecutePlan calls done is so, and stays so until the plan
\* ends: no later action of the plan undoes it.
THEOREM DoneStaysDone == Spec => []DoneMeansDone
<1>1. IInv => DoneMeansDone
  BY DEF IInv
<1> QED
  BY IInvHolds, <1>1, PTL

\* Whatever the guarded operations delete or overwrite is described by a row of
\* the comparison the plan was built from, in every round and after any mishap.
THEOREM NothingElseTouched == Spec => OnlyDescribedTouched
<1>1. IInv /\ [Next]_vars =>
        [foreign' = foreign =>
           \A p \in Paths : dst[p] # Absent /\ dst'[p] # dst[p] => Described(p)]_vars
  BY NextIInv DEF OnlyDescribed
<1> QED
  BY IInvHolds, <1>1, PTL DEF Spec, OnlyDescribedTouched

\* A full plan that ran undisturbed left every file and link of the source on
\* the destination and nothing else but directories of the source; a directory
\* may be missing that holds no file or link.
THEOREM Converges == Spec => []SyncConverges
<1>1. Init => ProgressStands
  BY DEF Init, ProgressStands, Undisturbed
<1>2. IInv /\ ProgressStands => SyncConverges
  <2> USE TreeFacts
  <2> SUFFICES ASSUME IInv, ProgressStands, phase = "done", full, smooth, Supported(src, base),
                      NEW p \in Paths, dst[p] # src[p]
               PROVE  /\ dst[p] = Absent /\ src[p] = "dir"
                      /\ \A q \in Within(src, p) : src[q] = "dir"
    BY DEF SyncConverges, Supported
  <2>1. /\ todo = {} /\ src \in Trees /\ dst \in Trees
        /\ \A x \in Paths : PathStands(x) /\ src[x] # "odd"
    BY DEF IInv, TypeOK, ReportStands, ProgressStands, Undisturbed, Supported
  <2>2. \A x \in Paths : /\ src[x] \in Files \cup Links => dst[x] = src[x]
                         /\ src[x] = "dir" => dst[x] \in {Absent, "dir"}
                         /\ src[x] = Absent => dst[x] = Absent
    BY <2>1 DEF PathStands
  <2>3. dst[p] = Absent /\ src[p] = "dir"
    BY <2>1, <2>2
  <2>4. ASSUME NEW q \in Within(src, p)
        PROVE  src[q] = "dir"
    <3>1. q \in Paths /\ q \in Beneath(p) /\ src[q] # Absent
      BY DEF Within, Beneath
    <3>2. dst[q] = Absent
      BY <2>1, <2>3, <3>1
    <3> QED
      BY <2>1, <2>2, <3>1, <3>2
  <2> QED
    BY <2>3, <2>4
<1>3. Spec => []ProgressStands
  BY IInvHolds, <1>1, NextProgress, PTL DEF Spec
<1> QED
  BY IInvHolds, <1>2, <1>3, PTL
=============================================================================
