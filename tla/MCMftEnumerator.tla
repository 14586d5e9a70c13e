-------------------------- MODULE MCMftEnumerator ---------------------------
(***************************************************************************)
(* Instances of MftEnumerator: a directory with a directory and a file in  *)
(* it, the file linked from the root as well, a deleted file, and a file   *)
(* of the volume.                                                          *)
(***************************************************************************)
EXTENDS MftEnumerator

SixObjects == {"top", "d", "e", "f", "m", "x"}
Kinds       == [o \in SixObjects |-> IF o \in {"f", "m", "x"} THEN "file" ELSE "dir"]
Bases       == [o \in SixObjects |->
                  CASE o = "m" -> 0 [] o = "e" -> 2 [] o = "top" -> 3 [] o = "d" -> 4 [] o = "f" -> 5 [] o = "x" -> 6]

In(d, n) == [parent |-> d, seq |-> 1, name |-> n]
Object(links) == [live |-> TRUE, seq |-> 1, links |-> links]
SmallTree ==
  [o \in SixObjects |->
     CASE o = "top" -> Object(<<>>)
       [] o = "d"   -> Object(<<In("top", "d")>>)
       [] o = "e"   -> Object(<<In("d", "e")>>)
       [] o = "f"   -> Object(<<In("d", "f"), In("top", "g")>>)
       [] o = "m"   -> Object(<<In("top", "$m")>>)
       [] o = "x"   -> [Object(<<In("d", "x")>>) EXCEPT !.live = FALSE]]
\* The root of a volume is its own parent.
VolumeTree == [SmallTree EXCEPT !["top"] = Object(<<In("top", ".")>>)]

Readable == [o \in SixObjects |-> "ok"]
Plain    == [moved |-> None, out |-> {}, below |-> FALSE, apart |-> FALSE, blocks |-> {},
             short |-> {}, damaged |-> {}, status |-> Readable]

\* Where attributes may be.
Places ==
  {[Plain EXCEPT !.moved = o, !.out = x, !.below = b, !.apart = a, !.blocks = k, !.short = s] :
     o \in {"d", "f"}, x \in {{"names", "time"}, {"root", "tail"}, {"names", "time", "root", "tail"}},
     b \in BOOLEAN, a \in BOOLEAN, k \in {{}, {"d"}, {"top", "d"}}, s \in {{}, {"f"}}}
  \cup {[Plain EXCEPT !.blocks = k, !.short = s] : k \in {{}, {"top", "d"}}, s \in {{}, {"d", "f"}}}

Damages ==
  {Part(x, n, 0) : x \in {"record", "read"}, n \in 0 .. 7}
  \cup {Part(x, n, v) : x \in {"lost", "torn"}, n \in 3 .. 4, v \in 0 .. 1}
  \cup {Part("parent", 4, 0), Part("list", 0, 0)}

Statuses == {Readable} \cup {[Readable EXCEPT ![o] = s] : o \in {"top", "d"}, s \in {"denied", "gone", "lost"}}

SomeLayouts ==
  Places
  \cup {[p EXCEPT !.damaged = {x}] : p \in Places, x \in Damages}
  \cup {[Plain EXCEPT !.blocks = {"top", "d"}, !.damaged = x, !.status = s] :
          x \in {{}} \cup {{y} : y \in Damages}, s \in Statuses}
PlainLayout == {Plain}
=============================================================================
