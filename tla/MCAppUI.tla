------------------------------- MODULE MCAppUI -------------------------------
(* Small instances of AppUI for TLC. *)
EXTENDS AppUI

CONSTANTS SourceRoots, DestRoots   \* the roots a user may choose

MCRoots == [source |-> SourceRoots, dest |-> DestRoots]

\* A session knows both roots, or only the source, and never the roots that the
\* user may put in the same fields.
MCSessions ==
  {[source |-> s, dest |-> d] : s \in DestRoots, d \in SourceRoots \cup {NoRoot}}

\* Nothing to say; a file where a directory was, with an error row of the same
\* path; a directory that is extra and a file that is missing.
MCScanRows ==
  {<<>>,
   <<Row("p", "SizeMismatch", TRUE), Row("p", "ReadError", FALSE)>>,
   <<Row("q", "Extra", TRUE), Row("p", "Missing", FALSE)>>}

\* A missing directory above a missing file is counted and has no row.
MCSurplus == [b \in Buckets |-> IF b = <<"Missing", TRUE>> THEN 1 ELSE 0]

Side(kind, size, sample, rest) ==
  [kind |-> kind, size |-> size, sample |-> sample, rest |-> rest]

MCSideStates ==
  {Side("absent", 0, "", ""), Side("file", 1, "x", "y")}
=============================================================================
