------------------------------- MODULE MCSync -------------------------------
(***************************************************************************)
(* Small instances of DomainSync: two items, two contents, and either two  *)
(* file paths or two calendars an event can be in.                         *)
(***************************************************************************)
EXTENDS DomainSync, TLC

CONSTANTS k1, k2, c1, c2, b1, b2

\* Two paths in one folder.
OneFolderPlaces == {<<c1, k1>>, <<c1, k2>>}

\* A single path.
OnePathPlaces == {<<c1, k1>>}

\* An event keeps its UID wherever it is.
CalendarPlaces == {c1, c2} \X {k1, k2}
OneEventPlaces == {c1, c2} \X {k1}

\* The two paths of a folder are interchangeable, and so are the contents.
Interchangeable == Permutations({k1, k2}) \cup Permutations({b1, b2})
=============================================================================
