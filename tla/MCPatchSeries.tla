--------------------------- MODULE MCPatchSeries ---------------------------
(* Small instances of PatchSeries for TLC. *)
EXTENDS PatchSeries, TLC

CONSTANTS a, b, c, o, v0, v1, v2

Change(old, new) == [old |-> old, new |-> new]
\* Upstream 2 has taken over the first patch, upstream 3 changed what the second
\* one changes, upstream 4 ships a file of its own where the overlay is.
MCBaseTree ==
  (1 :> ((a :> v0) @@ (b :> v0) @@ (o :> Absent))) @@
  (2 :> ((a :> v1) @@ (b :> v0) @@ (o :> Absent))) @@
  (3 :> ((a :> v0) @@ (b :> v2) @@ (o :> Absent))) @@
  (4 :> ((a :> v0) @@ (b :> v0) @@ (o :> v2)))
\* Two patches and a free number, or a repository without patches.
MCFiles ==
  {(1 :> (a :> Change(v0, v1))) @@ (2 :> (b :> Change(v0, v1))) @@ (3 :> NoPatch),
   [n \in 1..3 |-> NoPatch]}
MCUserEdits == {<<a, v2>>, <<b, v2>>, <<b, v0>>, <<o, v1>>}
MCPulledFiles ==
  {<<2, (b :> Change(v0, v2)) @@ (a :> Change(v1, v2))>>, <<1, NoPatch>>}

\* Three patches, of which upstream 2 has taken over the first and the last.
TakenOverTree ==
  (1 :> ((a :> v0) @@ (b :> v0) @@ (c :> v0) @@ (o :> Absent))) @@
  (2 :> ((a :> v1) @@ (b :> v0) @@ (c :> v1) @@ (o :> Absent)))
TakenOverFiles ==
  {(1 :> (a :> Change(v0, v1))) @@ (2 :> (b :> Change(v0, v1))) @@ (3 :> (c :> Change(v0, v1)))}
=============================================================================
