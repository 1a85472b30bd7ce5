----------------------------- MODULE PatchTree -----------------------------
(***************************************************************************)
(* Trees and patches, as jx_git drives git over them (backend.rs).  A tree *)
(* gives every spot (a place in an upstream file, or a whole file that     *)
(* upstream lacks) its content; a patch gives some spots the content it    *)
(* expects and the content it leaves.  A patch without edits stands for a  *)
(* patch file that does not exist: git writes and accepts no empty diff.   *)
(***************************************************************************)
EXTENDS Integers, Sequences

CONSTANTS
  Spots,    \* places a patch may touch
  Values,   \* contents of a spot
  Absent,   \* the content of a file that does not exist
  Marker    \* the content of a spot left with conflict markers

ASSUME ContentAssumption == Absent \in Values /\ Marker \in Values

Trees == [Spots -> Values]
Edits == {e \in [old : Values, new : Values] : e.old # e.new}
Patches == UNION {[D -> Edits] : D \in SUBSET Spots}
NoPatch == [s \in {} |-> s]
EmptyTree == [s \in Spots |-> Absent]

\* `git apply --check': every hunk finds what it expects.
Fits(p, t) == \A s \in DOMAIN p : t[s] = p[s].old
\* `git apply --check --reverse'.
Reverses(p, t) == \A s \in DOMAIN p : t[s] = p[s].new
\* `git apply': all of the patch, or an error.
Patched(p, t) == [s \in Spots |-> IF s \in DOMAIN p THEN p[s].new ELSE t[s]]
\* `git apply --reverse'.
Unpatched(p, t) == [s \in Spots |-> IF s \in DOMAIN p THEN p[s].old ELSE t[s]]

\* `git apply --3way': a spot that has the new content already is no conflict.
Merges(p, t) == \A s \in DOMAIN p : t[s] \in {p[s].old, p[s].new}
\* What it leaves when some spots do conflict.
WithMarkers(p, t) ==
  [s \in Spots |->
     IF s \notin DOMAIN p THEN t[s]
     ELSE IF t[s] \in {p[s].old, p[s].new} THEN p[s].new
     ELSE Marker]

\* `git diff --cached HEAD', with h the tree of HEAD and t what is staged.
Diff(h, t) ==
  [s \in {x \in Spots : h[x] # t[x]} |-> [old |-> h[s], new |-> t[s]]]

-----------------------------------------------------------------------------
(* A series: patch files by number, and the numbers that are registered. *)

\* The tree after the registered patches up to number k, each taken as applied.
Stack(base, files, series, top) ==
  LET upto[k \in 0..top] ==
        IF k = 0 THEN base
        ELSE IF k \in series THEN Patched(files[k], upto[k - 1])
        ELSE upto[k - 1]
  IN upto

\* Every registered patch applies, without merging, on what precedes it.
StackFits(base, files, series, top) ==
  \A k \in series : Fits(files[k], Stack(base, files, series, top)[k - 1])
=============================================================================
