---------------------------- MODULE MCI18nQueue ----------------------------
(* Small instances of I18nQueue and its views for TLC. *)
EXTENDS I18nQueueViews, TLC

CONSTANTS c1, c2, u1, u2, u3

\* Two categories of one unit each.
PairCategoryOf == (u1 :> c1) @@ (u2 :> c2)
\* One category of two units.
SoloCategoryOf == (u1 :> c1) @@ (u2 :> c1)
\* Two units in the first category, one in the second.
WideCategoryOf == (u1 :> c1) @@ (u2 :> c1) @@ (u3 :> c2)

SoloOrd == (c1 :> 1)
PairOrd == (c1 :> 1) @@ (c2 :> 2)

Agents == Permutations(Owners)
=============================================================================
