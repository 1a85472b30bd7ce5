--------------------------- MODULE MCI18nLedger ---------------------------
(* Small instances of I18nLedger for TLC: a unit in each of two categories. *)
EXTENDS I18nLedger, TLC

CONSTANTS p1, p2, c1, c2, u1, u2, patch, override

Symmetry == Permutations(Processes)
MCCategoryOf == (u1 :> c1) @@ (u2 :> c2)
=============================================================================
