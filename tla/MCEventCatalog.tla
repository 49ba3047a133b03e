--------------------------- MODULE MCEventCatalog ---------------------------
(***************************************************************************)
(* EventCatalog for TLC.  Writes are alike, and so are slugs.              *)
(***************************************************************************)
EXTENDS EventCatalog, TLC

CONSTANTS s1, s2, w1, w2

TwoSlugs == {s1, s2}
TwoEditors == {w1, w2}

Alike == Permutations(TwoSlugs) \union Permutations(TwoEditors)
=============================================================================
