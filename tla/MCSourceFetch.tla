--------------------------- MODULE MCSourceFetch ---------------------------
(* Two features that only their rows tell apart.                           *)
EXTENDS SourceFetch, TLC

CONSTANTS f1, f2

Features == {f1, f2}
FeatureSymmetry == Permutations(Features)
=============================================================================
