-------------------------- MODULE MCUpdateJournal --------------------------
(* Two fires, each observed once.                                          *)
EXTENDS UpdateJournal, TLC

CONSTANTS p1, p2, f1, f2

Perimeters == {p1, p2}
Fires      == {f1, f2}
Owner      == p1 :> f1 @@ p2 :> f2
=============================================================================
