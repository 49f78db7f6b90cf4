---------------------------- MODULE MCGeography ----------------------------
(***************************************************************************)
(* Two fires whose evidence is too heavy to be worked on together, two     *)
(* versions of what the sources say of each, two derivation contexts.      *)
(* Versions are only ever compared for one fire and contexts among         *)
(* themselves, so every behaviour is one of these up to a renaming.        *)
(***************************************************************************)
EXTENDS GeographyGenerations

TwoWeights == <<2, 1>>

MCInit == InitGeography /\ evidence = [fire \in Fires |-> 1] /\ context = 1

\* Bound: the pool runs freely in maps begun before the first file is published;
\* later maps have one busy worker at a time and no error.
FirstMapIsFree ==
  full # {} => /\ faulty = {} /\ Cardinality(In("running")) <= 1
               /\ outcome \in {"none", "open", "finished"}
               /\ phase # "waiting" => In("running") = {}

MCSpec == MCInit /\ [][GeographyNext]_geoVars
=============================================================================
