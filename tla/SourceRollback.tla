--------------------------- MODULE SourceRollback ---------------------------
(***************************************************************************)
(* SourceFetch with the one thing the cache's readers say may happen to    *)
(* the history: its newest snapshot is taken away again, by hand, between  *)
(* two fetches, and the state file named for it stays behind.              *)
(***************************************************************************)
EXTENDS SourceFetch

RollBack ==
  /\ pc = "idle" /\ snapshots # << >>
  /\ snapshots' = SubSeq(snapshots, 1, Newest - 1)
  /\ UNCHANGED <<provider, caches, pc, locals, outcome>>

NextOrRollBack == Next \/ RollBack

RollbackSpec == Init /\ [][NextOrRollBack]_vars
=============================================================================
