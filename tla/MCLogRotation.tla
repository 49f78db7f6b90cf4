--------------------------- MODULE MCLogRotation ---------------------------
(* A month that is written and rotated; its one reader only takes the lock. *)
EXTENDS LogRotation

CONSTANT r1
Commands == {r1}
=============================================================================
