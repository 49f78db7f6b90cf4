---------------------------- MODULE MCLogReading ----------------------------
(* One command reads the month while the monitor polls it.                 *)
EXTENDS LogReading

CONSTANT r1
Commands == {r1}
=============================================================================
