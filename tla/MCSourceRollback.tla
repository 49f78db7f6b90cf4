-------------------------- MODULE MCSourceRollback -------------------------
EXTENDS SourceRollback, TLC

CONSTANTS f1, f2

Features == {f1, f2}
=============================================================================
