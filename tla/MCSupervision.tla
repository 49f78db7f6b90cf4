----------------------------- MODULE MCSupervision ----------------------------
(* Supervision with three commands and a reader of its geography.          *)
EXTENDS Supervision
===============================================================================
