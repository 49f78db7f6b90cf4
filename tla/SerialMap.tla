----------------------------- MODULE SerialMap -----------------------------
(***************************************************************************)
(* What concurrency.ordered_parallel_map promises its consumer: the same   *)
(* answers, in the same order, as calling the function on one input after  *)
(* the other.  Inputs are numbered 1..Inputs.                              *)
(***************************************************************************)
EXTENDS Naturals

CONSTANT Inputs  \* the number of inputs of one map

VARIABLES faulty,     \* the inputs on which the function raises
          delivered,  \* results handed to the consumer
          outcome     \* "open", or how the map ended

serialVars == <<faulty, delivered, outcome>>

Fresh == faulty = {} /\ delivered = 0 /\ outcome = "none"

Begin == /\ outcome = "none"
         /\ faulty' \in SUBSET (1..Inputs) /\ outcome' = "open"
         /\ UNCHANGED delivered

\* The caller is done with the map, or dies: nothing of it is used any more.
Leave == /\ outcome # "none"
         /\ faulty' = {} /\ delivered' = 0 /\ outcome' = "none"

Deliver == /\ outcome = "open" /\ delivered < Inputs /\ delivered + 1 \notin faulty
           /\ delivered' = delivered + 1
           /\ UNCHANGED <<faulty, outcome>>

\* The error of an input is raised in that input's turn, never earlier.
Raise == /\ outcome = "open" /\ delivered + 1 \in faulty
         /\ outcome' = "worker_error"
         /\ UNCHANGED <<faulty, delivered>>

Finish == /\ outcome = "open" /\ delivered = Inputs
          /\ outcome' = "finished"
          /\ UNCHANGED <<faulty, delivered>>

\* The inputs themselves fail, or the consumer stops early.
Interrupt == /\ outcome = "open"
             /\ outcome' \in {"input_error", "abandoned"}
             /\ UNCHANGED <<faulty, delivered>>

Next == Begin \/ Leave \/ Deliver \/ Raise \/ Finish \/ Interrupt

Spec == Fresh /\ [][Next]_serialVars
=============================================================================
