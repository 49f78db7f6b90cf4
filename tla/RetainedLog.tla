---------------------------- MODULE RetainedLog ----------------------------
(***************************************************************************)
(* What logging.py promises about the records of one month: whatever is    *)
(* moved, compressed or retried, a series is one sequence that only grows  *)
(* at its end, and a journal batch is in it at most once.                  *)
(***************************************************************************)
EXTENDS LogText

CONSTANTS Records,  \* the lines of the general series, numbered
          Batches   \* the journal batches, numbered

VARIABLES general,  \* the general series
          journal   \* the fire-update series; a batch is one element

Init == general = << >> /\ journal = << >>

AppendRecord == /\ \E line \in Records \cup {Torn} : general' = Write(general, line)
                /\ UNCHANGED journal

AppendBatch == /\ \E batch \in Batches :
                    /\ \A i \in DOMAIN journal : journal[i] # batch
                    /\ journal' = Append(journal, batch)
               /\ UNCHANGED general

Next == AppendRecord \/ AppendBatch

Spec == Init /\ [][Next]_<<general, journal>>
=============================================================================
