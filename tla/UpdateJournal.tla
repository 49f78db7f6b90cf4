---------------------------- MODULE UpdateJournal ---------------------------
(***************************************************************************)
(* How a completed KMZ's mapping updates reach the monthly fire-update log *)
(* exactly once: create_kmz prepares them, replaces the KMZ, journals the  *)
(* batch, appends it, saves the mapping checkpoint, removes the journal    *)
(* and refreshes the viewer.  The process may die between any two of these *)
(* steps; the next KMZ build resumes from the journal.  Simplifications:   *)
(*  - An observation belongs to one fire: which fire inherits an earlier   *)
(*    history (resolved_ownership) is fixed here.                          *)
(*  - The checkpoint is its set of acknowledged observations.              *)
(*  - A record of the log is what it announces; the log is one sequence,   *)
(*    each batch with the month of the file that holds it.  A batch is one *)
(*    element because append_atomic replaces the file.                     *)
(*  - The viewer is the log it was made from.  What it selects of that log *)
(*    is left out: records of the last 48 hours, not after the time of the *)
(*    build, whose area differs from the record before (updates.py,        *)
(*    snapshot_from_entries).                                              *)
(***************************************************************************)
EXTENDS Naturals, Sequences

CONSTANTS Perimeter, Fire, FireOf,
          MaxMonth,    \* bound on the months that pass
          MaxCrashes,  \* bound on the times the process dies
          NoDocument   \* a file that does not exist

ASSUME FireOfAssumption == FireOf \in [Perimeter -> Fire]
ASSUME BoundsAssumption == MaxMonth \in Nat /\ MaxCrashes \in Nat

Updates  == [id: Nat, month: Nat, news: SUBSET Perimeter, state: SUBSET Perimeter]
Journals == {u \in Updates : u.id > 0}
Batches  == [id: Nat \ {0}, month: Nat, news: SUBSET Perimeter]

ASSUME NoDocumentAssumption == /\ NoDocument \notin Updates
                               /\ \A state \in SUBSET Perimeter : NoDocument # state

VARIABLES
  mapped,       \* derived geography: the observations that are mapped now
  interesting,  \* derived scores: the fires the report ranks
  due,          \* run_state.json: the KMZ stage still has to run
  kmz,          \* the observations the KMZ shows
  checkpoint,   \* fire_updates_state.json
  journal,      \* fire_updates_pending.json
  log,          \* the fire-update series
  viewer,       \* the batches updates.json was made from
  month,        \* the calendar
  crashes,      \* history: how often the process died
  issued,       \* history: batch identifiers in use
  pc, resume,   \* the writer's next step, and the one after its recovery
  prepared      \* its PreparedUpdates, then its PendingUpdates

inputs  == <<mapped, interesting>>
durable == <<kmz, checkpoint, journal, log, viewer>>
control == <<pc, resume>>
vars == <<inputs, due, durable, month, crashes, issued, control, prepared>>

NoUpdates == [id |-> 0, month |-> 0, news |-> {}, state |-> {}]

Init ==
  /\ mapped = {} /\ interesting = {} /\ due = FALSE /\ kmz = {}
  /\ checkpoint = NoDocument /\ journal = NoDocument
  /\ log = << >> /\ viewer = {}
  /\ month = 0 /\ crashes = 0 /\ issued = 0
  /\ pc = "idle" /\ resume = "idle" /\ prepared = NoUpdates

\* read_authoritative(state_path) or State().
Acknowledged == IF checkpoint = NoDocument THEN {} ELSE checkpoint

Goto(label) == pc' = label /\ UNCHANGED resume

\* recover_updates is called, and the caller goes on at `after`.
Recover(after) == pc' = "recover" /\ resume' = after
-----------------------------------------------------------------------------
(* create_kmz.                                                             *)

\* The KMZ stage starts; prepare_updates recovers before it compares.
StartKmz ==
  /\ pc = "idle"
  /\ due' = TRUE
  /\ Recover("prepare")
  /\ UNCHANGED <<inputs, durable, month, crashes, issued, prepared>>

\* prepare_updates: the baseline advances for every mapped fire, records are
\* for the interesting ones with observations never acknowledged before.
PrepareUpdates ==
  /\ pc = "prepare"
  /\ prepared' = [NoUpdates EXCEPT
       !.news  = {p \in mapped \ Acknowledged : FireOf[p] \in interesting},
       !.state = mapped \cup Acknowledged]
  /\ Goto("kmz")
  /\ UNCHANGED <<inputs, due, durable, month, crashes, issued>>

\* Mutant: the batch has no identifier or time of its own.
WriteKmzUnstamped ==
  /\ pc = "kmz"
  /\ kmz' = mapped
  /\ Recover("compare")
  /\ UNCHANGED <<inputs, due, checkpoint, journal, log, viewer, month, crashes,
                 issued, prepared>>

WriteKmz ==
  /\ pc = "kmz"
  /\ kmz' = mapped
  /\ Goto("stamp")
  /\ UNCHANGED <<inputs, due, checkpoint, journal, log, viewer, month, crashes,
                 issued, prepared>>

\* write_updates: a fresh identifier and the completion time, then recovery.
StampUpdates ==
  /\ pc = "stamp"
  /\ prepared' = [prepared EXCEPT !.id = issued + 1, !.month = month]
  /\ Recover("compare")
  /\ UNCHANGED <<inputs, due, durable, month, crashes, issued>>

\* Nothing to acknowledge: an empty append that only rotates older months.
SkipJournal ==
  /\ pc = "compare" /\ checkpoint = prepared.state
  /\ Goto("viewer")
  /\ UNCHANGED <<inputs, due, durable, month, crashes, issued, prepared>>

\* Mutant: the journal is left for the next build to recover.
WriteJournalOnly ==
  /\ pc = "compare" /\ checkpoint # prepared.state
  /\ journal' = prepared
  /\ issued' = prepared.id
  /\ Goto("viewer")
  /\ UNCHANGED <<inputs, due, kmz, checkpoint, log, viewer, month, crashes,
                 prepared>>

WriteJournal ==
  /\ pc = "compare" /\ checkpoint # prepared.state
  /\ journal' = prepared
  /\ issued' = prepared.id
  /\ Recover("viewer")
  /\ UNCHANGED <<inputs, due, kmz, checkpoint, log, viewer, month, crashes,
                 prepared>>

WriteViewer ==
  /\ pc = "viewer"
  /\ viewer' = {log[i].id : i \in DOMAIN log}
  /\ Goto("complete")
  /\ UNCHANGED <<inputs, due, kmz, checkpoint, journal, log, month, crashes,
                 issued, prepared>>

\* complete_stage: the run needs no further KMZ.
CompleteKmz ==
  /\ pc = "complete"
  /\ due' = FALSE
  /\ pc' = "idle" /\ resume' = "idle" /\ prepared' = NoUpdates
  /\ UNCHANGED <<inputs, durable, month, crashes, issued>>
-----------------------------------------------------------------------------
(* recover_updates: append, checkpoint, unlink.                            *)

RecoverNothing ==
  /\ pc = "recover" /\ journal = NoDocument
  /\ Goto(resume)
  /\ UNCHANGED <<inputs, due, durable, month, crashes, issued, prepared>>

\* contains_batch looks in the month the frozen timestamp selects.
Contains(m, id) == \E i \in DOMAIN log : log[i].month = m /\ log[i].id = id

BatchOf(j) == [id |-> j.id, month |-> j.month, news |-> j.news]

\* Nothing is left to append for the journal j.
Arrived(j) == j.news = {} \/ Contains(j.month, j.id)

\* Mutant: the append is repeated without looking for the batch.
AppendAgain ==
  /\ pc = "recover" /\ journal # NoDocument
  /\ log' = IF journal.news = {} THEN log ELSE Append(log, BatchOf(journal))
  /\ Goto("checkpoint")
  /\ UNCHANGED <<inputs, due, kmz, checkpoint, journal, viewer, month, crashes,
                 issued, prepared>>

\* Mutant: the batch is dated when it is appended.
AppendWithCurrentTime ==
  /\ pc = "recover" /\ journal # NoDocument
  /\ log' = IF Contains(month, journal.id) \/ journal.news = {}
              THEN log ELSE Append(log, [BatchOf(journal) EXCEPT !.month = month])
  /\ Goto("checkpoint")
  /\ UNCHANGED <<inputs, due, kmz, checkpoint, journal, viewer, month, crashes,
                 issued, prepared>>

\* Mutant: a month that is over takes no more batches.
AppendInCurrentMonth ==
  /\ pc = "recover" /\ journal # NoDocument
  /\ log' = IF Arrived(journal) \/ journal.month < month
              THEN log ELSE Append(log, BatchOf(journal))
  /\ Goto("checkpoint")
  /\ UNCHANGED <<inputs, due, kmz, checkpoint, journal, viewer, month, crashes,
                 issued, prepared>>

\* append_monthly_records with the journal's timestamp and identifier.
AppendBatch ==
  /\ pc = "recover" /\ journal # NoDocument
  /\ log' = IF Arrived(journal) THEN log ELSE Append(log, BatchOf(journal))
  /\ Goto("checkpoint")
  /\ UNCHANGED <<inputs, due, kmz, checkpoint, journal, viewer, month, crashes,
                 issued, prepared>>

SaveCheckpoint ==
  /\ pc = "checkpoint"
  /\ checkpoint' = journal.state
  /\ Goto("unlink")
  /\ UNCHANGED <<inputs, due, kmz, journal, log, viewer, month, crashes, issued,
                 prepared>>

RemoveJournal ==
  /\ pc = "unlink"
  /\ journal' = NoDocument
  /\ Goto(resume)
  /\ UNCHANGED <<inputs, due, kmz, checkpoint, log, viewer, month, crashes,
                 issued, prepared>>
-----------------------------------------------------------------------------
(* The surroundings.                                                       *)

\* Between KMZ builds, geography maps other observations (a correction may
\* also drop some) and scoring ranks other fires.
Rederive ==
  /\ pc = "idle"
  /\ mapped' \in SUBSET Perimeter /\ interesting' \in SUBSET Fire
  /\ due' = TRUE
  /\ UNCHANGED <<durable, month, crashes, issued, control, prepared>>

MonthPasses ==
  /\ month < MaxMonth /\ month' = month + 1
  /\ UNCHANGED <<inputs, due, durable, crashes, issued, control, prepared>>

Crash ==
  /\ pc # "idle" /\ crashes < MaxCrashes
  /\ crashes' = crashes + 1
  /\ pc' = "idle" /\ resume' = "idle" /\ prepared' = NoUpdates
  /\ UNCHANGED <<inputs, due, durable, month, issued>>

Recovery == RecoverNothing \/ AppendBatch \/ SaveCheckpoint \/ RemoveJournal

Build == PrepareUpdates \/ WriteKmz \/ StampUpdates \/ SkipJournal
         \/ WriteJournal \/ WriteViewer \/ CompleteKmz

Next == StartKmz \/ Build \/ Recovery \/ Rederive \/ MonthPasses \/ Crash

Spec == Init /\ [][Next]_vars

\* A started build keeps running; while the KMZ is due, one is started again.
Fairness == WF_vars(Build \/ Recovery) /\ WF_vars(due /\ StartKmz)

FairSpec == Spec /\ Fairness
-----------------------------------------------------------------------------
Labels == {"idle", "recover", "prepare", "kmz", "stamp", "compare", "checkpoint",
           "unlink", "viewer", "complete"}

\* The type of every variable.
TypeOK ==
  /\ mapped \subseteq Perimeter /\ interesting \subseteq Fire
  /\ due \in BOOLEAN /\ kmz \subseteq Perimeter
  /\ checkpoint = NoDocument \/ checkpoint \subseteq Perimeter
  /\ journal = NoDocument \/ journal \in Journals
  /\ log \in Seq(Batches) /\ viewer \subseteq Nat
  /\ month \in 0 .. MaxMonth /\ crashes \in 0 .. MaxCrashes /\ issued \in Nat
  /\ pc \in Labels /\ resume \in {"idle", "prepare", "compare", "viewer"}
  /\ prepared \in Updates

\* When no build is due, everything has arrived: the KMZ shows the current
\* geography, all of it is acknowledged, no journal waits and updates.json was
\* made from every batch of the log (create_kmz, complete_stage).
CaughtUp ==
  pc = "idle" /\ ~ due =>
    /\ kmz = mapped /\ mapped \subseteq Acknowledged
    /\ journal = NoDocument
    /\ viewer = {log[i].id : i \in DOMAIN log}

\* The journal is the commit point: an update is announced as soon as it is
\* journaled, its batch appended or not, its checkpoint saved or not.
Entry(b) == [month |-> b.month, news |-> b.news]

Entries(batches) == [i \in 1 .. Len(batches) |-> Entry(batches[i])]

announced ==
  IF journal # NoDocument /\ ~ Arrived(journal)
    THEN Append(Entries(log), Entry(journal)) ELSE Entries(log)

acknowledged == IF journal = NoDocument THEN Acknowledged ELSE journal.state

Ledger == INSTANCE UpdateLedger
  WITH ledger <- announced, baseline <- acknowledged, Month <- 0 .. MaxMonth

\* Through crashes at any step and the turn of a month, the journal, the log
\* and the checkpoint together behave as an atomic ledger (fire_updates.py).
ImplementsLedger == Ledger!Spec

\* Consequently no observation is announced twice.
AnnouncedOnce == Ledger!AnnouncedOnce

\* A journaled announcement comes to be in the log that updates.json was made
\* from, even if every later build finds something else mapped (recover_updates
\* runs first).  Whether the page still lists it then is the selection's matter.
JournaledIsPublished ==
  \A p \in Perimeter :
    (journal # NoDocument /\ p \in journal.news)
      ~> \E i \in DOMAIN log : p \in log[i].news /\ log[i].id \in viewer
=============================================================================
