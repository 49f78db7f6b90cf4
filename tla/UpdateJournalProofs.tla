------------------------ MODULE UpdateJournalProofs -------------------------
(***************************************************************************)
(* The journal implements the ledger, for every set of observations, any   *)
(* number of crashes and months.                                           *)
(***************************************************************************)
EXTENDS UpdateJournal, SequenceTheorems, TLAPS

\* Nothing of the journal can be left while a build is past its recovery.
PastRecovery == {"prepare", "kmz", "stamp", "compare", "viewer", "complete"}

\* What each step of the writer relies on.
PhaseInv ==
  /\ pc \in PastRecovery => journal = NoDocument
  /\ pc = "recover" /\ resume = "compare" => journal = NoDocument
  /\ pc \in {"checkpoint", "unlink"} =>
       journal # NoDocument /\ Arrived(journal) /\ resume # "compare"
  /\ pc = "unlink" => checkpoint = journal.state

\* The prepared batch is computed from the checkpoint it will replace.
Prepared == \/ pc \in {"kmz", "stamp", "compare"}
            \/ pc = "recover" /\ resume = "compare"

PreparedInv ==
  Prepared =>
    /\ prepared.state = mapped \cup Acknowledged
    /\ prepared.news = {p \in mapped \ Acknowledged : FireOf[p] \in interesting}

Stamped == pc = "compare" \/ (pc = "recover" /\ resume = "compare")

\* Batch identifiers are issued once.
IdInv ==
  /\ \A i \in 1 .. Len(log) : log[i].id <= issued
  /\ journal # NoDocument => journal.id <= issued
  /\ Stamped => prepared.id = issued + 1 /\ prepared.month \in 0 .. MaxMonth

IInv == TypeOK /\ PhaseInv /\ PreparedInv /\ IdInv

-----------------------------------------------------------------------------
\* What the log announces is a sequence of entries.
LEMMA EntriesType ==
  ASSUME NEW s \in Seq(Batches)
  PROVE  /\ Entries(s) \in Seq([month: Nat, news: SUBSET Perimeter])
         /\ Len(s) \in Nat /\ Len(Entries(s)) = Len(s)
<1> DEFINE E == [month: Nat, news: SUBSET Perimeter]
<1>1. \A i \in 1 .. Len(s) : Entry(s[i]) \in E
  <2> TAKE i \in 1 .. Len(s)
  <2>1. s[i] \in Batches
    BY ElementOfSeq
  <2> QED
    BY <2>1 DEF Entry, Batches
<1>2. Len(s) \in Nat
  BY LenProperties
<1> HIDE DEF E
<1>3. Entries(s) \in [1 .. Len(s) -> E]
  BY <1>1 DEF Entries
<1>4. Entries(s) \in UNION {[1 .. n -> E] : n \in Nat}
  BY <1>2, <1>3
<1>5. Entries(s) \in Seq(E)
  BY <1>4, SeqDef, Zenon
<1> USE DEF E
<1> QED
  BY <1>2, <1>5, LenProperties DEF Entries

\* Appending a batch to the log appends its entry.
LEMMA EntriesAppend ==
  ASSUME NEW s \in Seq(Batches), NEW b \in Batches
  PROVE  Entries(Append(s, b)) = Append(Entries(s), Entry(b))
<1> DEFINE E == [month: Nat, news: SUBSET Perimeter]
<1>1. Append(s, b) \in Seq(Batches) /\ Len(Append(s, b)) = Len(s) + 1
  BY AppendProperties
<1>2. /\ Entries(s) \in Seq(E) /\ Len(Entries(s)) = Len(s) /\ Len(s) \in Nat
      /\ Entries(Append(s, b)) \in Seq(E) /\ Len(Entries(Append(s, b))) = Len(s) + 1
  BY <1>1, EntriesType
<1>3. Entry(b) \in E
  BY DEF Entry, Batches
<1>4. Append(Entries(s), Entry(b)) \in Seq(E)
      /\ Len(Append(Entries(s), Entry(b))) = Len(s) + 1
  BY <1>2, <1>3, AppendProperties
<1>5. \A i \in 1 .. Len(s) + 1 :
        Entries(Append(s, b))[i] = Append(Entries(s), Entry(b))[i]
  <2> TAKE i \in 1 .. Len(s) + 1
  <2>1. CASE i = Len(s) + 1
    BY <2>1, <1>1, <1>2, <1>3, AppendProperties DEF Entries
  <2>2. CASE i # Len(s) + 1
    <3>1. i \in 1 .. Len(s)
      BY <2>2, <1>2
    <3> QED
      BY <3>1, <1>1, <1>2, <1>3, AppendProperties DEF Entries
  <2> QED
    BY <2>1, <2>2
<1> QED
  BY <1>2, <1>4, <1>5, SeqEqual

-----------------------------------------------------------------------------
(* Type correctness.                                                       *)

\* The initial state is well typed.
LEMMA InitType == Init => TypeOK
<1> SUFFICES ASSUME Init PROVE TypeOK
  OBVIOUS
<1>1. log \in Seq(Batches)
  BY EmptySeq DEF Init
<1>2. prepared \in Updates
  BY DEF Init, NoUpdates, Updates
<1>3. month \in 0 .. MaxMonth /\ crashes \in 0 .. MaxCrashes /\ issued \in Nat
  BY BoundsAssumption DEF Init
<1>4. /\ mapped \subseteq Perimeter /\ interesting \subseteq Fire
      /\ kmz \subseteq Perimeter /\ viewer \subseteq Nat
  BY DEF Init
<1> QED
  BY <1>1, <1>2, <1>3, <1>4 DEF Init, TypeOK, Labels

\* A batch made from a journal is one the log can hold.
LEMMA BatchType == ASSUME NEW j \in Journals PROVE BatchOf(j) \in Batches
BY DEF BatchOf, Journals, Updates, Batches

\* Every step preserves the types; the steps that read the journal have one.
LEMMA NextType == TypeOK /\ PhaseInv /\ IdInv /\ [Next]_vars => TypeOK'
<1> SUFFICES ASSUME TypeOK, PhaseInv, IdInv, [Next]_vars PROVE TypeOK'
  OBVIOUS
<1> USE DEF TypeOK, Labels, Goto, Recover
<1>1. CASE StartKmz
  BY <1>1 DEF StartKmz, inputs, durable
<1>2. CASE PrepareUpdates
  <2>1. Acknowledged \subseteq Perimeter
    BY DEF Acknowledged
  <2>2. prepared' \in Updates
    BY <1>2, <2>1 DEF PrepareUpdates, NoUpdates, Updates
  <2> QED
    BY <1>2, <2>2 DEF PrepareUpdates, inputs, durable
<1>3. CASE WriteKmz
  BY <1>3 DEF WriteKmz, inputs
<1>4. CASE StampUpdates
  <2>1. issued + 1 \in Nat /\ month \in Nat
    BY BoundsAssumption
  <2>2. prepared' = [id |-> issued + 1, month |-> month,
                     news |-> prepared.news, state |-> prepared.state]
    BY <1>4 DEF StampUpdates, Updates
  <2>3. prepared' \in Updates
    BY <2>1, <2>2 DEF Updates
  <2> QED
    BY <1>4, <2>3 DEF StampUpdates, inputs, durable
<1>5. CASE SkipJournal
  BY <1>5 DEF SkipJournal, inputs, durable
<1>6. CASE WriteJournal
  <2>1. journal' \in Journals /\ issued' \in Nat
    BY <1>6 DEF WriteJournal, Journals, Updates, IdInv, Stamped
  <2> QED
    BY <1>6, <2>1 DEF WriteJournal, inputs
<1>7. CASE WriteViewer
  <2>1. viewer' \subseteq Nat
    <3> SUFFICES ASSUME NEW i \in DOMAIN log PROVE log[i].id \in Nat
      BY <1>7 DEF WriteViewer
    <3>1. log[i] \in Batches
      BY ElementOfSeq, LenProperties
    <3> QED
      BY <3>1 DEF Batches
  <2> QED
    BY <1>7, <2>1 DEF WriteViewer, inputs
<1>8. CASE CompleteKmz
  <2>1. NoUpdates \in Updates
    BY DEF NoUpdates, Updates
  <2> QED
    BY <1>8, <2>1 DEF CompleteKmz, inputs, durable
<1>9. CASE RecoverNothing
  BY <1>9 DEF RecoverNothing, inputs, durable
<1>10. CASE AppendBatch
  <2>1. log' \in Seq(Batches)
    BY <1>10, BatchType, AppendProperties DEF AppendBatch
  <2> QED
    BY <1>10, <2>1 DEF AppendBatch, inputs
<1>11. CASE SaveCheckpoint
  <2>1. checkpoint' \subseteq Perimeter
    BY <1>11 DEF SaveCheckpoint, PhaseInv, Journals, Updates
  <2> QED
    BY <1>11, <2>1 DEF SaveCheckpoint, inputs
<1>12. CASE RemoveJournal
  BY <1>12 DEF RemoveJournal, inputs
<1>13. CASE Rederive
  BY <1>13 DEF Rederive, durable, control
<1>14. CASE MonthPasses
  BY <1>14, BoundsAssumption DEF MonthPasses, inputs, durable, control
<1>15. CASE Crash
  <2>1. NoUpdates \in Updates
    BY DEF NoUpdates, Updates
  <2> QED
    BY <1>15, <2>1, BoundsAssumption DEF Crash, inputs, durable
<1>16. CASE UNCHANGED vars
  BY <1>16 DEF vars, inputs, durable, control
<1> QED
  BY <1>1, <1>2, <1>3, <1>4, <1>5, <1>6, <1>7, <1>8, <1>9, <1>10, <1>11, <1>12,
     <1>13, <1>14, <1>15, <1>16 DEF Next, Build, Recovery

-----------------------------------------------------------------------------
(* The inductive invariant.                                                *)

\* After the append, the batch is in the month its timestamp selects.
LEMMA AppendArrives ==
  ASSUME TypeOK, AppendBatch
  PROVE  Arrived(journal)'
<1>1. CASE Arrived(journal)
  BY <1>1 DEF AppendBatch, Arrived, Contains
<1>2. CASE ~ Arrived(journal)
  <2>1. journal \in Journals /\ journal' = journal
    BY DEF TypeOK, AppendBatch
  <2>2. log' = Append(log, BatchOf(journal)) /\ log \in Seq(Batches)
    BY <1>2 DEF AppendBatch, TypeOK
  <2>3. Len(log) + 1 \in DOMAIN log' /\ log'[Len(log) + 1] = BatchOf(journal)
    BY <2>1, <2>2, BatchType, AppendProperties, LenProperties
  <2> QED
    BY <2>1, <2>3 DEF Arrived, Contains, BatchOf
<1> QED
  BY <1>1, <1>2

\* Each step leaves what the next one relies on.
LEMMA NextPhase == IInv /\ [Next]_vars => PhaseInv'
<1> SUFFICES ASSUME IInv, [Next]_vars PROVE PhaseInv'
  OBVIOUS
<1> USE DEF IInv, PhaseInv, PastRecovery, Goto, Recover
<1>1. CASE StartKmz
  BY <1>1 DEF StartKmz
<1>2. CASE PrepareUpdates
  BY <1>2 DEF PrepareUpdates, durable
<1>3. CASE WriteKmz
  BY <1>3 DEF WriteKmz
<1>4. CASE StampUpdates
  BY <1>4 DEF StampUpdates, durable
<1>5. CASE SkipJournal
  BY <1>5 DEF SkipJournal, durable
<1>6. CASE WriteJournal
  BY <1>6 DEF WriteJournal
<1>7. CASE WriteViewer
  BY <1>7 DEF WriteViewer
<1>8. CASE CompleteKmz
  BY <1>8 DEF CompleteKmz
<1>9. CASE RecoverNothing
  BY <1>9 DEF RecoverNothing, durable, TypeOK
<1>10. CASE AppendBatch
  BY <1>10, AppendArrives DEF AppendBatch
<1>11. CASE SaveCheckpoint
  BY <1>11 DEF SaveCheckpoint, Arrived, Contains
<1>12. CASE RemoveJournal
  BY <1>12 DEF RemoveJournal, TypeOK
<1>13. CASE Rederive
  BY <1>13 DEF Rederive, control
<1>14. CASE MonthPasses
  BY <1>14 DEF MonthPasses, durable, control, Arrived, Contains
<1>15. CASE Crash
  BY <1>15 DEF Crash
<1>16. CASE UNCHANGED vars
  BY <1>16 DEF vars, durable, control, Arrived, Contains
<1> QED
  BY <1>1, <1>2, <1>3, <1>4, <1>5, <1>6, <1>7, <1>8, <1>9, <1>10, <1>11, <1>12,
     <1>13, <1>14, <1>15, <1>16 DEF Next, Build, Recovery

\* The prepared batch stays what the current checkpoint makes of the mapping.
LEMMA NextPrepared == IInv /\ [Next]_vars => PreparedInv'
<1> SUFFICES ASSUME IInv, [Next]_vars PROVE PreparedInv'
  OBVIOUS
<1> USE DEF IInv, PhaseInv, PastRecovery, PreparedInv, Prepared, Acknowledged,
            Goto, Recover
<1>1. CASE StartKmz
  BY <1>1 DEF StartKmz
<1>2. CASE PrepareUpdates
  <2>1. /\ prepared'.news = {p \in mapped \ Acknowledged : FireOf[p] \in interesting}
        /\ prepared'.state = mapped \cup Acknowledged
    BY <1>2 DEF PrepareUpdates, NoUpdates
  <2> QED
    BY <1>2, <2>1 DEF PrepareUpdates, inputs, durable
<1>3. CASE WriteKmz
  BY <1>3 DEF WriteKmz, inputs
<1>4. CASE StampUpdates
  <2>1. prepared'.news = prepared.news /\ prepared'.state = prepared.state
    BY <1>4 DEF StampUpdates, TypeOK, Updates
  <2> QED
    BY <1>4, <2>1 DEF StampUpdates, inputs, durable
<1>5. CASE SkipJournal
  BY <1>5 DEF SkipJournal
<1>6. CASE WriteJournal
  BY <1>6 DEF WriteJournal
<1>7. CASE WriteViewer
  BY <1>7 DEF WriteViewer
<1>8. CASE CompleteKmz
  BY <1>8 DEF CompleteKmz
<1>9. CASE RecoverNothing
  BY <1>9 DEF RecoverNothing, inputs, durable, TypeOK
<1>10. CASE AppendBatch
  BY <1>10 DEF AppendBatch
<1>11. CASE SaveCheckpoint
  BY <1>11 DEF SaveCheckpoint
<1>12. CASE RemoveJournal
  BY <1>12 DEF RemoveJournal, TypeOK
<1>13. CASE Rederive
  BY <1>13 DEF Rederive, control
<1>14. CASE MonthPasses
  BY <1>14 DEF MonthPasses, inputs, durable, control
<1>15. CASE Crash
  BY <1>15 DEF Crash
<1>16. CASE UNCHANGED vars
  BY <1>16 DEF vars, inputs, durable, control
<1> QED
  BY <1>1, <1>2, <1>3, <1>4, <1>5, <1>6, <1>7, <1>8, <1>9, <1>10, <1>11, <1>12,
     <1>13, <1>14, <1>15, <1>16 DEF Next, Build, Recovery

\* A fresh identifier exceeds every one in the log and in the journal.
LEMMA NextId == IInv /\ [Next]_vars => IdInv'
<1> SUFFICES ASSUME IInv, [Next]_vars PROVE IdInv'
  OBVIOUS
<1> USE DEF IInv, IdInv, Stamped, Goto, Recover
<1>0. issued \in Nat
  BY DEF TypeOK
<1>1. CASE StartKmz
  BY <1>1 DEF StartKmz, durable
<1>2. CASE PrepareUpdates
  BY <1>2 DEF PrepareUpdates, durable
<1>3. CASE WriteKmz
  BY <1>3 DEF WriteKmz
<1>4. CASE StampUpdates
  <2>1. prepared'.id = issued + 1 /\ prepared'.month = month
    BY <1>4 DEF StampUpdates, TypeOK, Updates
  <2> QED
    BY <1>4, <2>1 DEF StampUpdates, durable, TypeOK
<1>5. CASE SkipJournal
  BY <1>5 DEF SkipJournal, durable
<1>6. CASE WriteJournal
  <2>1. \A i \in 1 .. Len(log) : log[i].id \in Nat
    <3> TAKE i \in 1 .. Len(log)
    <3>1. log[i] \in Batches
      BY ElementOfSeq DEF TypeOK
    <3> QED
      BY <3>1 DEF Batches
  <2>2. \A i \in 1 .. Len(log) : log[i].id <= issued + 1
    BY <2>1, <1>0
  <2>3. issued' = issued + 1 /\ journal'.id = issued + 1 /\ log' = log
    BY <1>6 DEF WriteJournal
  <2>4. \A i \in 1 .. Len(log') : log'[i].id <= issued'
    BY <2>2, <2>3
  <2> QED
    BY <1>6, <1>0, <2>3, <2>4 DEF WriteJournal
<1>7. CASE WriteViewer
  BY <1>7 DEF WriteViewer
<1>8. CASE CompleteKmz
  BY <1>8 DEF CompleteKmz, durable
<1>9. CASE RecoverNothing
  BY <1>9 DEF RecoverNothing, durable, Goto
<1>10. CASE AppendBatch
  <2>1. CASE Arrived(journal)
    BY <1>10, <2>1 DEF AppendBatch
  <2>2. CASE ~ Arrived(journal)
    <3>1. log \in Seq(Batches) /\ BatchOf(journal) \in Batches
      BY <1>10, BatchType DEF AppendBatch, TypeOK
    <3>2. /\ Len(log') = Len(log) + 1 /\ Len(log) \in Nat
          /\ \A i \in 1 .. Len(log) : log'[i] = log[i]
          /\ log'[Len(log) + 1] = BatchOf(journal)
      BY <1>10, <2>2, <3>1, AppendProperties, LenProperties DEF AppendBatch
    <3>3. BatchOf(journal).id <= issued
      BY <1>10 DEF AppendBatch, BatchOf
    <3>4. \A i \in 1 .. Len(log') : log'[i].id <= issued
      <4> TAKE i \in 1 .. Len(log')
      <4>1. i \in 1 .. Len(log) \/ i = Len(log) + 1
        BY <3>2
      <4> QED
        BY <4>1, <3>2, <3>3
    <3> QED
      BY <1>10, <3>4 DEF AppendBatch
  <2> QED
    BY <2>1, <2>2
<1>11. CASE SaveCheckpoint
  BY <1>11 DEF SaveCheckpoint
<1>12. CASE RemoveJournal
  BY <1>12 DEF RemoveJournal, PhaseInv
<1>13. CASE Rederive
  BY <1>13 DEF Rederive, durable, control
<1>14. CASE MonthPasses
  BY <1>14 DEF MonthPasses, durable, control
<1>15. CASE Crash
  BY <1>15 DEF Crash, durable
<1>16. CASE UNCHANGED vars
  BY <1>16 DEF vars, durable, control
<1> QED
  BY <1>1, <1>2, <1>3, <1>4, <1>5, <1>6, <1>7, <1>8, <1>9, <1>10, <1>11, <1>12,
     <1>13, <1>14, <1>15, <1>16 DEF Next, Build, Recovery

\* The invariant holds in every reachable state.
LEMMA Invariant == Spec => []IInv
<1>1. Init => IInv
  <2> SUFFICES ASSUME Init PROVE IInv
    OBVIOUS
  <2>1. Len(log) = 0
    BY EmptySeq DEF Init
  <2> QED
    BY <2>1, InitType DEF Init, IInv, PhaseInv, PastRecovery, PreparedInv,
                          Prepared, IdInv, Stamped
<1>2. IInv /\ [Next]_vars => IInv'
  BY NextType, NextPhase, NextPrepared, NextId DEF IInv
<1> QED
  BY <1>1, <1>2, PTL DEF Spec

\* The variables have their types (fire_updates.py, updates.py).
THEOREM TypeCorrect == Spec => []TypeOK
<1>1. IInv => TypeOK
  BY DEF IInv
<1> QED
  BY <1>1, Invariant, PTL

-----------------------------------------------------------------------------
(* What a completed build leaves.                                          *)

\* A build of which the KMZ is already replaced.
Replaced == \/ pc \in {"stamp", "compare", "viewer", "complete"}
            \/ pc \in {"recover", "checkpoint", "unlink"}
               /\ resume \in {"compare", "viewer"}

\* The stage stays due until it completes, and what it completes holds
\* step by step: the KMZ, the acknowledgement, the viewer.
ArrivalInv ==
  /\ pc # "idle" => due
  /\ Replaced => kmz = mapped
  /\ pc \in {"recover", "checkpoint", "unlink"} /\ resume = "viewer" =>
       journal # NoDocument /\ mapped \subseteq journal.state
  /\ pc \in {"viewer", "complete"} => mapped \subseteq Acknowledged
  /\ pc = "complete" => viewer = {log[i].id : i \in DOMAIN log}
  /\ CaughtUp

\* A build that dies or is overtaken by new geography is due again; one that
\* runs on keeps what its earlier steps have put in place.
LEMMA NextArrival == IInv /\ ArrivalInv /\ [Next]_vars => ArrivalInv'
<1> SUFFICES ASSUME IInv, ArrivalInv, [Next]_vars PROVE ArrivalInv'
  OBVIOUS
<1> USE DEF ArrivalInv, Replaced, CaughtUp, Goto, Recover
<1>1. CASE StartKmz
  BY <1>1 DEF StartKmz
<1>2. CASE PrepareUpdates
  BY <1>2 DEF PrepareUpdates
<1>3. CASE WriteKmz
  BY <1>3 DEF WriteKmz, inputs
<1>4. CASE StampUpdates
  BY <1>4 DEF StampUpdates, inputs, durable
<1>5. CASE SkipJournal
  <2>1. prepared.state = mapped \cup Acknowledged /\ prepared \in Updates
    BY <1>5 DEF SkipJournal, IInv, TypeOK, PreparedInv, Prepared
  <2>2. checkpoint # NoDocument /\ checkpoint = mapped \cup Acknowledged
    BY <1>5, <2>1, NoDocumentAssumption DEF SkipJournal, Updates
  <2>3. mapped \subseteq Acknowledged
    BY <2>2 DEF Acknowledged
  <2>4. mapped' = mapped /\ Acknowledged' = Acknowledged
    BY <1>5 DEF SkipJournal, inputs, durable, Acknowledged
  <2> QED
    BY <1>5, <2>3, <2>4 DEF SkipJournal, inputs, durable
<1>6. CASE WriteJournal
  <2>1. prepared.state = mapped \cup Acknowledged /\ prepared # NoDocument
    BY <1>6, NoDocumentAssumption
       DEF WriteJournal, IInv, TypeOK, PreparedInv, Prepared
  <2> QED
    BY <1>6, <2>1 DEF WriteJournal, inputs
<1>7. CASE WriteViewer
  BY <1>7 DEF WriteViewer, inputs, Acknowledged
<1>8. CASE CompleteKmz
  <2>1. journal = NoDocument
    BY <1>8 DEF CompleteKmz, IInv, PhaseInv, PastRecovery
  <2> QED
    BY <1>8, <2>1 DEF CompleteKmz, inputs, durable, Acknowledged
<1>9. CASE RecoverNothing
  BY <1>9 DEF RecoverNothing, inputs, durable, IInv, TypeOK
<1>10. CASE AppendBatch
  BY <1>10 DEF AppendBatch, inputs
<1>11. CASE SaveCheckpoint
  BY <1>11 DEF SaveCheckpoint, inputs
<1>12. CASE RemoveJournal
  <2>1. journal # NoDocument /\ checkpoint = journal.state /\ resume # "compare"
    BY <1>12 DEF RemoveJournal, IInv, PhaseInv
  <2>2. checkpoint # NoDocument
    BY <2>1, NoDocumentAssumption DEF IInv, TypeOK, Journals, Updates
  <2>3. Acknowledged' = journal.state
    BY <1>12, <2>1, <2>2 DEF RemoveJournal, Acknowledged
  <2> QED
    BY <1>12, <2>1, <2>3 DEF RemoveJournal, inputs, IInv, TypeOK
<1>13. CASE Rederive
  BY <1>13 DEF Rederive, control
<1>14. CASE MonthPasses
  BY <1>14 DEF MonthPasses, inputs, durable, control, Acknowledged
<1>15. CASE Crash
  BY <1>15 DEF Crash
<1>16. CASE UNCHANGED vars
  BY <1>16 DEF vars, inputs, durable, control, Acknowledged
<1> QED
  BY <1>1, <1>2, <1>3, <1>4, <1>5, <1>6, <1>7, <1>8, <1>9, <1>10, <1>11, <1>12,
     <1>13, <1>14, <1>15, <1>16 DEF Next, Build, Recovery

\* When no KMZ is due, the KMZ, the checkpoint and the viewer are current and
\* no journal waits: complete_stage is reached only with all of it in place.
THEOREM CompleteIsCaughtUp == Spec => []CaughtUp
<1>1. Init => ArrivalInv
  <2> SUFFICES ASSUME Init PROVE ArrivalInv
    OBVIOUS
  <2>1. {log[i].id : i \in DOMAIN log} = {}
    BY EmptySeq DEF Init
  <2> QED
    BY <2>1 DEF Init, ArrivalInv, Replaced, CaughtUp
<1>2. ArrivalInv => CaughtUp
  BY DEF ArrivalInv
<1> QED
  BY <1>1, <1>2, Invariant, NextArrival, PTL DEF Spec

-----------------------------------------------------------------------------
(* The refinement.                                                         *)

\* Only these three files matter to the ledger.
LEMMA LedgerStutters ==
  UNCHANGED <<log, journal, checkpoint>> => UNCHANGED <<announced, acknowledged>>
BY DEF announced, acknowledged, Arrived, Contains, Entries, Entry, Acknowledged

\* Appending what the journal announced already changes nothing.
LEMMA AppendStutters ==
  ASSUME IInv, AppendBatch
  PROVE  UNCHANGED <<announced, acknowledged>>
<1>1. journal \in Journals /\ journal # NoDocument /\ log \in Seq(Batches)
  BY DEF AppendBatch, IInv, TypeOK
<1>2. journal' = journal /\ checkpoint' = checkpoint
  BY DEF AppendBatch
<1>3. Arrived(journal)'
  BY AppendArrives DEF IInv
<1>4. announced' = Entries(log')
  BY <1>3 DEF announced
<1>5. Entries(log') = announced
  <2>1. CASE Arrived(journal)
    BY <2>1 DEF announced, AppendBatch
  <2>2. CASE ~ Arrived(journal)
    <3>1. announced = Append(Entries(log), Entry(journal))
      BY <1>1, <2>2 DEF announced
    <3>2. Entry(BatchOf(journal)) = Entry(journal)
      BY DEF Entry, BatchOf
    <3>3. log' = Append(log, BatchOf(journal))
      BY <2>2 DEF AppendBatch
    <3> QED
      BY <1>1, <3>1, <3>2, <3>3, BatchType, EntriesAppend
  <2> QED
    BY <2>1, <2>2
<1> QED
  BY <1>2, <1>4, <1>5 DEF acknowledged, Acknowledged

\* Writing the journal is the publication.
LEMMA JournalPublishes ==
  ASSUME IInv, WriteJournal
  PROVE  Ledger!Next
<1>1. journal = NoDocument /\ log' = log /\ journal' = prepared
      /\ checkpoint' = checkpoint
  BY DEF WriteJournal, IInv, PhaseInv, PastRecovery
<1>2. prepared \in Updates /\ prepared # NoDocument /\ mapped \subseteq Perimeter
      /\ interesting \subseteq Fire
  BY NoDocumentAssumption DEF IInv, TypeOK
<1>3. /\ prepared.state = mapped \cup Acknowledged
      /\ prepared.news = {p \in mapped \ Acknowledged : FireOf[p] \in interesting}
      /\ prepared.id = issued + 1 /\ prepared.month \in 0 .. MaxMonth
  BY DEF WriteJournal, IInv, PreparedInv, Prepared, IdInv, Stamped
<1>4. announced = Entries(log) /\ acknowledged = Acknowledged
  BY <1>1 DEF announced, acknowledged
<1>5. acknowledged' = acknowledged \cup mapped
  BY <1>1, <1>2, <1>3, <1>4 DEF acknowledged
<1>6. ~ Contains(prepared.month, prepared.id)
  <2>1. \A i \in 1 .. Len(log) : log[i].id <= issued
    BY DEF IInv, IdInv
  <2>2. DOMAIN log = 1 .. Len(log) /\ issued \in Nat
    BY LenProperties DEF IInv, TypeOK
  <2> QED
    BY <1>3, <2>1, <2>2 DEF Contains
<1>7. Arrived(journal)' <=> prepared.news = {}
  BY <1>1, <1>6 DEF Arrived, Contains
<1>8. announced' = IF prepared.news = {} THEN announced
                   ELSE Append(announced, [month |-> prepared.month,
                                           news |-> prepared.news])
  BY <1>1, <1>2, <1>4, <1>7 DEF announced, Entry, Entries
<1>9. Ledger!Publish(mapped, interesting, prepared.month)
  BY <1>3, <1>4, <1>5, <1>8 DEF Ledger!Publish, Ledger!News
<1> QED
  BY <1>2, <1>3, <1>9 DEF Ledger!Next

\* Every step of the writer publishes once or leaves the ledger alone.
LEMMA StepRefines ==
  IInv /\ [Next]_vars => [Ledger!Next]_<<announced, acknowledged>>
<1> SUFFICES ASSUME IInv, [Next]_vars
             PROVE  Ledger!Next \/ UNCHANGED <<announced, acknowledged>>
  OBVIOUS
<1>1. CASE WriteJournal
  BY <1>1, JournalPublishes
<1>2. CASE AppendBatch
  BY <1>2, AppendStutters
<1>3. CASE SaveCheckpoint
  <2>1. journal # NoDocument /\ UNCHANGED <<journal, log>>
    BY <1>3 DEF SaveCheckpoint, IInv, PhaseInv
  <2> QED
    BY <2>1 DEF announced, acknowledged, Arrived, Contains, Entries
<1>4. CASE RemoveJournal
  <2>1. /\ journal # NoDocument /\ Arrived(journal) /\ checkpoint = journal.state
        /\ journal' = NoDocument /\ UNCHANGED <<checkpoint, log>>
    BY <1>4 DEF RemoveJournal, IInv, PhaseInv
  <2>2. Acknowledged = journal.state /\ Acknowledged' = journal.state
    <3>1. checkpoint # NoDocument
      BY <2>1, NoDocumentAssumption DEF IInv, TypeOK, Journals, Updates
    <3> QED
      BY <2>1, <3>1 DEF Acknowledged
  <2> QED
    BY <2>1, <2>2 DEF announced, acknowledged, Entries, Entry
<1>5. CASE StartKmz \/ PrepareUpdates \/ WriteKmz \/ StampUpdates \/ SkipJournal
           \/ WriteViewer \/ CompleteKmz \/ RecoverNothing \/ Rederive
           \/ MonthPasses \/ Crash
  <2>1. UNCHANGED <<log, journal, checkpoint>>
    BY <1>5 DEF StartKmz, PrepareUpdates, WriteKmz, StampUpdates, SkipJournal,
                WriteViewer, CompleteKmz, RecoverNothing, Rederive, MonthPasses,
                Crash, durable
  <2> QED
    BY <2>1, LedgerStutters
<1>6. CASE UNCHANGED vars
  BY <1>6, LedgerStutters DEF vars, durable
<1> QED
  BY <1>1, <1>2, <1>3, <1>4, <1>5, <1>6 DEF Next, Build, Recovery

\* The files of fire_updates.py implement an atomic ledger whatever crashes:
\* each publication is announced once, whole, dated when it was completed.
THEOREM JournalImplementsLedger == Spec => ImplementsLedger
<1>1. Init => Ledger!Init
  BY EmptySeq DEF Init, Ledger!Init, announced, acknowledged, Acknowledged, Entries
<1> QED
  BY <1>1, Invariant, StepRefines, PTL DEF Spec, ImplementsLedger, Ledger!Spec

-----------------------------------------------------------------------------
(* Exactly once.                                                           *)

\* What is announced is a sequence of entries.
LEMMA AnnouncedType ==
  ASSUME TypeOK
  PROVE  announced \in Seq([month: Nat, news: SUBSET Perimeter])
<1>1. Entries(log) \in Seq([month: Nat, news: SUBSET Perimeter])
  BY EntriesType DEF TypeOK
<1>2. CASE journal = NoDocument \/ Arrived(journal)
  BY <1>1, <1>2 DEF announced
<1>3. CASE ~ (journal = NoDocument \/ Arrived(journal))
  <2>1. Entry(journal) \in [month: Nat, news: SUBSET Perimeter]
    BY <1>3 DEF TypeOK, Journals, Updates, Entry
  <2>2. announced = Append(Entries(log), Entry(journal))
    BY <1>3 DEF announced
  <2> QED
    BY <1>1, <2>1, <2>2, AppendProperties
<1> QED
  BY <1>2, <1>3

\* A publication announces nothing that an earlier one has acknowledged.
LEMMA PublishOnce ==
  ASSUME TypeOK, AnnouncedOnce, NEW shown \in SUBSET Perimeter,
         NEW ranked \in SUBSET Fire, NEW m \in 0 .. MaxMonth,
         Ledger!Publish(shown, ranked, m)
  PROVE  AnnouncedOnce'
<1> DEFINE news == Ledger!News(shown, ranked)
           E    == [month: Nat, news: SUBSET Perimeter]
<1>1. /\ \A i \in DOMAIN announced : announced[i].news \subseteq acknowledged
      /\ \A i, j \in DOMAIN announced :
           i # j => announced[i].news \cap announced[j].news = {}
  BY DEF AnnouncedOnce, Ledger!AnnouncedOnce
<1>2. news \subseteq shown /\ news \cap acknowledged = {}
  BY DEF Ledger!News
<1>3. acknowledged' = acknowledged \cup shown
  BY DEF Ledger!Publish
<1>4. CASE news = {}
  <2>1. announced' = announced
    BY <1>4 DEF Ledger!Publish
  <2> QED
    BY <1>1, <1>3, <2>1 DEF AnnouncedOnce, Ledger!AnnouncedOnce
<1>5. CASE news # {}
  <2>1. announced' = Append(announced, [month |-> m, news |-> news])
    BY <1>5 DEF Ledger!Publish
  <2>2. announced \in Seq(E) /\ [month |-> m, news |-> news] \in E
    BY <1>2, AnnouncedType, BoundsAssumption
  <2>3. /\ Len(announced') = Len(announced) + 1 /\ Len(announced) \in Nat
        /\ DOMAIN announced = 1 .. Len(announced)
        /\ DOMAIN announced' = 1 .. Len(announced) + 1
        /\ \A i \in 1 .. Len(announced) : announced'[i] = announced[i]
        /\ announced'[Len(announced) + 1].news = news
    BY <2>1, <2>2, AppendProperties, LenProperties
  <2>4. \A i \in DOMAIN announced' :
          i \in DOMAIN announced \/ i = Len(announced) + 1
    BY <2>3
  <2>5. \A i \in DOMAIN announced' : announced'[i].news \subseteq acknowledged'
    BY <1>1, <1>2, <1>3, <2>3, <2>4
  <2>6. \A i, j \in DOMAIN announced' :
          i # j => announced'[i].news \cap announced'[j].news = {}
    BY <1>1, <1>2, <2>3, <2>4
  <2> QED
    BY <2>5, <2>6 DEF AnnouncedOnce, Ledger!AnnouncedOnce
<1> QED
  BY <1>4, <1>5

\* No mapped observation is announced by two batches, and every announced one
\* is acknowledged, whatever crashes (recover_updates, write_updates).
THEOREM NeverAnnouncedTwice == Spec => []AnnouncedOnce
<1>1. Init => AnnouncedOnce
  BY EmptySeq DEF Init, AnnouncedOnce, Ledger!AnnouncedOnce, announced, Entries
<1>2. IInv /\ AnnouncedOnce /\ [Ledger!Next]_<<announced, acknowledged>>
        => AnnouncedOnce'
  <2> SUFFICES ASSUME IInv, AnnouncedOnce,
                      [Ledger!Next]_<<announced, acknowledged>>
               PROVE  AnnouncedOnce'
    OBVIOUS
  <2>1. CASE Ledger!Next
    BY <2>1, PublishOnce DEF Ledger!Next, IInv
  <2>2. CASE UNCHANGED <<announced, acknowledged>>
    BY <2>2 DEF AnnouncedOnce, Ledger!AnnouncedOnce
  <2> QED
    BY <2>1, <2>2
<1> QED
  BY <1>1, <1>2, Invariant, StepRefines, PTL DEF Spec
=============================================================================
