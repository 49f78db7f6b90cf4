------------------------ MODULE GeographyGenerations ------------------------
(***************************************************************************)
(* The geography stage of one year: the full history and the differential  *)
(* history, two files with a signature each (fires/files.py,               *)
(* fires/differential.py, fires/reuse.py), built fire by fire on the       *)
(* worker pool of OrderedWorkers and accepted by later stages only as an   *)
(* authenticated pair (fires/derived_layers.py).                           *)
(*                                                                         *)
(* Fires are the positions of the map.  Abstracted: the rows of a fire are *)
(* the evidence and context they were derived from and whether they carry  *)
(* a border classification; a growth row is the full row it was derived    *)
(* from; a file is its rows and a stamp, as GDAL writes the time into the  *)
(* bytes; a checksum is the file.  Complex parents, which have no rows,    *)
(* and the fire index are left out.  An optional value is the set of it.   *)
(***************************************************************************)
EXTENDS OrderedWorkers

CONSTANTS Versions,    \* what the sources may say of a fire
          Contexts,    \* derivation contexts: code, libraries, boundary file
          Stamps,      \* the bytes that differ between two equal publications
          MaxChanges,  \* bound: changes of the sources or the context
          MaxInterruptions  \* bound: builds that are killed

Fires == Positions

VARIABLES evidence,       \* fire |-> what the source snapshots say of it
          context,        \* reuse.derivation_context
          full, fullSignature,
          growth, growthSignature,
          pc,             \* where the stage is; "idle" when no writer runs
          unconditional,
          readable,       \* the last load of the boundaries succeeded
          reused,         \* fires whose prior full rows are kept
          classified,     \* fires with a classification in this build
          changes, interruptions

inputVars == <<evidence, context, changes, interruptions>>
fileVars == <<full, fullSignature, growth, growthSignature>>
buildVars == <<unconditional, readable, reused, classified>>
geoVars == <<inputVars, fileVars, buildVars, pc, workerVars>>

Row(fire, hasClass) ==
  [evidence |-> evidence[fire], context |-> context, classified |-> hasClass]
SameKey(row, other) == row.evidence = other.evidence /\ row.context = other.context

Current(row, fire) == row.evidence = evidence[fire] /\ row.context = context

\* generation.source_key
Generation == {[evidence |-> evidence, context |-> context]}

ValidSignature(file, signature) == {s \in signature : file = {s.checksum}}

GenerationMatches(file, signature, generation) ==
  \E s \in ValidSignature(file, signature) : s.generation = generation

\* reuse.read_rows: the authenticated rows, none in an unconditional build.
PriorRows(file, signature) ==
  IF unconditional THEN {}
  ELSE {s.checksum.rows : s \in ValidSignature(file, signature)}

DifferentialGeneration ==
  {[full |-> s.checksum, context |-> context] :
     s \in ValidSignature(full, fullSignature)}

CachedFires == {fire \in Fires : \E rows \in PriorRows(full, fullSignature) :
                                   Current(rows[fire], fire)}

\* The previous output was complete: every one of its fires was classified.
PriorIsTagged == \E s \in ValidSignature(full, fullSignature) : s.generation # {}

InitGeography ==
  /\ evidence \in [Fires -> Versions] /\ context \in Contexts
  /\ changes = 0 /\ interruptions = 0
  /\ full = {} /\ fullSignature = {} /\ growth = {} /\ growthSignature = {}
  /\ pc = "idle" /\ unconditional = FALSE /\ readable = TRUE
  /\ reused = {} /\ classified = {}
  /\ InitWorkers
-----------------------------------------------------------------------------
(* Between two builds: the year lease keeps the writers of sources away from *)
(* a build.                                                                  *)

ChangeInputs ==
  /\ pc = "idle" /\ changes < MaxChanges /\ changes' = changes + 1
  /\ \/ \E fire \in Fires, version \in Versions :
          evidence' = [evidence EXCEPT ![fire] = version] /\ UNCHANGED context
     \/ context' \in Contexts /\ UNCHANGED evidence
  /\ UNCHANGED <<interruptions, fileVars, buildVars, pc, workerVars>>

BeginStage ==
  /\ pc = "idle" /\ pc' = "full"
  /\ unconditional' \in BOOLEAN /\ readable' = TRUE
  /\ UNCHANGED <<inputVars, fileVars, reused, classified, workerVars>>
-----------------------------------------------------------------------------
(* The full history. *)

FullIsCurrent == /\ ~unconditional
                 /\ GenerationMatches(full, fullSignature, Generation)

SkipFull ==
  /\ pc = "full" /\ FullIsCurrent /\ pc' = "differential"
  /\ UNCHANGED <<inputVars, fileVars, buildVars, workerVars>>

\* Mutant: rows of an output that left fires unclassified are reused too.
ReuseUntagged(found, loaded) ==
  /\ readable' = loaded /\ reused' = CachedFires
  /\ classified' = IF loaded THEN Fires ELSE found

\* Rows are reused only from a tagged output.  Classifications of earlier runs
\* are stored by key outside the file: which of them are found is left open.
BoundedPlan(found, loaded) ==
  /\ readable' = loaded
  /\ reused' = IF PriorIsTagged THEN CachedFires ELSE {}
  /\ classified' = IF loaded THEN Fires ELSE found

StartBounded ==
  /\ pc = "full" /\ ~FullIsCurrent /\ pc' = "bounded"
  /\ \E found \in SUBSET Fires, loaded \in BOOLEAN : BoundedPlan(found, loaded)
  /\ Enter(TRUE)
  /\ UNCHANGED <<inputVars, fileVars, unconditional>>

\* catalog.UnavailableError, while the catalog opens or from within the map.
CatalogUnavailable ==
  /\ \/ pc = "full" /\ ~FullIsCurrent /\ UNCHANGED workerVars
     \/ /\ pc = "bounded" /\ phase = "closed"
        /\ outcome \in {"worker_error", "input_error"} /\ Leave
  /\ pc' = "prepared" /\ reused' = {} /\ classified' = {}
  /\ UNCHANGED <<inputVars, fileVars, unconditional, readable>>

\* Mutant: an unclassified fire keeps its old rows although it is classified now.
KeepCached(classifications, loaded) ==
  /\ readable' = loaded /\ reused' = CachedFires
  /\ classified' = CachedFires \cup classifications

\* A fire reused from a tagged output counts as classified; an untagged output
\* still serves the fires that get no classification now either.
PreparedPlan(classifications, loaded) ==
  LET previously == IF PriorIsTagged THEN CachedFires ELSE {} IN
  /\ readable' = loaded
  /\ reused' = {fire \in CachedFires :
                  fire \in previously \/ fire \notin classifications}
  /\ classified' = previously \cup classifications

\* The classifications are calculated for the fires without one, or were already
\* calculated for all fires by the index stage of the same execution.
StartPrepared ==
  /\ pc = "prepared" /\ pc' = "preparing"
  /\ \E found \in SUBSET Fires, loaded, indexed \in BOOLEAN :
       PreparedPlan(IF loaded
                    THEN IF indexed \/ ~PriorIsTagged
                         THEN Fires ELSE Fires \ CachedFires
                    ELSE IF indexed THEN found ELSE {},
                    loaded)
  /\ Enter(FALSE)
  /\ UNCHANGED <<inputVars, fileVars, unconditional>>

\* bounded_sources.build_fire and history.grouped_history_rows
FullRow(fire) ==
  IF fire \in reused
  THEN CHOOSE row \in {rows[fire] : rows \in PriorRows(full, fullSignature)} : TRUE
  ELSE Row(fire, fire \in classified)

MapFinished == phase = "closed" /\ outcome = "finished"

\* The fires whose rows the map handed over, in order.
Collected == 1..(next - 1)

ReplaceFull ==
  /\ pc \in {"bounded", "preparing"} /\ MapFinished /\ pc' = "full_signature"
  /\ \E stamp \in Stamps :
       full' = {[rows |-> [fire \in Collected |-> FullRow(fire)], stamp |-> stamp]}
  /\ Leave
  /\ UNCHANGED <<inputVars, fullSignature, growth, growthSignature, buildVars>>

\* Mutant: the tag does not wait for the classifications.
AlwaysComplete == TRUE

\* A whole-generation tag needs every fire classified.
ClassificationsComplete == Fires \subseteq classified

SignFull ==
  /\ pc = "full_signature" /\ pc' = "differential"
  /\ fullSignature' = {[checksum |-> file, generation |-> IF ClassificationsComplete
                                                         THEN Generation ELSE {}] :
                         file \in full}
  /\ reused' = {} /\ classified' = {}
  /\ UNCHANGED <<inputVars, full, growth, growthSignature, unconditional, readable,
                 workerVars>>
-----------------------------------------------------------------------------
(* The differential history. *)

GrowthIsCurrent ==
  /\ ~unconditional /\ DifferentialGeneration # {}
  /\ GenerationMatches(growth, growthSignature, DifferentialGeneration)

SkipDifferential ==
  /\ pc = "differential" /\ GrowthIsCurrent /\ pc' = "finished"
  /\ UNCHANGED <<inputVars, fileVars, buildVars, workerVars>>

StartDifferential ==
  /\ pc = "differential" /\ ~GrowthIsCurrent /\ pc' = "growth"
  /\ Enter(FALSE)
  /\ UNCHANGED <<inputVars, fileVars, buildVars>>

\* Mutant: growth is reused by its key alone.
ReuseByKey(row, prior) == SameKey(row, prior)

\* differential_group_rows: the key leaves the classification out, so it is
\* compared besides.
MayReuseGrowth(row, prior) == SameKey(row, prior) /\ row.classified = prior.classified

GrowthRow(fire) ==
  LET row == (CHOOSE file \in full : TRUE).rows[fire]
      prior == {rows[fire] : rows \in PriorRows(growth, growthSignature)}
      reusable == {r \in prior : MayReuseGrowth(row, r)}
  IN IF reusable # {} THEN CHOOSE r \in reusable : TRUE ELSE row

ReplaceGrowth ==
  /\ pc = "growth" /\ MapFinished /\ pc' = "growth_signature"
  /\ \E stamp \in Stamps :
       growth' = {[rows |-> [fire \in Collected |-> GrowthRow(fire)], stamp |-> stamp]}
  /\ Leave
  /\ UNCHANGED <<inputVars, full, fullSignature, growthSignature, buildVars>>

SignGrowth ==
  /\ pc = "growth_signature" /\ pc' = "finished"
  /\ growthSignature' = {[checksum |-> file, generation |-> DifferentialGeneration] :
                           file \in growth}
  /\ UNCHANGED <<inputVars, full, fullSignature, growth, buildVars, workerVars>>

FinishStage ==
  /\ pc = "finished" /\ pc' = "idle"
  /\ unconditional' = FALSE /\ readable' = TRUE
  /\ UNCHANGED <<inputVars, fileVars, reused, classified, workerVars>>

EndsEarly == /\ pc' = "idle"
             /\ unconditional' = FALSE /\ readable' = TRUE
             /\ reused' = {} /\ classified' = {}

\* An error of the map leaves the stage: nothing of this map is published.
StageFails ==
  /\ pc \in {"bounded", "preparing", "growth"}
  /\ phase = "closed" /\ outcome \in {"worker_error", "input_error", "abandoned"}
  /\ EndsEarly /\ Leave
  /\ UNCHANGED <<inputVars, fileVars>>

\* The process is killed, or a write fails, wherever the stage is.
Interrupted ==
  /\ pc \notin {"idle", "finished"}
  /\ interruptions < MaxInterruptions /\ interruptions' = interruptions + 1
  /\ EndsEarly
  /\ IF outcome = "none" THEN UNCHANGED workerVars ELSE Leave
  /\ UNCHANGED <<evidence, context, changes, fileVars>>

MapRuns == /\ MapSteps
           /\ UNCHANGED <<inputVars, fileVars, buildVars, pc>>

GeographyNext == \/ ChangeInputs \/ BeginStage
                 \/ SkipFull \/ StartBounded \/ CatalogUnavailable \/ StartPrepared
                 \/ ReplaceFull \/ SignFull
                 \/ SkipDifferential \/ StartDifferential
                 \/ ReplaceGrowth \/ SignGrowth
                 \/ FinishStage \/ StageFails \/ Interrupted \/ MapRuns

GeographySpec == InitGeography /\ [][GeographyNext]_geoVars
-----------------------------------------------------------------------------
(* Properties. *)

\* derived_layers.authenticated_pair: later stages read nothing else.
Accepted ==
  \E s \in ValidSignature(growth, growthSignature) :
    s.generation # {} /\ s.generation = DifferentialGeneration

Recomputed(generation) ==
  [fire \in Fires |-> [evidence |-> generation.evidence[fire],
                       context |-> generation.context, classified |-> TRUE]]

\* Whatever was interrupted, reused or left unclassified before: a tagged full
\* history holds what recomputing every fire from the tagged inputs gives, and an
\* accepted pair's growth was derived from exactly the rows beside it.
PairHonest ==
  /\ \A s \in ValidSignature(full, fullSignature) : \A generation \in s.generation :
       s.checksum.rows = Recomputed(generation)
  /\ Accepted => \A file \in full, derived \in growth : derived.rows = file.rows

\* A stage that ends without an error, by a rebuild or by a skip, leaves a pair
\* that later stages accept, with every fire as the sources and the context have
\* it now; and a classification missing from an earlier build is made up for as
\* soon as the boundaries can be read.
FinishedStageIsCurrent ==
  pc = "finished" =>
    /\ Accepted
    /\ \A file \in full, fire \in Fires :
         /\ Current(file.rows[fire], fire)
         /\ readable => file.rows[fire].classified
=============================================================================
