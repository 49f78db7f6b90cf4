------------------------------ MODULE Pipeline ------------------------------
(***************************************************************************)
(* The durable protocol of `peri_scribe run` and `validate-sources`: which *)
(* derived work is remembered, when the publication gate may skip a build, *)
(* and what a finished KMZ acknowledges.                                   *)
(*                                                                         *)
(* One action is one durable step of the single writer (Supervision shows  *)
(* that the year's lease admits one), so an interruption can fall between  *)
(* any two of them.  Simplifications:                                      *)
(*  - Saved fire snapshots and saved reference data (evacuations, cities)  *)
(*    are versions, counted from 0.  A download that moves the reference   *)
(*    data back to an earlier content counts as a new version.             *)
(*  - An output is the oldest versions that reached it, the fire index     *)
(*    (sources/fires.json) it was written with included.                   *)
(*  - The publication checkpoint is what read_publication returns: a       *)
(*    checkpoint whose stamp is not the current KMZ's is NoPublication.    *)
(*  - The area and identity rules of mapping_decision are a choice.        *)
(***************************************************************************)
EXTENDS Naturals

CONSTANTS MaxFeed,          \* bound on the versions the fire feeds pass through
          MaxReference,     \* bound on the versions of evacuations and cities
          MaxInterruptions, \* bound on crashes and failed steps
          Requests,         \* the invocations of `run` that are considered
          NoPublication     \* no checkpoint belongs to the current KMZ

Fetch     == 0
Geography == 1
Score     == 2
Kmz       == 3
Reports   == 4

Stages        == Fetch .. Reports
DerivedStages == Geography .. Reports

Request == [start: Stages, end: Stages, gated: BOOLEAN,
            unconditional: BOOLEAN, interval: BOOLEAN]

ASSUME BoundsAssumption == /\ MaxFeed \in Nat
                           /\ MaxReference \in Nat
                           /\ MaxInterruptions \in Nat

ASSUME RequestsAssumption == Requests \subseteq Request

Inputs  == [fire: Nat, ext: Nat]
Outputs == [fire: Nat, ext: Nat, index: Nat]

ASSUME NoPublicationAssumption == NoPublication \notin Inputs

VARIABLES
  feed,          \* fire data the feeds serve now
  reference,     \* evacuation and city data their services serve now
  saved,         \* the snapshots and reference data under sources/
  index,         \* the snapshots sources/fires.json was built from
  remaining,     \* run_state.json: the stages that still have to run
  unconditional, \* run_state.json: whether they must bypass prior results
  marker,        \* whether the deferred_inputs file exists
  published,     \* the checkpoint that belongs to the current KMZ
  fullDue,       \* whether the full-fetch interval has elapsed
  waited,        \* whether the publication interval has elapsed
  geography, score, kmz, reports, \* the inputs each output was built from
  owed,          \* history: a full fetch is acknowledged, its rebuild is not done
  interruptions, \* history: crashes and failures so far
  pc, request, stage,       \* the writer: its next step, its options, its stage
  previous,      \* its local `previous`: the requirements before the fetch
  deferred, changed, full,  \* its locals of the same names
  frozen         \* its publication_inputs

remote  == <<feed, reference, fullDue, waited>>
sources == <<saved, index>>
intent  == <<remaining, unconditional, marker>>
outputs == <<geography, score, kmz, reports>>
locals  == <<previous, deferred, changed, full, frozen>>
control == <<pc, request, stage>>
history == <<owed, interruptions>>

vars == <<remote, sources, intent, published, outputs, history, control, locals>>

Oldest(a, b) == IF a <= b THEN a ELSE b

NoRequest == [start |-> Fetch, end |-> Fetch, gated |-> FALSE,
              unconditional |-> FALSE, interval |-> FALSE]

NoWork == [remaining |-> {}, unconditional |-> FALSE]

\* Version 0 is what the year holds, indexed and derived, when the story starts.
Start == [fire |-> 0, ext |-> 0]

Init ==
  /\ feed = 0 /\ reference = 0
  /\ fullDue = TRUE /\ waited = FALSE
  /\ saved = Start /\ index = 0
  /\ remaining = {} /\ unconditional = FALSE /\ marker = FALSE
  /\ published = NoPublication
  /\ geography = 0 /\ score = Start
  /\ kmz = [fire |-> 0, ext |-> 0, index |-> 0] /\ reports = kmz
  /\ owed = FALSE /\ interruptions = 0
  /\ pc = "idle" /\ request = NoRequest /\ stage = Fetch
  /\ previous = NoWork /\ deferred = FALSE /\ changed = FALSE /\ full = FALSE
  /\ frozen = NoPublication
-----------------------------------------------------------------------------
(* What the writer does to run_state.json, and how it moves on.            *)

Require(stages, force) ==
  /\ remaining' = remaining \cup stages
  /\ unconditional' = (unconditional \/ force)

\* The effective flag run_selected_stages hands to a stage.
Forced(s) == request.unconditional \/ (unconditional /\ s \in remaining)

ForgetLocals ==
  /\ previous' = NoWork /\ deferred' = FALSE /\ changed' = FALSE
  /\ full' = FALSE /\ frozen' = NoPublication

\* The invocation is over, whatever ended it: only durable state survives.
Stop ==
  /\ pc' = "idle" /\ request' = NoRequest /\ stage' = Fetch
  /\ ForgetLocals

Goto(label) == pc' = label /\ UNCHANGED <<request, stage>>

\* After the current stage: its successor in the range, or the end.
Advance ==
  IF stage < request.end
    THEN /\ pc' = "stage" /\ stage' = stage + 1
         /\ UNCHANGED <<request, locals>>
    ELSE Stop
-----------------------------------------------------------------------------
(* An invocation acquires the lease and records the work it selects.       *)

\* Mutant: the stages of the range, the fetch itself among them.
SelectedWithFetch(r) == {s \in Stages : r.start <= s /\ s <= r.end}

Selected(r) == {s \in DerivedStages : r.start <= s /\ s <= r.end}

FirstStep(r) == IF r.start > Fetch THEN "stage"
                ELSE IF r.gated THEN "defer" ELSE "record"

Begin(r) ==
  /\ pc = "idle" /\ r.start <= r.end
  /\ IF r.unconditional \/ r.start > Fetch
       THEN Require(Selected(r), r.unconditional /\ Selected(r) # {})
       ELSE UNCHANGED <<remaining, unconditional>>
  /\ request' = r /\ stage' = r.start /\ pc' = FirstStep(r)
  /\ UNCHANGED <<remote, sources, marker, published, outputs, history, locals>>

\* Ungated fetch: requirements are durable before the marker goes away.
RecordWork ==
  /\ pc = "record"
  /\ previous' = [remaining |-> remaining, unconditional |-> unconditional]
  /\ deferred' = marker
  /\ Require(DerivedStages, FALSE)
  /\ Goto("clear")
  /\ UNCHANGED <<remote, sources, marker, published, outputs, history,
                 changed, full, frozen>>

\* Gated fetch: the marker is durable before any source is written.
DeferInputs ==
  /\ pc = "defer"
  /\ marker' = TRUE
  /\ Goto("plan")
  /\ UNCHANGED <<remote, sources, remaining, unconditional, published, outputs,
                 history, locals>>

\* clear_deferred_inputs, on the ungated path and after the gate accepted.
ClearMarker ==
  /\ pc \in {"clear", "accepted"}
  /\ marker' = FALSE
  /\ Goto(IF pc = "clear" THEN "plan" ELSE "index")
  /\ UNCHANGED <<remote, sources, remaining, unconditional, published, outputs,
                 history, locals>>

\* A full fetch that is due requires a forced rebuild before it starts.
PlanFetch ==
  /\ pc = "plan"
  /\ full' = (request.interval /\ fullDue)
  /\ IF full' THEN Require(DerivedStages, TRUE)
              ELSE UNCHANGED <<remaining, unconditional>>
  /\ Goto("feeds")
  /\ UNCHANGED <<remote, sources, marker, published, outputs, history,
                 previous, deferred, changed, frozen>>

\* Every feed succeeded: the snapshots hold what the feeds served.
FetchFeeds ==
  /\ pc \in {"feeds", "validate"}
  /\ saved' = [saved EXCEPT !.fire = feed]
  /\ changed' = (saved.fire # feed)
  /\ Goto(IF pc = "validate" THEN "compare"
          ELSE IF request.gated THEN "references" ELSE "index")
  /\ UNCHANGED <<remote, index, intent, published, outputs, history,
                 previous, deferred, full, frozen>>

\* The index is rebuilt after a new snapshot, a full fetch, or by an accepting
\* gate.  An unchanged incremental fetch leaves sources/fires.json alone.
BuildIndex ==
  /\ pc = "index"
  /\ index' = IF request.gated \/ changed \/ full THEN saved.fire ELSE index
  /\ Goto(IF full THEN "stamp" ELSE "externals")
  /\ UNCHANGED <<remote, saved, intent, published, outputs, history, locals>>

\* full_fetch_state.write_state: the next full fetch is an interval away.
StampFullFetch ==
  /\ pc = "stamp"
  /\ fullDue' = FALSE /\ owed' = TRUE
  /\ Goto("externals")
  /\ UNCHANGED <<feed, reference, waited, sources, intent, published, outputs,
                 interruptions, locals>>

\* Gated: evacuations and cities are checked before the gate.
FetchReferences ==
  /\ pc = "references"
  /\ saved' = [saved EXCEPT !.ext = reference]
  /\ Goto("gate")
  /\ UNCHANGED <<remote, index, intent, published, outputs, history, locals>>

\* Ungated: the same services, after the fire feeds.
RefreshExternals ==
  /\ pc = "externals" /\ ~ request.gated
  /\ saved' = [saved EXCEPT !.ext = reference]
  /\ changed' = (changed \/ saved.ext # reference)
  /\ Goto("settle")
  /\ UNCHANGED <<remote, index, intent, published, outputs, history,
                 previous, deferred, full, frozen>>

\* Accepted and gated: the other external sources, which trigger no rebuild.
RefreshOthers ==
  /\ pc = "externals" /\ request.gated
  /\ Advance
  /\ UNCHANGED <<remote, sources, intent, published, outputs, history>>

\* Mutant: a full fetch that stored nothing restores the earlier work.
SettleIgnoringFull ==
  /\ pc = "settle"
  /\ IF changed \/ deferred
       THEN UNCHANGED <<remaining, unconditional>>
       ELSE /\ remaining' = previous.remaining
            /\ unconditional' = previous.unconditional
  /\ IF changed \/ request.unconditional \/ remaining' # {} THEN Advance ELSE Stop
  /\ UNCHANGED <<remote, sources, marker, published, outputs, history>>

\* Only a successful unchanged incremental fetch restores the earlier work.
Settle ==
  /\ pc = "settle"
  /\ IF changed \/ full \/ deferred
       THEN UNCHANGED <<remaining, unconditional>>
       ELSE /\ remaining' = previous.remaining
            /\ unconditional' = previous.unconditional
  /\ IF changed \/ request.unconditional \/ remaining' # {} THEN Advance ELSE Stop
  /\ UNCHANGED <<remote, sources, marker, published, outputs, history>>
-----------------------------------------------------------------------------
(* The publication gate.                                                   *)

\* Mutant: reference data is compared by nobody.
MustPublishFires == published = NoPublication

\* decide: no checkpoint, or other reference data than the checkpoint's.
MustPublish == published # NoPublication => published.ext # saved.ext

\* Reason.NO_CHANGES: the checkpoint covers every saved input.
NoUnpublishedInputs == ~ MustPublish /\ published.fire = saved.fire

\* Mutant: changes below the threshold wait for ever.
MayDeferForever == ~ MustPublish

\* mapping_decision and the timer: pending snapshots may reach the threshold,
\* and do not wait any longer once the publication interval has elapsed.
MayPublish == ~ NoUnpublishedInputs
MayDefer   == ~ MustPublish /\ (waited => NoUnpublishedInputs)

Overrides == full \/ request.unconditional \/ remaining # {}

GateAccepts ==
  /\ pc = "gate"
  /\ Overrides \/ MayPublish
  /\ Require(DerivedStages, FALSE)
  /\ Goto("accepted")
  /\ UNCHANGED <<remote, sources, marker, published, outputs, history, locals>>

GateSkips ==
  /\ pc = "gate"
  /\ ~ Overrides /\ MayDefer
  /\ marker' = (marker /\ ~ NoUnpublishedInputs)
  /\ Stop
  /\ UNCHANGED <<remote, sources, remaining, unconditional, published, outputs,
                 history>>
-----------------------------------------------------------------------------
(* The derived stages.                                                     *)

\* Histories come from the snapshots themselves; only a forced rebuild also
\* rewrites the fire index.
RunGeography ==
  /\ pc = "stage" /\ stage = Geography
  /\ geography' = saved.fire
  /\ index' = IF Forced(Geography) THEN saved.fire ELSE index
  /\ owed' = (owed /\ ~ Forced(Geography))
  /\ Goto(IF request.gated THEN "collect" ELSE "complete")
  /\ UNCHANGED <<remote, saved, intent, published, score, kmz, reports,
                 interruptions, locals>>

\* The inventory the KMZ of this invocation may acknowledge.
CollectInputs ==
  /\ pc = "collect"
  /\ frozen' = saved
  /\ Goto("complete")
  /\ UNCHANGED <<remote, sources, intent, published, outputs, history,
                 previous, deferred, changed, full>>

RunScore ==
  /\ pc = "stage" /\ stage = Score
  /\ score' = [fire |-> geography, ext |-> saved.ext]
  /\ Goto("complete")
  /\ UNCHANGED <<remote, sources, intent, published, geography, kmz, reports,
                 history, locals>>

\* What the KMZ and the reports read: index, histories, scores, references.
Rendered == [fire  |-> Oldest(geography, score.fire),
             ext   |-> Oldest(score.ext, saved.ext),
             index |-> index]

\* Mutant: a checkpoint counts for any KMZ.
WriteKmzUnderCheckpoint ==
  /\ pc = "stage" /\ stage = Kmz
  /\ kmz' = Rendered
  /\ Goto(IF frozen = NoPublication THEN "complete" ELSE "commit")
  /\ UNCHANGED <<remote, sources, intent, published, geography, score, reports,
                 history, locals>>

\* Replacing the KMZ detaches any checkpoint: its stamp no longer matches.
WriteKmz ==
  /\ pc = "stage" /\ stage = Kmz
  /\ kmz' = Rendered
  /\ published' = NoPublication
  /\ Goto(IF frozen = NoPublication THEN "complete" ELSE "commit")
  /\ UNCHANGED <<remote, sources, intent, geography, score, reports,
                 history, locals>>

\* publication.commit: the completed KMZ acknowledges the frozen inventory.
CommitPublication ==
  /\ pc = "commit"
  /\ published' = frozen
  /\ waited' = FALSE
  /\ Goto("complete")
  /\ UNCHANGED <<feed, reference, fullDue, sources, intent, outputs, history,
                 locals>>

RunReports ==
  /\ pc = "stage" /\ stage = Reports
  /\ reports' = Rendered
  /\ Goto("complete")
  /\ UNCHANGED <<remote, sources, intent, published, geography, score, kmz,
                 history, locals>>

IsFirst(s) == s \in remaining /\ \A r \in remaining : s <= r

\* Mutant: any completed stage is acknowledged.
CompleteAnyStage ==
  /\ pc = "complete"
  /\ remaining' = remaining \ {stage}
  /\ unconditional' = (unconditional /\ remaining' # {})
  /\ Advance
  /\ UNCHANGED <<remote, sources, marker, published, outputs, history>>

\* complete_stage: only the first remaining stage can be acknowledged.
CompleteStage ==
  /\ pc = "complete"
  /\ IF IsFirst(stage)
       THEN /\ remaining' = remaining \ {stage}
            /\ unconditional' = (unconditional /\ remaining' # {})
       ELSE UNCHANGED <<remaining, unconditional>>
  /\ Advance
  /\ UNCHANGED <<remote, sources, marker, published, outputs, history>>
-----------------------------------------------------------------------------
(* validate-sources, the other command that holds the writer lease.        *)

BeginValidation ==
  /\ pc = "idle"
  /\ previous' = [remaining |-> remaining, unconditional |-> unconditional]
  /\ Require(DerivedStages, FALSE)
  /\ Goto("validate")
  /\ UNCHANGED <<remote, sources, marker, published, outputs, history,
                 deferred, changed, full, frozen>>

\* fetch_all_feeds indexes new snapshots; unchanged ones restore the work.
FinishValidation ==
  /\ pc = "compare"
  /\ IF changed
       THEN index' = saved.fire /\ UNCHANGED <<remaining, unconditional>>
       ELSE /\ remaining' = previous.remaining
            /\ unconditional' = previous.unconditional
            /\ UNCHANGED index
  /\ Stop
  /\ UNCHANGED <<remote, saved, marker, published, outputs, history>>
-----------------------------------------------------------------------------
(* What goes wrong, and what the world does.                               *)

Interrupted == /\ interruptions < MaxInterruptions
               /\ interruptions' = interruptions + 1

\* The process dies between two durable steps, or a stage raises.
Crash ==
  /\ pc # "idle" /\ Interrupted
  /\ Stop
  /\ UNCHANGED <<remote, sources, intent, published, outputs, owed>>

\* Some feeds failed or the process died while others had stored snapshots.
PartialFetch ==
  /\ pc \in {"feeds", "validate"} /\ Interrupted
  /\ \E v \in saved.fire .. feed : saved' = [saved EXCEPT !.fire = v]
  /\ Stop
  /\ UNCHANGED <<remote, index, intent, published, outputs, owed>>

\* The exception handlers around the fetch and around the gate.  A feed that
\* failed does not keep the others' snapshots out of the index.  Validation has
\* no handler: what the handler would require is required already.
FailFetch ==
  /\ pc \in {"feeds", "validate", "references", "gate"} /\ Interrupted
  /\ \/ /\ pc \in {"feeds", "validate"}
        /\ \E v \in saved.fire .. feed :
             /\ saved' = [saved EXCEPT !.fire = v]
             /\ index' = IF ~ request.gated /\ (v # saved.fire \/ full)
                           THEN v ELSE index
     \/ pc \in {"references", "gate"} /\ UNCHANGED sources
  /\ Require(DerivedStages, FALSE)
  /\ Stop
  /\ UNCHANGED <<remote, marker, published, outputs, owed>>

\* read_state finds a file it cannot accept: everything, unconditionally.
LoseRunState ==
  /\ pc = "idle" /\ Interrupted
  /\ remaining' = DerivedStages /\ unconditional' = TRUE
  /\ UNCHANGED <<remote, sources, marker, published, outputs, owed, control, locals>>

FeedAdvances ==
  /\ feed < MaxFeed /\ feed' = feed + 1
  /\ UNCHANGED <<reference, fullDue, waited, sources, intent, published, outputs,
                 history, control, locals>>

ReferenceAdvances ==
  /\ reference < MaxReference /\ reference' = reference + 1
  /\ UNCHANGED <<feed, fullDue, waited, sources, intent, published, outputs,
                 history, control, locals>>

FullFetchFallsDue ==
  /\ ~ fullDue /\ fullDue' = TRUE
  /\ UNCHANGED <<feed, reference, waited, sources, intent, published, outputs,
                 history, control, locals>>

PublicationFallsDue ==
  /\ ~ waited /\ waited' = TRUE
  /\ UNCHANGED <<feed, reference, fullDue, sources, intent, published, outputs,
                 history, control, locals>>
-----------------------------------------------------------------------------
FetchStep ==
  \/ RecordWork \/ DeferInputs \/ ClearMarker \/ PlanFetch \/ FetchFeeds
  \/ BuildIndex \/ StampFullFetch \/ FetchReferences \/ RefreshExternals
  \/ RefreshOthers \/ Settle \/ GateAccepts \/ GateSkips

StageStep ==
  \/ RunGeography \/ CollectInputs \/ RunScore \/ WriteKmz
  \/ CommitPublication \/ RunReports \/ CompleteStage

Progress == FetchStep \/ StageStep \/ FinishValidation

Invoke == (\E r \in Requests : Begin(r)) \/ BeginValidation

Failure == Crash \/ PartialFetch \/ FailFetch \/ LoseRunState

Environment == \/ FeedAdvances \/ ReferenceAdvances
               \/ FullFetchFallsDue \/ PublicationFallsDue

Next == Progress \/ Invoke \/ Failure \/ Environment

Spec == Init /\ [][Next]_vars
-----------------------------------------------------------------------------
(* Types.                                                                  *)

Steps == {"idle", "record", "defer", "clear", "plan", "feeds", "references",
          "gate", "accepted", "index", "stamp", "externals", "settle", "stage",
          "collect", "commit", "complete", "validate", "compare"}

Work == [remaining: SUBSET DerivedStages, unconditional: BOOLEAN]

\* The type of every variable: run_state.json holds derived stages only, the
\* checkpoint is an input inventory or nothing.
TypeOK ==
  /\ feed \in 0 .. MaxFeed /\ reference \in 0 .. MaxReference
  /\ fullDue \in BOOLEAN /\ waited \in BOOLEAN
  /\ saved \in Inputs /\ index \in Nat
  /\ remaining \in SUBSET DerivedStages /\ unconditional \in BOOLEAN
  /\ marker \in BOOLEAN
  /\ published \in Inputs \cup {NoPublication}
  /\ geography \in Nat /\ score \in Inputs
  /\ kmz \in Outputs /\ reports \in Outputs
  /\ owed \in BOOLEAN /\ interruptions \in 0 .. MaxInterruptions
  /\ pc \in Steps /\ request \in Request /\ stage \in Stages
  /\ previous \in Work
  /\ deferred \in BOOLEAN /\ changed \in BOOLEAN /\ full \in BOOLEAN
  /\ frozen \in Inputs \cup {NoPublication}
-----------------------------------------------------------------------------
(* Safety.                                                                 *)

\* The histories, scores and KMZ either reflect every saved input, or durable
\* state still says so: the stage is required or the deferral marker stands.
\* It holds between any two steps, so whatever interrupts the writer, later
\* invocations know what is out of date (run_fetch_stage, complete_stage).
WorkCovered ==
  /\ geography # saved.fire => Geography \in remaining \/ marker
  /\ score # saved => Score \in remaining \/ marker
  /\ kmz.fire # saved.fire \/ kmz.ext # saved.ext => Kmz \in remaining \/ marker

\* A checkpoint that counts acknowledges exactly the snapshots and reference
\* data the current KMZ was built from, never ones that arrived later or that
\* a stale prerequisite kept out of it (publication.commit, read_publication).
CheckpointHonest ==
  published # NoPublication =>
    published.fire = kmz.fire /\ published.ext = kmz.ext

\* Once fetch_state.json says that a full fetch is done, the unconditional
\* rebuild it demands stays required until geography was forced, through
\* crashes, gate policies and partial ranges (fetch_fire_sources).
FullFetchRebuilt == owed => unconditional /\ Geography \in remaining
-----------------------------------------------------------------------------
(* What the documentation says of every policy; the code breaks these.     *)

\* The index a KMZ lists its fires from: nothing deferred or required means
\* that the KMZ was written with an index of every saved snapshot.
IndexCovered ==
  pc = "idle" /\ remaining = {} /\ ~ marker => kmz.index = saved.fire

\* Nothing deferred or required means that the reports reflect every saved
\* snapshot too.
ReportsCovered ==
  pc = "idle" /\ remaining = {} /\ ~ marker => reports.fire = saved.fire
-----------------------------------------------------------------------------
(* Liveness.  A started invocation keeps running (its failures are bounded *)
(* by MaxInterruptions), time passes, and the scheduler starts the service *)
(* again after every exit: systemd restarts the production invocation.     *)
(* Other commands may hold the lease meanwhile, hence strong fairness.     *)

Scheduled(r) == r.start = Fetch /\ r.end = Reports

Fairness == /\ WF_vars(Progress)
            /\ SF_vars(\E r \in Requests : Scheduled(r) /\ Begin(r))
            /\ WF_vars(PublicationFallsDue)

FairSpec == Spec /\ Fairness

Shows(output, v) == output.fire >= v /\ output.index >= v

\* Whatever the feeds serve, the KMZ and the reports come to show it or what
\* replaced it, however often the gate defers it and whatever is interrupted.
UpdatesArePublished ==
  \A v \in 1 .. MaxFeed : feed >= v ~> Shows(kmz, v) /\ Shows(reports, v)

\* The same for evacuations and cities.
ReferencesArePublished ==
  \A v \in 1 .. MaxReference : reference >= v ~> kmz.ext >= v /\ reports.ext >= v
=============================================================================
