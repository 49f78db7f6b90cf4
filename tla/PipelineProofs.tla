--------------------------- MODULE PipelineProofs ---------------------------
(* Proofs about Pipeline for every request set and every bound.            *)
EXTENDS Pipeline, TLAPS

\* Versions only move on, and no output is ahead of what it was built from.
Ordered ==
  /\ saved.fire <= feed /\ saved.ext <= reference
  /\ kmz.fire <= score.fire /\ score.fire <= geography /\ geography <= saved.fire
  /\ kmz.ext <= score.ext /\ score.ext <= saved.ext

\* WorkCovered for a set of requirements that may become current again.
Covers(work) ==
  /\ geography # saved.fire => Geography \in work
  /\ score # saved => Score \in work
  /\ kmz.fire # saved.fire \/ kmz.ext # saved.ext => Kmz \in work

Owes(work) == work.unconditional /\ Geography \in work.remaining

BeforeFetch == {"clear", "plan", "feeds"}
AfterFetch  == {"index", "stamp", "externals", "settle"}

\* The policy of the fetch at each of its steps, and the intent it has saved.
FetchIntent ==
  /\ pc \in {"record", "clear", "settle"} => ~ request.gated
  /\ pc \in {"defer", "references", "gate", "accepted"} => request.gated
  /\ pc \in {"plan", "feeds", "references", "gate", "accepted"} /\ request.gated
       => marker
  /\ pc \in BeforeFetch \cup AfterFetch /\ ~ request.gated
       => DerivedStages \subseteq remaining
  /\ pc \in {"accepted", "validate", "compare"} \cup AfterFetch
       => DerivedStages \subseteq remaining
  /\ pc \in {"feeds", "references", "gate", "accepted"} \cup AfterFetch /\ full
       => unconditional /\ DerivedStages \subseteq remaining
  /\ pc = "stamp" => full

\* The requirements a fetch may restore still say what was out of date before.
RestoreSafe ==
  /\ pc \in BeforeFetch /\ ~ request.gated /\ ~ deferred
       => Covers(previous.remaining)
  /\ pc \in AfterFetch /\ ~ request.gated /\ ~ deferred /\ ~ changed
       => Covers(previous.remaining)
  /\ pc = "validate" /\ ~ marker => Covers(previous.remaining)
  /\ pc = "compare" /\ ~ marker /\ ~ changed => Covers(previous.remaining)
  /\ pc \in {"clear", "plan", "validate", "compare"} \/ (pc = "feeds" /\ ~ full)
       => request.gated \/ (owed => Owes(previous))
  /\ pc \in AfterFetch /\ ~ full
       => request.gated \/ (owed => Owes(previous))

\* A stage that ran left its output built from what is there now.
StageDone ==
  pc \in {"collect", "commit", "complete"} =>
    /\ stage = Geography => geography = saved.fire /\ ~ owed
    /\ stage = Score => score = [fire |-> geography, ext |-> saved.ext]
    /\ stage = Kmz => /\ kmz.fire = Oldest(geography, score.fire)
                      /\ kmz.ext = Oldest(score.ext, saved.ext)

\* The frozen inventory is what the later stages of the invocation are built from.
FrozenExact ==
  /\ pc = "collect" => stage = Geography
  /\ pc \notin {"stage", "collect", "complete", "commit"} => frozen = NoPublication
  /\ pc = "collect" => geography = saved.fire
  /\ frozen # NoPublication =>
       /\ frozen = saved /\ geography = saved.fire
       /\ stage >= Geography
       /\ stage > Score \/ (stage = Score /\ pc = "complete") => score = saved
  /\ pc = "commit" => /\ frozen # NoPublication /\ stage = Kmz
                      /\ kmz.fire = saved.fire /\ kmz.ext = saved.ext

\* No step of validation runs under a request.
ValidationAlone == pc \in {"idle", "validate", "compare"} => request = NoRequest

IInv == /\ TypeOK /\ Ordered /\ WorkCovered /\ CheckpointHonest
        /\ FullFetchRebuilt /\ FetchIntent /\ RestoreSafe /\ StageDone
        /\ FrozenExact /\ ValidationAlone
-----------------------------------------------------------------------------
(* Types.                                                                  *)

ControlType == pc \in Steps /\ request \in Request /\ stage \in Stages

LocalsType == /\ previous \in Work
              /\ deferred \in BOOLEAN /\ changed \in BOOLEAN /\ full \in BOOLEAN
              /\ frozen \in Inputs \cup {NoPublication}

LEMMA StageNumbers ==
  /\ DerivedStages = {1, 2, 3, 4} /\ Stages = {0, 1, 2, 3, 4}
BY DEF DerivedStages, Stages, Fetch, Geography, Reports

LEMMA NoRequestType == NoRequest \in Request /\ NoWork \in Work
BY StageNumbers DEF NoRequest, Request, NoWork, Work, Fetch

LEMMA StopType == Stop => ControlType' /\ LocalsType'
<1> SUFFICES ASSUME Stop PROVE ControlType' /\ LocalsType'
  OBVIOUS
<1>1. ControlType'
  BY NoRequestType, StageNumbers DEF Stop, ControlType, Steps, Fetch
<1>2. LocalsType'
  BY NoRequestType DEF Stop, ForgetLocals, LocalsType
<1> QED
  BY <1>1, <1>2

LEMMA AdvanceType == TypeOK /\ Advance => ControlType' /\ LocalsType'
<1> SUFFICES ASSUME TypeOK, Advance PROVE ControlType' /\ LocalsType'
  OBVIOUS
<1>1. CASE stage < request.end
  <2>1. request.end \in Stages
    BY DEF TypeOK, Request
  <2>2. stage + 1 \in Stages
    BY <1>1, <2>1, StageNumbers DEF TypeOK
  <2> QED
    BY <1>1, <2>2 DEF Advance, TypeOK, ControlType, LocalsType, Steps, locals
<1>2. CASE ~ (stage < request.end)
  BY <1>2, StopType DEF Advance
<1> QED
  BY <1>1, <1>2

LEMMA RequireType ==
  ASSUME TypeOK, NEW stages \in SUBSET DerivedStages, NEW force \in BOOLEAN,
         Require(stages, force)
  PROVE  remaining' \in SUBSET DerivedStages /\ unconditional' \in BOOLEAN
BY DEF TypeOK, Require

LEMMA InitType == Init => TypeOK
<1> SUFFICES ASSUME Init PROVE TypeOK
  OBVIOUS
<1>1. Start \in Inputs /\ kmz \in Outputs /\ reports \in Outputs
  BY DEF Init, Start, Inputs, Outputs
<1>2. feed \in 0 .. MaxFeed /\ reference \in 0 .. MaxReference
      /\ interruptions \in 0 .. MaxInterruptions
  BY BoundsAssumption DEF Init
<1>3. ControlType /\ LocalsType
  BY NoRequestType, StageNumbers DEF Init, ControlType, LocalsType, Steps, Fetch
<1>4. saved \in Inputs /\ score \in Inputs /\ index \in Nat /\ geography \in Nat
  BY <1>1 DEF Init
<1>5. fullDue \in BOOLEAN /\ waited \in BOOLEAN /\ unconditional \in BOOLEAN
      /\ marker \in BOOLEAN /\ owed \in BOOLEAN /\ remaining = {}
      /\ published = NoPublication
  BY DEF Init
<1> QED
  BY <1>1, <1>2, <1>3, <1>4, <1>5 DEF TypeOK, ControlType, LocalsType

LEMMA NextType == TypeOK /\ [Next]_vars => TypeOK'
<1> SUFFICES ASSUME TypeOK, [Next]_vars PROVE TypeOK'
  OBVIOUS
<1> USE DEF TypeOK
<1>1. CASE RecordWork
  <2>1. remaining' \in SUBSET DerivedStages /\ unconditional' \in BOOLEAN
    BY <1>1, RequireType DEF RecordWork
  <2>2. previous' \in Work /\ deferred' \in BOOLEAN
    BY <1>1 DEF RecordWork, Work
  <2> QED
    BY <1>1, <2>1, <2>2 DEF RecordWork, Goto, Steps, remote, sources, intent, outputs, history, control, locals
<1>2. CASE DeferInputs
  BY <1>2 DEF DeferInputs, Goto, Steps, remote, sources, intent, outputs, history, control, locals
<1>3. CASE ClearMarker
  BY <1>3 DEF ClearMarker, Goto, Steps, remote, sources, intent, outputs, history, control, locals
<1>4. CASE PlanFetch
  <2>1. full' \in BOOLEAN
    BY <1>4 DEF PlanFetch
  <2>2. remaining' \in SUBSET DerivedStages /\ unconditional' \in BOOLEAN
    BY <1>4, RequireType DEF PlanFetch
  <2> QED
    BY <1>4, <2>1, <2>2 DEF PlanFetch, Goto, Steps, remote, sources, intent, outputs, history, control, locals
<1>5. CASE FetchFeeds
  <2>1. saved' \in Inputs /\ changed' \in BOOLEAN
    BY <1>5, BoundsAssumption DEF FetchFeeds, Inputs
  <2> QED
    BY <1>5, <2>1 DEF FetchFeeds, Goto, Steps, remote, sources, intent, outputs, history, control, locals
<1>6. CASE BuildIndex
  <2>1. index' \in Nat
    BY <1>6 DEF BuildIndex, Inputs
  <2> QED
    BY <1>6, <2>1 DEF BuildIndex, Goto, Steps, remote, sources, intent, outputs, history, control, locals
<1>7. CASE StampFullFetch
  BY <1>7 DEF StampFullFetch, Goto, Steps, remote, sources, intent, outputs, history, control, locals
<1>8. CASE FetchReferences
  <2>1. saved' \in Inputs
    BY <1>8, BoundsAssumption DEF FetchReferences, Inputs
  <2> QED
    BY <1>8, <2>1 DEF FetchReferences, Goto, Steps, remote, sources, intent, outputs, history, control, locals
<1>9. CASE RefreshExternals
  <2>1. saved' \in Inputs /\ changed' \in BOOLEAN
    BY <1>9, BoundsAssumption DEF RefreshExternals, Inputs
  <2> QED
    BY <1>9, <2>1 DEF RefreshExternals, Goto, Steps, remote, sources, intent, outputs, history, control, locals
<1>10. CASE RefreshOthers
  <2>1. ControlType' /\ LocalsType'
    BY <1>10, AdvanceType DEF RefreshOthers
  <2> QED
    BY <1>10, <2>1 DEF RefreshOthers, ControlType, LocalsType, remote, sources, intent, outputs, history, control, locals
<1>11. CASE Settle
  <2>1. ControlType' /\ LocalsType'
    BY <1>11, AdvanceType, StopType DEF Settle
  <2>2. remaining' \in SUBSET DerivedStages /\ unconditional' \in BOOLEAN
    BY <1>11 DEF Settle, Work
  <2> QED
    BY <1>11, <2>1, <2>2 DEF Settle, ControlType, LocalsType, remote, sources, intent, outputs, history, control, locals
<1>12. CASE GateAccepts
  <2>1. remaining' \in SUBSET DerivedStages /\ unconditional' \in BOOLEAN
    BY <1>12, RequireType DEF GateAccepts
  <2> QED
    BY <1>12, <2>1 DEF GateAccepts, Goto, Steps, remote, sources, intent, outputs, history, control, locals
<1>13. CASE GateSkips
  <2>1. ControlType' /\ LocalsType'
    BY <1>13, StopType DEF GateSkips
  <2> QED
    BY <1>13, <2>1 DEF GateSkips, ControlType, LocalsType, remote, sources, intent, outputs, history, control, locals
<1>14. CASE RunGeography
  <2>1. geography' \in Nat /\ index' \in Nat /\ owed' \in BOOLEAN
    BY <1>14 DEF RunGeography, Inputs
  <2> QED
    BY <1>14, <2>1 DEF RunGeography, Goto, Steps, remote, sources, intent, outputs, history, control, locals
<1>15. CASE CollectInputs
  BY <1>15 DEF CollectInputs, Goto, Steps, remote, sources, intent, outputs, history, control, locals
<1>16. CASE RunScore
  <2>1. score' \in Inputs
    BY <1>16 DEF RunScore, Inputs
  <2> QED
    BY <1>16, <2>1 DEF RunScore, Goto, Steps, remote, sources, intent, outputs, history, control, locals
<1>17. CASE WriteKmz
  <2>1. kmz' \in Outputs
    BY <1>17 DEF WriteKmz, Rendered, Oldest, Inputs, Outputs
  <2> QED
    BY <1>17, <2>1 DEF WriteKmz, Goto, Steps, remote, sources, intent, outputs, history, control, locals
<1>18. CASE CommitPublication
  <2> QED
    BY <1>18 DEF CommitPublication, Goto, Steps, remote, sources, intent, outputs, history, control, locals
<1>19. CASE RunReports
  <2>1. reports' \in Outputs
    BY <1>19 DEF RunReports, Rendered, Oldest, Inputs, Outputs
  <2> QED
    BY <1>19, <2>1 DEF RunReports, Goto, Steps, remote, sources, intent, outputs, history, control, locals
<1>20. CASE CompleteStage
  <2>1. ControlType' /\ LocalsType'
    BY <1>20, AdvanceType DEF CompleteStage
  <2>2. remaining' \in SUBSET DerivedStages /\ unconditional' \in BOOLEAN
    BY <1>20 DEF CompleteStage
  <2> QED
    BY <1>20, <2>1, <2>2 DEF CompleteStage, ControlType, LocalsType, remote, sources, intent, outputs, history, control, locals
<1>21. CASE FinishValidation
  <2>1. ControlType' /\ LocalsType'
    BY <1>21, StopType DEF FinishValidation
  <2>2. remaining' \in SUBSET DerivedStages /\ unconditional' \in BOOLEAN /\ index' \in Nat
    BY <1>21 DEF FinishValidation, Work, Inputs
  <2> QED
    BY <1>21, <2>1, <2>2 DEF FinishValidation, ControlType, LocalsType, remote, sources, intent, outputs, history, control, locals
<1>22. CASE Crash
  <2>1. ControlType' /\ LocalsType'
    BY <1>22, StopType DEF Crash
  <2>2. interruptions' \in 0 .. MaxInterruptions
    BY <1>22, BoundsAssumption DEF Crash, Interrupted
  <2> QED
    BY <1>22, <2>1, <2>2 DEF Crash, ControlType, LocalsType, remote, sources, intent, outputs, history, control, locals
<1>23. CASE PartialFetch
  <2>1. ControlType' /\ LocalsType'
    BY <1>23, StopType DEF PartialFetch
  <2>2. interruptions' \in 0 .. MaxInterruptions
    BY <1>23, BoundsAssumption DEF PartialFetch, Interrupted
  <2>3. saved' \in Inputs
    BY <1>23, BoundsAssumption DEF PartialFetch, Inputs
  <2> QED
    BY <1>23, <2>1, <2>2, <2>3 DEF PartialFetch, ControlType, LocalsType, remote, sources, intent, outputs, history, control, locals
<1>24. CASE FailFetch
  <2>1. ControlType' /\ LocalsType'
    BY <1>24, StopType DEF FailFetch
  <2>2. interruptions' \in 0 .. MaxInterruptions
    BY <1>24, BoundsAssumption DEF FailFetch, Interrupted
  <2>3. saved' \in Inputs /\ index' \in Nat
    BY <1>24, BoundsAssumption DEF FailFetch, sources, Inputs
  <2>4. remaining' \in SUBSET DerivedStages /\ unconditional' \in BOOLEAN
    BY <1>24, RequireType DEF FailFetch
  <2> QED
    BY <1>24, <2>1, <2>2, <2>3, <2>4 DEF FailFetch, ControlType, LocalsType, remote, sources, intent, outputs, history, control, locals
<1>25. CASE LoseRunState
  <2>1. interruptions' \in 0 .. MaxInterruptions
    BY <1>25, BoundsAssumption DEF LoseRunState, Interrupted
  <2> QED
    BY <1>25, <2>1 DEF LoseRunState, remote, sources, intent, outputs, history, control, locals
<1>26. CASE FeedAdvances
  BY <1>26, BoundsAssumption DEF FeedAdvances, remote, sources, intent, outputs, history, control, locals
<1>27. CASE ReferenceAdvances
  BY <1>27, BoundsAssumption DEF ReferenceAdvances, remote, sources, intent, outputs, history, control, locals
<1>28. CASE FullFetchFallsDue
  BY <1>28 DEF FullFetchFallsDue, remote, sources, intent, outputs, history, control, locals
<1>29. CASE PublicationFallsDue
  BY <1>29 DEF PublicationFallsDue, remote, sources, intent, outputs, history, control, locals
<1>30. ASSUME NEW r \in Requests, Begin(r) PROVE TypeOK'
  <2>1. r \in Request
    BY RequestsAssumption
  <2>2. Selected(r) \in SUBSET DerivedStages
    BY DEF Selected
  <2>3. (r.unconditional /\ Selected(r) # {}) \in BOOLEAN
    BY <2>1 DEF Request
  <2>4. remaining' \in SUBSET DerivedStages /\ unconditional' \in BOOLEAN
    BY <1>30, <2>2, <2>3, RequireType DEF Begin
  <2>5. request' \in Request /\ stage' \in Stages /\ pc' \in Steps
    BY <1>30, <2>1 DEF Begin, Request, FirstStep, Steps
  <2> QED
    BY <1>30, <2>4, <2>5 DEF Begin, remote, sources, intent, outputs, history, control, locals
<1>31. CASE BeginValidation
  <2>1. remaining' \in SUBSET DerivedStages /\ unconditional' \in BOOLEAN
    BY <1>31, RequireType DEF BeginValidation
  <2>2. previous' \in Work
    BY <1>31 DEF BeginValidation, Work
  <2> QED
    BY <1>31, <2>1, <2>2 DEF BeginValidation, Goto, Steps, remote, sources, intent, outputs, history, control, locals
<1>32. CASE UNCHANGED vars
  BY <1>32 DEF vars, remote, sources, intent, outputs, history, control, locals
<1> QED
  BY <1>1, <1>2, <1>3, <1>4, <1>5, <1>6, <1>7, <1>8, <1>9, <1>10, <1>11, <1>12, <1>13, <1>14, <1>15, <1>16, <1>17, <1>18, <1>19, <1>20, <1>21, <1>22, <1>23, <1>24, <1>25, <1>26, <1>27, <1>28, <1>29, <1>30, <1>31, <1>32 DEF Next, Progress, FetchStep, StageStep, Invoke, Failure, Environment
-----------------------------------------------------------------------------
(* The inductive invariant.                                                *)

LEMMA InitInvariant == Init => IInv
<1> SUFFICES ASSUME Init PROVE IInv
  OBVIOUS
<1>1. TypeOK
  BY InitType
<1>2. Ordered /\ WorkCovered /\ CheckpointHonest /\ FullFetchRebuilt
  BY DEF Init, Start, Ordered, WorkCovered, CheckpointHonest, FullFetchRebuilt
<1>3. FetchIntent /\ RestoreSafe /\ StageDone /\ FrozenExact /\ ValidationAlone
  BY DEF Init, FetchIntent, RestoreSafe, StageDone, FrozenExact, ValidationAlone,
         BeforeFetch, AfterFetch
<1> QED
  BY <1>1, <1>2, <1>3 DEF IInv

LEMMA NextInvariant == IInv /\ [Next]_vars => IInv'
<1> SUFFICES ASSUME IInv, [Next]_vars PROVE IInv'
  OBVIOUS
<1>type. TypeOK'
  BY NextType DEF IInv
<1> USE StageNumbers, NoPublicationAssumption
    DEF IInv, TypeOK, Ordered, WorkCovered, CheckpointHonest, FullFetchRebuilt,
        FetchIntent, RestoreSafe, StageDone, FrozenExact, ValidationAlone,
        remote, sources, intent, outputs, history, control, locals,
        Goto, Require, BeforeFetch, AfterFetch, Covers, Owes,
        Fetch, Geography, Score, Kmz, Reports
\* Fetching: what is recorded before sources change, and what may be restored.
<1>1. CASE RecordWork
  BY <1>1, <1>type DEF RecordWork, Work
<1>2. CASE DeferInputs
  BY <1>2, <1>type DEF DeferInputs
<1>3. CASE ClearMarker
  BY <1>3, <1>type DEF ClearMarker
<1>4. CASE PlanFetch
  BY <1>4, <1>type DEF PlanFetch
<1>5. CASE FetchFeeds
  <2>1. saved'.fire = feed /\ saved'.ext = saved.ext
    BY <1>5 DEF FetchFeeds, Inputs
  <2>2. ~ changed' => saved' = saved
    BY <1>5 DEF FetchFeeds, Inputs
  <2>3. Ordered'
    BY <1>5, <2>1 DEF FetchFeeds, Inputs
  <2>4. WorkCovered'
    BY <1>5, <2>1, <2>2 DEF FetchFeeds
  <2>5. RestoreSafe'
    <3>1. ~ changed' /\ Covers(previous.remaining) => Covers(previous.remaining)'
      BY <1>5, <2>2 DEF FetchFeeds
    <3> QED
      BY <1>5, <3>1 DEF FetchFeeds
  <2>6. CheckpointHonest' /\ FullFetchRebuilt' /\ FetchIntent' /\ StageDone'
        /\ FrozenExact' /\ ValidationAlone'
    BY <1>5 DEF FetchFeeds
  <2> QED
    BY <1>type, <2>3, <2>4, <2>5, <2>6
<1>6. CASE BuildIndex
  BY <1>6, <1>type DEF BuildIndex
<1>7. CASE StampFullFetch
  BY <1>7, <1>type DEF StampFullFetch
<1>8. CASE FetchReferences
  BY <1>8, <1>type DEF FetchReferences, Inputs
<1>9. CASE RefreshExternals
  <2>1. saved'.ext = reference /\ saved'.fire = saved.fire
    BY <1>9 DEF RefreshExternals, Inputs
  <2>2. ~ changed' => ~ changed /\ saved' = saved
    BY <1>9 DEF RefreshExternals, Inputs
  <2>3. Ordered'
    BY <1>9, <2>1 DEF RefreshExternals, Inputs
  <2>4. WorkCovered'
    BY <1>9, <2>1, <2>2 DEF RefreshExternals
  <2>5. RestoreSafe'
    <3>1. ~ changed' /\ Covers(previous.remaining) => Covers(previous.remaining)'
      BY <1>9, <2>2 DEF RefreshExternals
    <3> QED
      BY <1>9, <2>2, <3>1 DEF RefreshExternals
  <2>6. CheckpointHonest' /\ FullFetchRebuilt' /\ FetchIntent' /\ StageDone'
        /\ FrozenExact' /\ ValidationAlone'
    BY <1>9 DEF RefreshExternals
  <2> QED
    BY <1>type, <2>3, <2>4, <2>5, <2>6
<1>10. CASE RefreshOthers
  BY <1>10, <1>type DEF RefreshOthers, Advance, Stop, ForgetLocals, NoRequest
<1>11. CASE Settle
  BY <1>11, <1>type DEF Settle, Advance, Stop, ForgetLocals, NoRequest
\* The gate: it may skip only what the checkpoint or the marker accounts for.
<1>12. CASE GateAccepts
  BY <1>12, <1>type DEF GateAccepts
<1>13. CASE GateSkips
  BY <1>13, <1>type DEF GateSkips, Overrides, MayDefer, MustPublish, NoUnpublishedInputs, Inputs, Outputs, Stop, ForgetLocals, NoRequest
\* The derived stages: only the first remaining one can be acknowledged.
<1>14. CASE RunGeography
  <2>1. ~ owed'
    BY <1>14 DEF RunGeography, Forced
  <2>2. Ordered' /\ WorkCovered' /\ CheckpointHonest' /\ FullFetchRebuilt'
    BY <1>14, <2>1 DEF RunGeography, Inputs
  <2>3. StageDone' /\ FrozenExact'
    BY <1>14, <2>1 DEF RunGeography
  <2>4. FetchIntent' /\ RestoreSafe' /\ ValidationAlone'
    BY <1>14 DEF RunGeography
  <2> QED
    BY <1>type, <2>2, <2>3, <2>4
<1>15. CASE CollectInputs
  BY <1>15, <1>type DEF CollectInputs
<1>16. CASE RunScore
  BY <1>16, <1>type DEF RunScore, Inputs, Outputs
<1>17. CASE WriteKmz
  BY <1>17, <1>type DEF WriteKmz, Rendered, Oldest, Inputs, Outputs
<1>18. CASE CommitPublication
  BY <1>18, <1>type DEF CommitPublication
<1>19. CASE RunReports
  BY <1>19, <1>type DEF RunReports
<1>20. CASE CompleteStage
  BY <1>20, <1>type DEF CompleteStage, IsFirst, Oldest, Inputs, Outputs, Advance, Stop, ForgetLocals, NoRequest
\* Validation, failures and the world.
<1>21. CASE BeginValidation
  BY <1>21, <1>type DEF BeginValidation, Work
<1>22. CASE FinishValidation
  BY <1>22, <1>type DEF FinishValidation, Stop, ForgetLocals, NoRequest
<1>23. CASE Crash
  BY <1>23, <1>type DEF Crash, Stop, ForgetLocals, NoRequest
<1>24. CASE PartialFetch
  BY <1>24, <1>type DEF PartialFetch, Inputs, Stop, ForgetLocals, NoRequest
<1>25. CASE FailFetch
  BY <1>25, <1>type DEF FailFetch, Inputs, Stop, ForgetLocals, NoRequest
<1>26. CASE LoseRunState
  BY <1>26, <1>type DEF LoseRunState
<1>27. CASE FeedAdvances
  BY <1>27, <1>type, BoundsAssumption DEF FeedAdvances, Inputs
<1>28. CASE ReferenceAdvances
  BY <1>28, <1>type, BoundsAssumption DEF ReferenceAdvances, Inputs
<1>29. CASE FullFetchFallsDue
  BY <1>29, <1>type, BoundsAssumption DEF FullFetchFallsDue, Inputs
<1>30. CASE PublicationFallsDue
  BY <1>30, <1>type, BoundsAssumption DEF PublicationFallsDue, Inputs
<1>31. ASSUME NEW r \in Requests, Begin(r) PROVE IInv'
  BY <1>31, <1>type, RequestsAssumption
     DEF Begin, Selected, FirstStep, Request, NoRequest
<1>32. CASE UNCHANGED vars
  BY <1>32 DEF vars
<1> QED
  BY <1>1, <1>2, <1>3, <1>4, <1>5, <1>6, <1>7, <1>8, <1>9, <1>10, <1>11, <1>12, <1>13, <1>14, <1>15,
     <1>16, <1>17, <1>18, <1>19, <1>20, <1>21, <1>22, <1>23, <1>24, <1>25, <1>26, <1>27, <1>28, <1>29, <1>30, <1>31, <1>32
  DEF Next, Progress, FetchStep, StageStep, Invoke, Failure, Environment

-----------------------------------------------------------------------------
(* Theorems.                                                               *)

\* Every reachable state has the types of TypeOK, for any bounds and requests.
THEOREM TypeCorrect == Spec => []TypeOK
<1>1. Init => TypeOK
  BY InitType
<1>2. TypeOK /\ [Next]_vars => TypeOK'
  BY NextType
<1> QED
  BY <1>1, <1>2, PTL DEF Spec

LEMMA Invariant == Spec => []IInv
<1>1. Init => IInv
  BY InitInvariant
<1>2. IInv /\ [Next]_vars => IInv'
  BY NextInvariant
<1> QED
  BY <1>1, <1>2, PTL DEF Spec

\* No invocation, policy change or interruption makes the pipeline forget that
\* histories, scores or KMZ are behind the saved inputs (run_fetch_stage,
\* run_gated_fetch_stage, complete_stage).
THEOREM WorkNeverForgotten == Spec => []WorkCovered
<1>1. IInv => WorkCovered
  BY DEF IInv
<1> QED
  BY <1>1, Invariant, PTL

\* A checkpoint that matches the KMZ acknowledges exactly what the KMZ was
\* built from (publication.commit after run_selected_stages froze the inputs).
THEOREM CheckpointNeverLies == Spec => []CheckpointHonest
<1>1. IInv => CheckpointHonest
  BY DEF IInv
<1> QED
  BY <1>1, Invariant, PTL

\* An acknowledged full fetch keeps its forced rebuild required until geography
\* was forced (fetch_fire_sources, complete_stage).
THEOREM FullFetchNeverDropped == Spec => []FullFetchRebuilt
<1>1. IInv => FullFetchRebuilt
  BY DEF IInv
<1> QED
  BY <1>1, Invariant, PTL
=============================================================================
