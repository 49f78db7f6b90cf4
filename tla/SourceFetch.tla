---------------------------- MODULE SourceFetch ----------------------------
(***************************************************************************)
(* One feed's collection (sources/fetching.py, fetch_feed_snapshot): the   *)
(* layer's last-edit time decides whether to look, separate remote queries *)
(* find the candidate rows, what is new becomes one more snapshot file,    *)
(* and a current-state file caches the latest row of every feature.  The   *)
(* provider edits its layer between any two of these steps, a query may    *)
(* fail for good after its retries, and the process may die anywhere.      *)
(* Feeds own disjoint directories and connections, so one is enough; the   *)
(* year lease keeps a second collector out.  Simplifications:              *)
(*  - A row is the edit that gave it its content (`at`), its change column *)
(*    (0 when missing; feeds with several are taken as one), its status.   *)
(*  - The provider's clock counts its edits, and the layer's last-edit     *)
(*    time advances with each, the assumption fetch_all_feeds states.      *)
(*  - A fetch has its last answer within Overlap of its metadata check.    *)
(*  - A snapshot's serial is its position, from 1 (the code's is from 0).  *)
(***************************************************************************)
EXTENDS Naturals, Sequences, FiniteSetsExt, Functions

CONSTANTS Feature,     \* OBJECTIDs
          Overlap,     \* changes.OVERLAP, in edits
          MaxEdits,    \* bound on the provider's clock
          Absent       \* a feature the layer does not hold

Rows == [at: 1..MaxEdits, modified: 0..MaxEdits, active: BOOLEAN]

ASSUME AbsentAssumption == Absent \notin Rows
ASSUME BoundsAssumption == Overlap \in Nat /\ MaxEdits \in Nat \ {0}

VARIABLES
  layer,      \* the provider's rows
  clock,      \* the provider's last-edit time
  snapshots,  \* the snapshot files in serial order: [stamp, rows]
  caches,     \* the state-<serial>.gpkg files: the rows of each serial
  pc,         \* the next step of the fetch
  full,       \* its `full`
  observed,   \* its last_edit_timestamp
  existing,   \* what read_current_features returned
  candidates, \* the object ids found so far
  found,      \* the rows to store
  outcome     \* of the last fetch

provider == <<layer, clock>>
store    == <<snapshots, caches>>
locals   == <<full, observed, existing, candidates, found>>
vars == <<provider, store, pc, locals, outcome>>

NoRows == [f \in {} |-> Absent]

\* The rows of a file, by OBJECTID.
IsTable(t) == DOMAIN t \subseteq Feature /\ t \in [DOMAIN t -> Rows]

\* latest_features_by_object_id: a later table's row supersedes an earlier one.
Latest(tables) ==
  LET holding(f) == {i \in DOMAIN tables : f \in DOMAIN tables[i]}
  IN [f \in {g \in Feature : holding(g) # {}} |-> tables[Max(holding(f))][f]]

\* existing_features: every stored snapshot, in serial order.
Stored == Latest([i \in DOMAIN snapshots |-> snapshots[i].rows])

Newest == Len(snapshots)

Live == {f \in Feature : layer[f] # Absent}

FirstRow == [at |-> 1, modified |-> 1, active |-> TRUE]

\* A new feed: its layer holds a row, its directory nothing.
Init ==
  /\ clock = 1
  /\ \E f \in Feature : layer = [g \in Feature |-> IF g = f THEN FirstRow ELSE Absent]
  /\ snapshots = << >> /\ caches = NoRows
  /\ pc = "idle" /\ outcome = "open"
  /\ full = FALSE /\ observed = 0 /\ existing = NoRows
  /\ candidates = {} /\ found = NoRows
-----------------------------------------------------------------------------
(* The provider.                                                           *)

Querying == pc \in {"read", "changed", "ids", "flips", "features"}

\* The change times an edit may leave: its own, the one the row had, and for a new
\* row an old one or none.
ChangeTimes(f) ==
  {clock + 1} \cup IF layer[f] = Absent THEN {0, 1} ELSE {layer[f].modified}

Edit(f) ==
  /\ clock < MaxEdits
  /\ Querying => clock < observed + Overlap
  /\ clock' = clock + 1
  /\ \/ \E modified \in ChangeTimes(f), active \in BOOLEAN :
          layer' = [layer EXCEPT ![f] =
                      [at |-> clock + 1, modified |-> modified, active |-> active]]
     \/ layer[f] # Absent /\ layer' = [layer EXCEPT ![f] = Absent]
  /\ UNCHANGED <<store, pc, locals, outcome>>
-----------------------------------------------------------------------------
(* The fetch.                                                              *)

\* The call returns (or dies) and its locals are gone.
Return(how) ==
  /\ pc' = "idle" /\ outcome' = how
  /\ full' = FALSE /\ observed' = 0 /\ existing' = NoRows
  /\ candidates' = {} /\ found' = NoRows

\* current_last_edit_timestamp; the first thing a fetch does.
Observe ==
  /\ pc = "idle"
  /\ full' \in BOOLEAN
  /\ observed' = clock /\ pc' = "read" /\ outcome' = "open"
  /\ UNCHANGED <<provider, store, existing, candidates, found>>

\* snapshot_path_for_last_edit_timestamp finds a file.
Present == \E i \in DOMAIN snapshots : snapshots[i].stamp = observed

Skip ==
  /\ pc = "read" /\ ~full /\ Present
  /\ Return("completed")
  /\ UNCHANGED <<provider, store>>

\* The table of the newest state file, if that covers one of the serials.
CachedAt(serials) ==
  {caches[s] : s \in {t \in serials \cap DOMAIN caches : \A u \in DOMAIN caches : u <= t}}

\* Mutant: a cache that covers any earlier snapshot is read too.
ReadAnyCache == CachedAt(DOMAIN caches) \cup {Stored}

\* What read_current_features may return: the newest state file when it covers
\* exactly the newest snapshot, the snapshots when it does not or cannot be read.
CurrentFeatures == CachedAt({Newest}) \cup {Stored}

ReadStored ==
  /\ pc = "read" /\ (full \/ ~Present)
  /\ existing' \in CurrentFeatures
  /\ pc' = IF snapshots = << >> \/ full THEN "features" ELSE "changed"
  /\ UNCHANGED <<provider, store, full, observed, candidates, found, outcome>>

\* Mutant: the cutoff is the latest stored change time itself.
CutoffWithoutOverlap == Max({0} \cup {existing[f].modified : f \in DOMAIN existing})

\* incremental_cutoff.
Cutoff ==
  LET latest == Max({0} \cup {existing[f].modified : f \in DOMAIN existing})
  IN IF latest > Overlap THEN latest - Overlap ELSE 0

\* The ids changed since the cutoff, or without a change time.
QueryChanged ==
  /\ pc = "changed"
  /\ candidates' = {f \in Live : layer[f].modified >= Cutoff \/ layer[f].modified = 0}
  /\ pc' = "ids"
  /\ UNCHANGED <<provider, store, full, observed, existing, found, outcome>>

\* The ids never stored.
QueryIds ==
  /\ pc = "ids"
  /\ candidates' = candidates \cup (Live \ DOMAIN existing)
  /\ pc' = "flips"
  /\ UNCHANGED <<provider, store, full, observed, existing, found,
                 outcome>>

\* The stored-active ids the layer calls inactive, once an inactive status is known.
Flipped ==
  IF \E f \in DOMAIN existing : ~existing[f].active
  THEN {f \in Live \cap DOMAIN existing : existing[f].active /\ ~layer[f].active}
  ELSE {}

QueryFlipped ==
  /\ pc = "flips"
  /\ \/ /\ candidates \cup Flipped = {}
        /\ Return("completed")
     \/ /\ candidates \cup Flipped # {}
        /\ candidates' = candidates \cup Flipped /\ pc' = "features"
        /\ UNCHANGED <<full, observed, existing, found, outcome>>
  /\ UNCHANGED <<provider, store>>

\* drop_features_already_present.
News(features) ==
  {f \in features : f \notin DOMAIN existing \/ existing[f] # layer[f]}

\* Mutant: an id whose row is gone by now counts as answered.
AnsweredAll == IF snapshots = << >> \/ full THEN Live ELSE candidates

\* The features the last query returns: the candidates that still exist, or the
\* whole layer.
Answered == IF snapshots = << >> \/ full THEN Live ELSE candidates \cap Live

\* No feature at all is NoFeaturesError.
QueryFeatures ==
  /\ pc = "features"
  /\ \/ Answered = {} /\ Return("failed")
     \/ Answered # {} /\ News(Answered) = {} /\ Return("completed")
     \/ /\ News(Answered) # {}
        /\ found' = [f \in News(Answered) |-> layer[f]] /\ pc' = "publish"
        /\ UNCHANGED <<full, observed, existing, candidates, outcome>>
  /\ UNCHANGED <<provider, store>>

\* A query fails for good, or the observation or the connection does: FeedOutcome.error.
QueryFails ==
  /\ pc \in {"read", "changed", "ids", "flips", "features"}
  /\ Return("failed")
  /\ UNCHANGED <<provider, store>>

Snapshot == [stamp |-> observed, rows |-> found]

\* Mutant: a full fetch reuses the serial of a snapshot with the same time.
PublishReusing ==
  /\ pc = "publish"
  /\ snapshots' = IF Present
                  THEN [i \in DOMAIN snapshots |->
                          IF snapshots[i].stamp = observed THEN Snapshot ELSE snapshots[i]]
                  ELSE Append(snapshots, Snapshot)
  /\ pc' = "cache"
  /\ UNCHANGED <<provider, caches, locals, outcome>>

\* The staged file is renamed to the next serial's name.
Publish ==
  /\ pc = "publish"
  /\ snapshots' = Append(snapshots, Snapshot)
  /\ pc' = "cache"
  /\ UNCHANGED <<provider, caches, locals, outcome>>

\* Mutant: any earlier cache is extended.
ExtendAnyCache == CachedAt(DOMAIN caches) \cup {Stored}

\* The rows write_current_state starts from: a cache covering the newest or the
\* preceding snapshot, or the snapshots.
CacheBase == CachedAt({Newest - 1, Newest}) \cup {Stored}

\* write_current_state up to its rename.
WriteCurrentState ==
  /\ pc = "cache"
  /\ \E base \in CacheBase :
       caches' = [s \in DOMAIN caches \cup {Newest} |->
                    IF s = Newest THEN Latest(<<base, found>>) ELSE caches[s]]
  /\ pc' = "prune"
  /\ UNCHANGED <<provider, snapshots, locals, outcome>>

\* The older state files are removed.
PruneCaches ==
  /\ pc = "prune"
  /\ caches' = [s \in {Newest} |-> caches[s]]
  /\ Return("completed")
  /\ UNCHANGED <<provider, snapshots>>

\* An OSError, RuntimeError or ValueError of the update is only logged.
CacheFails ==
  /\ pc \in {"cache", "prune"}
  /\ Return("completed")
  /\ UNCHANGED <<provider, store>>

\* The process dies; what it staged is never discovered.
Crash ==
  /\ pc # "idle"
  /\ Return("failed")
  /\ UNCHANGED <<provider, store>>

Fetch == \/ Observe \/ Skip \/ ReadStored \/ QueryChanged \/ QueryIds \/ QueryFlipped
         \/ QueryFeatures \/ QueryFails \/ Publish \/ WriteCurrentState \/ PruneCaches
         \/ CacheFails \/ Crash

Next == Fetch \/ \E f \in Feature : Edit(f)

Spec == Init /\ [][Next]_vars
-----------------------------------------------------------------------------
(* Properties.                                                             *)

Steps == {"idle", "read", "changed", "ids", "flips", "features", "publish", "cache",
          "prune"}
Outcomes == {"open", "completed", "failed"}

TypeOK ==
  /\ layer \in [Feature -> Rows \cup {Absent}] /\ clock \in 1..MaxEdits
  /\ \A i \in DOMAIN snapshots : /\ snapshots[i].stamp \in 1..clock
                               /\ IsTable(snapshots[i].rows)
  /\ \A s \in DOMAIN caches : s \in Nat \ {0} /\ IsTable(caches[s])
  /\ pc \in Steps /\ outcome \in Outcomes
  /\ full \in BOOLEAN /\ observed \in 0..clock
  /\ candidates \in SUBSET Feature /\ IsTable(existing) /\ IsTable(found)

\* Between fetches, a state file named for the newest snapshot holds exactly the
\* latest stored row of every feature, whatever failed or was interrupted before:
\* reading it equals reading every snapshot (read_current_features).
CacheMatchesHistory ==
  pc = "idle" /\ Newest \in DOMAIN caches => caches[Newest] = Stored

\* The history only grows, by one snapshot at a time: no fetch rewrites or removes a
\* published observation, a full fetch under an unchanged last-edit time included,
\* and a snapshot records only what the history did not already say of a feature
\* (next_serial_number, drop_features_already_present, read_current_features).
Novel(table) == \A f \in DOMAIN table : f \in DOMAIN Stored => Stored[f] # table[f]

HistoryGrowsByNews ==
  [][\/ snapshots' = snapshots
     \/ /\ snapshots' = Append(snapshots, Snapshot)
        /\ found # NoRows /\ Novel(found)]_vars

\* When a fetch ends without error and the layer has not changed since it looked,
\* the history holds every live feature, every row whose change time moved with its
\* last edit or is missing, after a full fetch every row, and after an incremental
\* one every row that went inactive once an inactive status was known -- whatever
\* edits fell between the queries of this and of earlier fetches.
Covered(f) ==
  /\ f \in DOMAIN Stored
  /\ (full \/ layer[f].modified \in {0, layer[f].at}) => Stored[f] = layer[f]
  /\ (pc # "read" /\ f \in Flipped) => ~Stored[f].active

CompletedFetchCovers ==
  [][outcome = "open" /\ outcome' = "completed" /\ observed = clock
       => \A f \in Live : Covered(f)]_vars
=============================================================================
