# PeriScribe in TLA+

PeriScribe collects wildfire data from public feeds and turns it into a KMZ, reports
and an updates page. What is hard in it is *durable protocol*: a run that is scheduled
every minute, may be interrupted between any two file operations, may defer its own
work, reuses what earlier runs stored, and must neither forget that an output is out of
date nor tell its readers the same thing twice. Around that protocol stand the parts
that are concurrent: a worker pool inside a stage, a provider that edits its layer while
it is being read, and a monitor that serves several callers from one event loop. This
directory models both, checks them with TLC on small instances, and proves the main
results with TLAPS for every value of the constants.

## The system

Paths are relative to `src/src/peri_scribe`.

| Part | State it keeps | Operations | Hard behaviour |
| --- | --- | --- | --- |
| Pipeline run protocol (`pipeline.py`, `pipeline_state.py`) | `run_state.json` (remaining stages, unconditional), `deferred_inputs` marker | `run` over a stage range, gated or not; `validate-sources` | crash between any two writes, partial ranges, policies that change between runs |
| Publication gate (`publication.py`) | checkpoint bound to one KMZ, frozen inventory | collect, decide, commit | a checkpoint of another KMZ; inputs that arrive after the inventory |
| Stage processes and lease (`supervision.py`, `pipeline_state.py`) | an `flock` on an inherited file description, request and response files | run, two child segments, interrupt, read lock | orphans, interrupts during process creation, hung children |
| Fire-update journal (`fire_updates.py`, `kml/builder.py`) | checkpoint, pending journal, monthly log | prepare, write, recover | retry of an append in a later month, a KMZ that is out before its updates are |
| Updates page (`updates.py`) | `updates.html` and data | rebuild from the log | refreshed only by a KMZ build |
| Logging (`logging.py`, `log_reading.py`) | monthly logs, segments, archives, receipts | append, seal, compress, recover, read | crash between archive and source removal, concurrent readers |
| Feed collection (`sources/fetching.py` and neighbours) | snapshots, a state file per feed, `fetch_state.json` | incremental and full fetch | edits between the queries of one fetch, a state file that is one snapshot ahead or behind |
| External sources (`sources/*`) | evacuations, cities, borders, buildings | conditional downloads | content that returns to an earlier value |
| Fire index, grouping (`fires/index.py`, ...) | `sources/fires.json`, caches | build, load | rebuilt only by some fetches |
| Histories (`fires/reuse.py`, `fires/files.py`, ...) | two GeoPackages and signatures | geography stage | four files replaced one after the other, rows reused from any earlier generation |
| Scores, KML, reports, presentation, perimeters, geo storage | outputs | pure or nearly pure functions of the above | numeric and geometric, tested directly |
| Workers (`concurrency.py`) | pending futures | ordered delivery, cancellation | admission against delivery, errors that arrive out of turn |
| Monitor (`monitor/*`) | one session over the logs | watch, refresh, load, share, close | requests, cancellations, file notifications and close in one event loop |

The parts meet in five places: the *lease* admits one writer to a year; the writer's
*run state* says what derived work is due; the *KMZ* is the commit point that both the
publication checkpoint and the update journal acknowledge; the *authenticated pair* of
histories is the only geography that later stages read; the *logs* are what the updates
page and the monitor read.

What makes each part correct:

- run protocol: stale output is remembered until it is rebuilt, and eventually rebuilt;
- gate: a checkpoint that counts names exactly what the KMZ shows;
- lease: one writing process per year, no reader during a write, no orphan after an
  ordinary return, and an interrupted run gives the year back;
- journal: each observation is announced once, in the month its KMZ was completed, and
  every journaled announcement reaches the log, and the log the viewer is made from;
- logs: a month only grows, whatever rotation and its interruptions do; a reader sees
  each complete line of it once and in order; an old month ends as archives;
- collection: what is stored is never rewritten, the cache of the latest rows equals the
  history it stands for, and a completed fetch misses nothing the provider edited;
- histories: rows that were kept equal rows recomputed, and consumers use two files of
  one generation, or refuse;
- workers: results in input order, within the limits, no thread left behind;
- monitor: one operation at a time owns the readers, every caller is answered, a
  subscriber is never left with an old snapshot, a change of the files is read again.

## Modules

| Module | Models | State and actions |
| --- | --- | --- |
| `Pipeline` | `pipeline.py`, `pipeline_state.py`, `publication.py` and the effects of each stage | one action per durable step; `pc` is where the one writer is |
| `MCPipeline` | instances of it | the invocations of each run |
| `PipelineProofs` | proofs about `Pipeline` | |
| `UpdateLedger` | what the update log promises: an atomic ledger | `Publish` compares, announces and moves the baseline at once |
| `UpdateJournal` | `create_kmz`, `prepare_updates`, `write_updates`, `recover_updates`, the viewer refresh | one action per file operation, `recover` as a subroutine with a return label |
| `MCUpdateJournal` | an instance of it | |
| `UpdateJournalProofs` | proofs, among them that it implements `UpdateLedger` | |
| `Supervision` | `supervision.py`, `run_lease`, `inherited_lease`, `read_lock` | any number of commands, their two children, the kernel's lock |
| `MCSupervision` | an instance of it | |
| `SupervisionProofs` | proofs about `Supervision` | |
| `LogText` | the text of a JSONL file: joining what separate appends wrote | operators only |
| `RetainedLog` | what the logs promise: two series that only grow | `AppendRecord`, `AppendBatch` |
| `LogRotation` | `append_monthly_records` with recovery, compression and sealing, `read_lock` | one month's files; one action per file operation of the writer |
| `LogReading` | `log_paths`, `complete_lines`, the monitor's `Reader` over `Follower` | commands that list and stream, a poller that keeps files open |
| `MCLogRotation`, `MCLogReading` | instances of them | |
| `LogProofs` | proofs about `LogText`, `LogRotation` and `LogReading`, among them that the files implement `RetainedLog` and that commands and the monitor read all of it | |
| `SerialMap` | what the worker pool promises: a map over the inputs, one after the other | `Deliver`, `Raise`, `Finish`, `Interrupt` |
| `OrderedWorkers` | `ordered_parallel_map`, its context and the pool's threads | generator, consumer and threads take turns; one action per step of the loop |
| `GeographyGenerations` | `fires/files.py`, `fires/reuse.py`, `fires/differential.py`, `derived_layers.authenticated_pair` | one year's two histories with their signatures; one action per durable step, each build running on `OrderedWorkers` |
| `MCGeography` | an instance of both | |
| `GeographyProofs` | proofs about `OrderedWorkers`, among them that it implements `SerialMap`, and about `GeographyGenerations` | |
| `Induction` | induction over numbers, sequences and finite sets in the form the proofs use | |
| `SourceFetch` | `fetch_feed_snapshot`, `snapshots.py`, `feed_state.py`, `changes.py` | one feed: the provider's layer, the snapshots and state files; one action per remote query and per file operation |
| `SourceRollback` | `SourceFetch` and the removal of the newest snapshot | |
| `MCSourceFetch`, `MCSourceRollback` | instances of them | |
| `SourceFetchProofs` | proofs about `SourceFetch` | |
| `MonitorSession` | `monitor/session.py`, `monitor/tasks.py` | callers, dispatcher, clock observer, subscribers, close; one action between two awaits |
| `MCMonitorSession` | an instance of it | |
| `MonitorSessionProofs` | proofs about `MonitorSession` | |

The models stack: `Supervision` shows that a year has one writer, which is the premise
of `Pipeline` (one `pc`); `Pipeline`'s KMZ stage is refined by `UpdateJournal`, whose
`due` flag is the KMZ entry of the remaining stages; its `AppendBatch` is one step, and
`LogRotation` is what happens inside that step (`LogBatch` to `Acknowledge`), beside
the appends of every other command, which take no lease. `LogReading` extends it with
those who read meanwhile. `SourceFetch` is what happens inside `Pipeline`'s `FetchFeeds`
for one feed, and `GeographyGenerations` what happens inside `RunGeography`; it EXTENDS
`OrderedWorkers`, whose inputs are the fires, so that the pool's interleavings, errors
and limits are those of a real stage. `MonitorSession` is the process around the poll of
`LogReading`: the reader it polls is one of the descriptors the session's lock guards.

### Pipeline

Saved snapshots and reference data are version numbers; an output is the pair of the
oldest versions that reached it plus the version of the fire index it was written with.
`Begin`, `RecordWork`, `DeferInputs`, `ClearMarker`, `PlanFetch`, `FetchFeeds`,
`BuildIndex`, `StampFullFetch`, `FetchReferences`, `RefreshExternals`, `Settle`,
`GateAccepts` and `GateSkips` are the fetch stage step by step, in both policies;
`RunGeography`, `CollectInputs`, `RunScore`, `WriteKmz`, `CommitPublication`,
`RunReports` and `CompleteStage` are the stage loop; `BeginValidation` and
`FinishValidation` are `validate-sources`. `Crash` and `PartialFetch` may happen between
any two of these, `FailFetch` is a failing fetch or gate with its handler, `LoseRunState`
is an unreadable `run_state.json`. The checkpoint variable is what `read_publication`
returns: replacing the KMZ detaches it. What the area and identity rules of
`mapping_decision` answer for pending snapshots is left open, except that waiting ends
with the publication interval.

### UpdateJournal

An observation is an element of `Perimeter` and belongs to one fire. A batch is one log
element, because `append_atomic` replaces the file as a whole; it carries the month of
the file that holds it, and `contains_batch` looks in that month only. `AppendBatch`,
`SaveCheckpoint` and `RemoveJournal` are the three steps of `recover_updates`, called
before the comparison, before the journal is written and after it. `WriteViewer`
remembers which batches `updates.json` was made from, not what the page then lists:
`snapshot_from_entries` selects the records of the last 48 hours whose mapped area
differs from the fire's record before, so an announcement recovered later than that, or
of an unchanged area, is in the log and never on the page. Between builds
`Rederive` changes what geography maps and what scoring ranks; `Crash` loses the
process's memory at any step; months pass at any time.

### Supervision

A lease is a set of references to one open file description per command; the kernel
drops the lock with the last of them. Children take a reference when they are created
(`Spawn`, or `KilledAfterFork` when the command is killed in the middle of it) and ask
for the lock again through it (`ChildStarts`). An interrupt leads to `settling`, where
a pending creation is awaited and a live child is stopped before the command leaves.
`Killed` is SIGKILL at any point. The year is represented by the command that changed it
last. SIGTERM, grace period and SIGKILL of a child are one step; nested reads by the
writer itself take no lock and are not modelled.

### LogRotation and LogReading

The model follows one month: its general log, that log's numbered segments, and its
fire-update log. A file is an inode whose text grows; names (`plain`, `archive`,
`receipt`) point to inodes, so renaming and replacing are what they are on disk. A text
is a sequence of lines, and `Torn` is the start of a line whose append was interrupted:
what is written behind it completes it to `Junk`, nobody's record. A checksum is the
text it was taken of.

`Acquire` takes `.rotation.lock` and lists `rotation_paths`; `RotateComponent`,
`RotateTail`, `KeepTail`, `SealTail` and `LeaveTail` are the loop and `seal_log`;
`RetireSource`, `WriteReceipt`, `PublishArchive`, `UnlinkSource` and `UnlinkReceipt` are
`compress_log`, called as a subroutine (`resume`); `AppendRecord`, `AppendBatch` and
`AppendNothing` end the call. `Abandon` and `TearAppend` interrupt it anywhere. The
calendar moves the month from current to over to old enough to compress; appends of
other months appear by the rotation of this one that they start with.

`LogReading`'s commands list months *without* the lock and open one under it later, as
`log_paths` and `complete_lines` are used. A poll of the health reader happens inside one
shared lock and is one step; between polls its cursors stay on inodes that the writer
renames and unlinks. Its archive signatures are the inodes of the archives. A directory
without a lock file, which `read_lock` accepts, has no writer and needs no model. No file
is unreadable: an error in one is swallowed and reported with the history, which may then
claim to be caught up without it. The
time window of the readers is left open: everything is inside it.

### OrderedWorkers and SerialMap

Inputs are positions. `Ask` resumes the generator, `Deliver` is its inner loop,
`Continue` the head of the outer one, `Take`, `Submit`, `EndAdmission` the admission
loop, `Observe` the `wait` for a first completion, which returns every future that is
done at that moment. An error is either the function's (`faulty`, fixed when the map is
entered) and waits for its turn, or the iterator's, the weight's or `submit`'s
(`AdmissionFails`) and does not. `Abandon` is a consumer that raises or stops;
`CancelQueued` and `Joined` are the context's exit. `WorkerStarts` and `WorkerReturns`
are the executor, known from how `concurrency.py` uses it: a FIFO queue with at most
`MaxWorkers` busy threads. `SerialMap` is the promise; the mapping takes `next - 1` as
the number of delivered results.

### GeographyGenerations

A file is its rows and a stamp, since GDAL writes the time into the bytes; a checksum is
the file. `ChangeInputs` happens between builds, because the lease keeps writers of
sources away. `SkipFull` and `SkipDifferential` are the two checks of a whole generation;
`StartBounded` and `StartPrepared` are the two ways to build the full history, with what
each of them may reuse (`BoundedPlan`, `PreparedPlan`); `CatalogUnavailable` is the
fall-back from the first to the second; the map's steps are `MapRuns`; `ReplaceFull`,
`SignFull`, `ReplaceGrowth`, `SignGrowth` are the four replacements, and `Interrupted`
may come between any two of them. What the product cache finds of earlier
classifications is left open: any subset of the fires. A missing classification leaves
the signature without a generation, which is how the next build knows.

### SourceFetch and SourceRollback

The provider's layer gives each feature the edit that wrote its row, its change time and
its status; `Edit` can fall between any two queries of a fetch, for at most `Overlap`
edits after the metadata was read, which is what the overlap of `changes.py` allows for.
`Observe`, `Skip`, `ReadStored`, `QueryChanged`, `QueryIds`, `QueryFlipped`,
`QueryFeatures`, `Publish`, `WriteCurrentState`, `PruneCaches` are `fetch_feed_snapshot`
in order, each remote query an action of its own; `QueryFails` is a query that fails for
good, `CacheFails` a state file that cannot be written, which is only logged. A row that
cannot be read from the state file is read from the snapshots: both are allowed wherever
the code may fall back. `SourceRollback` adds one action: the newest snapshot is taken
away by hand, which a comment in `feed_state.py` takes into account.

### MonitorSession

An action is what runs between two awaits. `Ask`, `Cancel` and `Promote` are callers of
`request`; `Pick`, `Enter`, `ReadHealth`, `ReadHealthInPart`, `ReadPart`, `ReadFails`,
`Publish` are the dispatcher and the operation it runs under the owner's lock, in a
thread while it reads; `Hint`, `TickOnHint`, `TickOnDeadline`, `ClockResumes`,
`ClockStops` are the file watcher and the clock; `Close`, `Lock`, `Release`,
`ReleaseFails`, `Gather` are `close` with its retry; `Subscribe`, `Receive`,
`Unsubscribe` are the single-slot mailboxes. A user's request adds one part to the
snapshot, or finds nothing; the clock's reads the health evidence: `asof` is the number
of changes there were when it was read, `health` how many of them it covers. The two
differ when a file could not be read: `Reader.poll`, `Follower.poll` and the replay of
archives turn an `OSError` into a diagnostic of the history, so the request ends
normally, its hint is spent and the reconciliation deadline moves on
(`ReadHealthInPart`). The evidence then stays as it was or grows in part; if archives
had changed, the reader had started over and the evidence can even shrink. `ReadFails`
is an exception that nothing swallows. `hinted` is a history variable: the changes
covered by a notification so far.

`HintIsObserved` therefore promises a reading, not a complete one: a hint spent on a
failing reading is not renewed, what was missed waits for the reconciliation, and an
archive that failed is not tried again before archives change. `CommitsInOrder` says
when evidence may shrink.

## Runs

| Run | Instance | What it shows |
| --- | --- | --- |
| `pipeline_safety` | 20 kinds of invocation (gated or not, full, partial, unconditional, full-fetch interval), one new version of each input, one interruption | `WorkCovered`, `CheckpointHonest`, `FullFetchRebuilt` |
| `pipeline_live` | the scheduled gated service and gated KMZ-only runs, one interruption | every feed and reference update reaches KMZ and reports |
| `pipeline_switch` | gated and ungated full runs, two feed versions, no failure | **violation**: the fire index is forgotten |
| `pipeline_partial` | gated full and geography-to-KMZ runs, two feed versions, no failure | **violation**: the reports are forgotten |
| `update_journal` | two observations of two fires, two months, two crashes | `ImplementsLedger`, `AnnouncedOnce`, `CaughtUp`, `JournaledIsPublished` |
| `supervision` | three commands, one reader | `OneWriter`, `ReadersExcluded`, `HandOffUndisturbed`, `NothingLeftBehind`, `InterruptFreesYear` |
| `log_rotation` | two records in segments of one line, two batches, two interruptions, a reader that holds the lock | `ImplementsRetainedLog`, `TextIsKept`, `ReceiptsAuthenticate`, `Settles` |
| `log_reading` | five records in segments of two lines, three interruptions, one command and the monitor, which reads one line per poll | `ReadsWholeMonth`, `ListedIsReadable`, `EvidenceIsPrefix`, `CaughtUpIsComplete` |
| `geography` | two fires that are too heavy to be worked on together, two versions, two contexts, two changes, one interruption | `AdmissionBounded`, `WorkersOwned`, `ImplementsSerialMap`, `PairHonest`, `FinishedStageIsCurrent` |
| `source_fetch` | two features, four edits, an overlap of two, any number of fetches and crashes | `CacheMatchesHistory`, `CompletedFetchCovers`, `HistoryGrowsByNews` |
| `source_rollback` | the same with three edits and the removal of the newest snapshot | **violation**: a state file of a removed snapshot is read |
| `monitor_session` | one user and the clock, one subscriber, two writes, one failing cleanup | `ReadersOwned`, `NewestDelivered`, `CommitsInOrder`, `SessionSettles`, `HintIsObserved` |

Why the bounds suffice. In `Pipeline` a version matters only by being saved, in an
output, or neither, so one new version per input distinguishes fresh from stale; the
violations need two because the first run always publishes. The safety theorems hold for
all bounds, so the instance serves to find mistakes, not to establish the result. One
interruption already reaches every intermediate durable state, and invocations go on
afterwards without limit. In `UpdateJournal` a crash can hit the recovery of a crash
(two), and a batch can be retried in the month after its own (two months). In
`Supervision` a third command can come between the two segments of one run while an
orphan of another is alive. In `LogRotation` two records make a segment and a tail, or
two segments, in one month; one interruption can leave a receipt at each of its stages
and the second can hit the recovery from it. In `LogReading` five records give a
segment that is archived, one that is being compressed and a tail, while a read limit of
one line keeps the monitor's cursors behind on a file that is already unlinked.
In `geography` a weight of 2 and one of 1 against a limit of 2 make each input fit alone
and both together not, so admission must wait for delivery and deliver out of order; two
fires are the least that can be reused and rebuilt in one build. Versions are only
compared for one fire and contexts among themselves, so fixing the first of each loses
no behaviour; two changes make a return to an earlier generation (A, B, A) possible. The
constraint `FirstMapIsFree` bounds the pool, not the stage: in every map that begins
before the first file is published all interleavings and errors occur, later maps run
with one thread and no error; `PairHonest` is proved without it. One stamp is enough for
TLC because any two generations that must be told apart already differ in their rows;
the proof allows any number of stamps. In `source_fetch` an overlap of two lets an edit
fall between two queries of one fetch and still be followed by another fetch; four edits
give a feature that is stored, edited, removed and made again. Features differ only in
their rows, hence the symmetry; no liveness is checked there. In `monitor_session` a
user and the clock are the least for which priority and withdrawal can change the
order; the second write comes during the refresh that the first caused, and either of the
two readings can fail. The safety properties are proved for any number of users.
`CHECK_DEADLOCK FALSE`: a closed session without callers has nothing left to do.

Every property is broken by a mutant of the code it is about (`PROJECT.json`): a dropped
guard, a wrong order, a missing descriptor, an explicit unlock, a retry with the current
time. The mutated operators stand next to the ones they mutate, marked `Mutant:`.

### What the three violations say

- **Policy switch** (`IndexCovered`). A gated run stores a snapshot, defers it and leaves
  the marker. A later ungated run finds nothing new: it requires the derived stages,
  clears the marker, and `fetch_all_feeds` does not rebuild `sources/fires.json`
  (`sources/fetching.py:503`); geography is not forced, so it does not either
  (`fires/files.py:248`, `:451`). The KMZ and the reports are written with the old index
  and nothing is pending. `docs/architecture.md:729` and
  `docs/algorithms/pipeline-publication.md:50` say that such inputs are built.
- **Partial gated range** (`ReportsCovered`). After a deferral, `--from geography --to
  kmz` with a threshold commits a checkpoint of the deferred snapshots; the next gated
  run sees no unpublished input and clears the marker although the reports are stale.
  `docs/algorithms/pipeline-publication.md:6` and `docs/architecture.md:741` say that
  work outside the range stays remembered.

- **Removed snapshot** (`CacheMatchesHistory` in `source_rollback`). A state file is
  named for the serial of the newest snapshot. When that snapshot is removed and the next
  fetch stores another one, `next_serial_number` (`sources/snapshots.py:134`) gives it
  the same serial. If writing the state file then fails, or the run is interrupted
  before it, the old state file covers the new snapshot by its name, and later fetches
  start from rows that are no longer in the history. `sources/feed_state.py:136` says
  that a state left behind by a removed snapshot is not used.

`WorkCovered` is the part of the promise that does hold: histories, scores and the KMZ's
geometry and references are never forgotten.

## Fairness

- `Pipeline`: a started invocation keeps taking steps (weak), the scheduled invocation
  is started again and again (strong, because operators may hold the lease meanwhile):
  `systemd/peri-scribe.service` has `Restart=always` with `RestartSec=50s`. Time passes,
  so the publication interval elapses. Interruptions are bounded; without a bound the
  service could be killed in every run and nothing would ever be promised.
- `UpdateJournal`: a started build keeps going, and while the KMZ stage is due another
  build starts.
- `Supervision`: only what the command and the kernel do about an interrupt is fair:
  process creation resolves, SIGKILL works, the command unwinds. A child's stages have
  no fairness at all, so `InterruptFreesYear` holds for children that hang.
- `LogRotation`: a call that has the lock goes on (weak); readers release it (weak),
  since they hold it for one poll or the streaming of one month; and log events and KMZ
  builds keep coming in later months and get the lock (strong), because the scheduled
  service logs in every run and `write_updates` appends, even nothing, after every KMZ.
  Without that, a month would never be compressed. `LogReading` needs no fairness.
- `MonitorSession`: the event loop runs every coroutine that can run and reading threads
  end (weak, for the dispatcher, the observers and close). Nothing is promised of
  callers, of slow consumers, of the reconciliation deadline, or of anybody calling
  `close`. `HintIsObserved` holds for hints without the deadline ever passing; that the
  deadline keeps passing (weak fairness of `TickOnDeadline`, which the clock's loop
  justifies) is the premise of its second part only, about changes without a hint.
- `SourceFetch`, `OrderedWorkers` and `GeographyGenerations` state no fairness: nothing
  in them is promised to happen.

## Proofs

All theorems are about the unbounded specifications: any constants that satisfy the
named assumptions (`BoundsAssumption`, `RequestsAssumption`, `NoPublicationAssumption`,
`FireOfAssumption`, `NoDocumentAssumption`, `NobodyAssumption`, `InputsAssumption`,
`LimitsAssumption`, `WeightAssumption`, `AbsentAssumption`, `ClockAssumption`). Those
assumptions say that bounds, limits and weights are numbers (limits positive, as
`concurrency.py` requires), requests are requests, and that the value standing for "no
document", "nobody", "no feature" or the clock is not one of the real ones.

**`PipelineProofs`**: `TypeCorrect`, `WorkNeverForgotten`, `CheckpointNeverLies`,
`FullFetchNeverDropped`. The invariants are not inductive by themselves, because an
unchanged fetch *restores* earlier requirements and the commit uses an inventory frozen
two stages before. `IInv` adds: no output is ahead of its inputs (`Ordered`); each step
of a fetch has the intent it needs on disk (`FetchIntent`); the requirements a fetch may
restore still cover everything that was stale (`RestoreSafe`); a stage that ran has
produced what it should (`StageDone`); the frozen inventory is still what the later
stages are built from (`FrozenExact`). The proof goes through one lemma per part and one
step per action.

**`UpdateJournalProofs`**: `TypeCorrect`, `JournalImplementsLedger`,
`NeverAnnouncedTwice`. Under the refinement mapping an update counts as announced from
the moment its journal exists, so `WriteJournal` is the step that implements `Publish`
and every later step of the recovery, repeated or not, is a stutter: before the append
the announcement is the journal's, after it the log's. The strengthening says where a
journal can exist (`PhaseInv`), that the prepared batch was computed from the checkpoint
it replaces (`PreparedInv`) and that identifiers are fresh (`IdInv`).
`CompleteIsCaughtUp` is the theorem about the end of a build. `CaughtUp` says nothing
while a build is due, and a build may have been interrupted anywhere and recovered by
another one, so `ArrivalInv` says at every label what has already arrived: from the
replacement of the KMZ on, everything mapped is acknowledged or in the journal that
waits; once the viewer was refreshed it is made from every batch of the log.

**`SupervisionProofs`**: `TypeCorrect`, `YearHasOneWriter`, `ReadersSeeStableYear`,
`HandOffKeepsYear`, `ReturnLeavesNothing`. Every process inside the lease holds a
reference (`HoldInv`), references name the holder of the lock (`LockInv`), where the
command is decides which processes can exist (`PlaceInv`), and the year is as the first
segment left it until the second works (`YearInv`). `WriterHoldsLock` is the lemma that
gives exclusion: whoever writes has the lock.

**`LogProofs`**: `TypeCorrect`, `ReceiptsSound`, `TextsKept`, `LogIsRetained`,
`ListedStaysReadable`, `MonthIsReadWhole`, `EvidenceIsTrue`, `CaughtUpHasAll`. The base is
`JoinAssociative`: however writes are grouped, the same lines result, although a torn
line merges with what follows; it is proved by comparing the two texts place by place
(`Spliced`, `EndPlaces`, `Places`), without induction. From it, appending to the source
of a rotation and then archiving it, or the reverse, reads the same. `IInv` adds to the
types: a receipt is either still *prepared* (its target is the archive joined with the
source, both unchanged) or *applied* (`ReceiptInv`); no two names share an inode that
is written to (`FileInv`); a batch is not in archive and source at once before the
archive is published, so compression drops nothing (`JournalInv`); the writer has
settled every receipt of its series before it appends (`PlaceInv`), which is why
`rotation_paths` must find receipts without sources; and a month with segments has no
archive of its own in preparation (`SegmentInv`). One lemma per action then shows that
what readers may see changes only by an append or by a move into the next segment.

From files to the log: `Kept` concatenates any number of segments, so the refinement
needs what `FlattenSeq` does (`FlattenAppend`, `FlattenWith`, `FlattenTail`, from an
induction over sequences) and that sealing adds the last segment. `SeriesInv` says that
the segments are numbered without a gap from one (`NumberInv`), that only the tail can
end in a torn line once there are segments (`WholeInv`), and which month the writer is
at (`MonthInv`, `EntryInv`). Then `KeptIs` writes `Kept` as the sealed segments joined
with the tail, `KeptBySealing` shows that the move of a tail into a segment leaves it as
it was, and each step is an append of `RetainedLog` or a stutter (`JournalGrows`,
`RetainedStep`). For the readers, `SoleInv` (a component is in one piece when no writer
is at work), `LockInv` (a reader that holds the shared lock excludes the writer) and
`ReaderInv` (what was yielded, followed by the lines of the pieces still to read, are
the complete lines of the log) carry the two theorems about commands.

The monitor's reader keeps files open from poll to poll, so it needs to know which files
of a month can still change. `PlainInv` says that only the newest segment may wait for
its archive, and `VisitInv` why: an append compresses every segment that waits before it
seals another. A month is therefore what is archived (`Ahead`) followed by at most two
plain files (`Tails`, `MonthParts`), and unless a new archive appears those only grow, at
their end (`TailsStep`). `HealthInv` has two parts. Always, the evidence is what the
complete lines of the log begin with. And as long as the reader knows every archive there
is (`Follows`), its cursors are on those files in their order, no later file is begun
before an earlier one is exhausted, and what it has read is as long as the archived lines
and its cursors' places together. When the signatures differ, nothing is claimed about
the cursors: then the reader must begin again, and `ReplayTails` shows that reading the
archives puts it back on the log. `DiscoverTails` and `PollTails` follow the rest of a
poll; a poll that exhausts its files has read as much as there is, which is all of it.

**`GeographyProofs`**, the pool: `WorkersInvariant`, `WorkersAreOwned`,
`PoolImplementsSerialMap`, `AdmissionIsBounded`. `WorkersInv` accounts for every input drawn from the iterator:
it is delivered, ready, pending or held back (`Accounted`), which of these agrees with
what the threads did (`TasksAgree`), and an observed error is still waiting for its turn
(`EndsKnown`), so that stopping the admission is never taken for the end of the map. From it every step of generator and threads maps
to a step of `SerialMap` or to a stutter. The weight of what is admitted is a recursive
sum over a set: the `Load` lemmas (adding, removing, monotonicity) come from an
induction over finite sets, and the bound from the account that the generator keeps of
its admissions.

**`GeographyProofs`**, the stage: `StageRunsPool`, `StageOwnsWorkers`,
`StageMapsSerially` and `StageAdmissionIsBounded` carry the pool's theorems into the stage that uses it; `GeographyInvariant`, `PairsAreHonest`
and `FinishedStagesAreCurrent` are about the files. A signature is bound to the rows it
was written for, so what it says of them (`TagsTrue`, `LinksTrue`) survives whatever
happens to the file beside it; the plan of a build (`PlanSound`) is what makes the next
signature true, since a row kept without a classification in a build that counts the
fire as classified would falsify the tag; and a map that ended normally delivered a row
for every fire, which is `WorkersInv`'s part.

**`SourceFetchProofs`**: `FetchInvariant`, `TypesHold`, `CachesMatchHistory`,
`HistoryGrows`. `FetchInv` is about every state file, not only the newest: the file for
serial *s* holds what the first *s* snapshots say (`CachesHonest`), whichever of them an
interrupted update left behind, and what a fetch compares the layer with is the history
(`ReadHonest`). `MergeUpTo` is the step: the latest rows of *n* snapshots are those of
*n* - 1, superseded by the last. It needs the largest index of a bounded set of numbers,
obtained from the well-founded order of the naturals and not by induction.

**`MonitorSessionProofs`**: `SessionInvariant`, `ReadersAreOwned`, `NewestIsDelivered`,
`CommitsAreOrdered`. The lock names the only coroutine that is past its acquisition, and
the candidate an operation builds is the committed snapshot plus its own reading,
because nobody else can commit meanwhile; that makes `asof` monotone, and `health` but
for a failed reading of changed files.

**`Induction`**: the library states induction for an operator P(_), and none of the
provers used here can instantiate one. `NaturalInduction`, `SequenceInduction` and
`SubsetInduction` state it for a *set*: a set that contains the start and is closed under
the step contains everything. A proof that needs induction defines the set of values its
claim holds for; `Least` is the well-founded form.

Only model-checked: the liveness properties (`UpdatesArePublished`,
`ReferencesArePublished`, `JournaledIsPublished`, `InterruptFreesYear`, `Settles`,
`SessionSettles`, `HintIsObserved`), because TLAPS does not handle liveness under
fairness or ENABLED here, and `CompletedFetchCovers`, which relates a fetch to the whole
history of the provider's edits. No module with theorems uses a RECURSIVE operator.

## Not modelled

Geometry, scoring arithmetic, KML and report text, the terminal dashboard's views, image
rendering, analysis commands and the support packages are data conversions without
protocol state; they are most of the repository's lines, tested directly, and a model of
them would repeat the program. The modules here follow the state, so the share of all
lines they stand for stays small by nature.

In the modelled parts:

- pipeline and gate: the area and identity rules, reference data that returns to an
  earlier content (a return counts as a new version);
- journal: which fire inherits a history when fires merge or split, and what the updates
  page selects of the log (48 hours, changed areas);
- supervision: descendants of a child, and reads by threads of the writing process;
- logs: the content of a line, time bounds, phase events, files that cannot be read;
- workers: `run_blocking` and cancellable iteration, except as the requests the monitor
  waits for;
- histories: what a row holds, complex parents (which have no rows), the fire index, the
  retirement and compaction of the product cache;
- collection: several feeds in one call (they share nothing but the outcome `Pipeline`
  takes), several change columns of one feed, validation, and retries, which appear as
  the query that fails for good;
- monitor: the records and report requests that follow a tick's and take the same way,
  ticks that only age the evidence, readings that fail again with nothing changed, status projection, sharing, the terminal controller.

`PROJECT.json` lists each component and each known hazard, with the reason when no
property covers it.

## Plan

What is left, in order:

1. `HistoryOwnership`: merges, splits and renames of fires in `resolved_ownership`;
   refines the fixed `FireOf` of `UpdateJournal`.
2. Pure algorithms over bounded inputs: grouping components, perimeter versions, product
   cache coherence.
3. References by content instead of version, for the return to an earlier content; the
   threads of a stage that read what their own process writes.

Theorem to come: `CompletedFetchCovers`.
