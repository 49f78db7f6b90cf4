---------------------------- MODULE LogRotation ----------------------------
(***************************************************************************)
(* One month of a log directory: append_monthly_records under the writer   *)
(* lock, with the recovery, compression and sealing it starts with.  The   *)
(* process may die, or the disk fill up, between any two file operations.  *)
(* Simplifications:                                                        *)
(*  - A text is its sequence of lines; a record is one line, and so is a   *)
(*    whole journal batch, which append_atomic publishes at once.          *)
(*  - A file is an inode: its number never changes, its text grows.        *)
(*  - A checksum is the text it was taken of, compression keeps the text.  *)
(*  - The size threshold counts lines.                                     *)
(*  - Appends to other months appear by their rotation of this one.        *)
(***************************************************************************)
EXTENDS LogText, FiniteSets, SequencesExt

CONSTANTS Readers,
          SegmentLines,  \* MAXIMUM_LOG_SEGMENT_BYTES, in lines
          MaxRecords,    \* bound on the records of the general series
          MaxBatches,    \* bound on the journal batches
          MaxCrashes     \* bound on the interrupted appends

ASSUME BoundsAssumption == /\ SegmentLines \in Nat \ {0}
                           /\ MaxRecords \in Nat /\ MaxBatches \in Nat
                           /\ MaxCrashes \in Nat

\* The general month's own name, the journal month's, and the segments by
\* their number: a segment holds at least one record.
Month    == 0
Journal  == -1
Segments == 1..MaxRecords
Components == {Journal, Month} \cup Segments

NoFile == 0

VARIABLES
  text,     \* what each inode holds, in order of creation
  plain,    \* <component>.jsonl
  archive,  \* <component>.jsonl.zst
  receipt,  \* <component>.jsonl.rotation.json: no or one RotationReceipt
  sharing,  \* the readers that hold .rotation.lock shared
  age,      \* the calendar: this month is current, over, or to be compressed
  records,  \* history: the general records written or being written
  batches,  \* history: the batches journaled
  pending,  \* fire_updates_pending.json: the batch to append, or 0
  crashes,  \* history: how often an append was interrupted
  pc,       \* the next step of the writer that holds .rotation.lock
  series, entry,  \* its arguments: the series, and the line for this month or 0
  work,     \* the components of rotation_paths it has not visited
  target,   \* the component compress_log works on
  resume    \* where compress_log returns to

disk   == <<text, plain, archive, receipt>>
inputs == <<age, records, batches, pending, crashes>>
call   == <<series, entry>>
rotationVars == <<disk, sharing, inputs, pc, call, work, target, resume>>

Current == age = 0
Over    == age = 1
Closed  == age = 2  \* before compression_month

InitRotation ==
  /\ text = << >>
  /\ plain = [c \in Components |-> NoFile]
  /\ archive = plain
  /\ receipt = [c \in Components |-> {}]
  /\ sharing = {} /\ age = 0
  /\ records = 0 /\ batches = 0 /\ pending = 0 /\ crashes = 0
  /\ pc = "idle" /\ series = "general" /\ entry = 0
  /\ work = {} /\ target = Month /\ resume = "idle"
-----------------------------------------------------------------------------
(* The files of a component.                                               *)

Text(file) == IF file = NoFile THEN << >> ELSE text[file]

\* file_checksum, None for a file that is absent.
Checksum(file) == IF file = NoFile THEN {} ELSE {text[file]}

Exists(c) == plain[c] # NoFile \/ archive[c] # NoFile \/ receipt[c] # {}

\* Mutant: an archived segment is not one.
PlainSegments == {n \in Segments : plain[n] # NoFile \/ receipt[n] # {}}

\* segment_paths.
SegmentNumbers == {n \in Segments : Exists(n)}

\* rotation_committed returns, and does not raise.
Authentic(c) == \A r \in receipt[c] :
  \/ Checksum(archive[c]) = {r.target} /\ Checksum(plain[c]) \subseteq {r.source}
  \/ Checksum(archive[c]) = r.archive /\ Checksum(plain[c]) = {r.source}

\* rotation_committed.
Committed(c) == \E r \in receipt[c] : Checksum(archive[c]) = {r.target}

HasLine(file, line) == \E i \in DOMAIN Text(file) : Text(file)[i] = line

\* The lines compress_log copies: not those of batches the archive has.
Unarchived(c) ==
  LET repeated == {b \in 1..MaxBatches :
        c = Journal /\ HasLine(archive[c], b) /\ HasLine(plain[c], b)}
      IsNew(line) == line \notin repeated
  IN IF repeated = {} THEN Text(plain[c]) ELSE SelectSeq(Text(plain[c]), IsNew)

\* What readers may see of a component.
Held(c) == IF Committed(c) THEN Text(archive[c])
           ELSE Join(Text(archive[c]), Text(plain[c]))

\* Mutant: the archive is not searched.
HasPlainBatch(c, batch) == HasLine(plain[c], batch)

\* contains_batch.
HasBatch(c, batch) == HasLine(plain[c], batch) \/ HasLine(archive[c], batch)
-----------------------------------------------------------------------------
(* append_monthly_records takes the lock and lists rotation_paths.         *)

Series == {"general", "journal"}

SeriesOf(c) == IF c = Journal THEN "journal" ELSE "general"

\* Mutant: a receipt without its source is not discovered.
DueSources(s) == {c \in Components :
  SeriesOf(c) = s /\ plain[c] # NoFile /\ (c \in Segments \/ Closed)}

\* rotation_paths.
Due(s) == {c \in Components :
  SeriesOf(c) = s /\ (receipt[c] # {} \/ (plain[c] # NoFile /\ (c \in Segments \/ Closed)))}

Acquire(s, line) ==
  /\ pc = "idle" /\ sharing = {}
  /\ pc' = "rotate" /\ series' = s /\ entry' = line
  /\ work' = Due(s)
  /\ UNCHANGED <<disk, sharing, age, batches, pending, crashes, target, resume>>

\* A log event of this month, while it lasts.
LogRecord == /\ Current /\ records < MaxRecords
             /\ Acquire("general", records + 1)
             /\ records' = records + 1

\* A log event of a later month.
LogElsewhere == ~Current /\ Acquire("general", 0) /\ UNCHANGED records

\* recover_updates: whatever the month, a batch goes where it was completed.
LogBatch == pending # 0 /\ Acquire("journal", pending) /\ UNCHANGED records

\* write_updates with nothing to say, or with a batch of a later month.
LogNoBatch == pending = 0 /\ Acquire("journal", 0) /\ UNCHANGED records

\* write_updates: the journal precedes its append.
JournalBatch ==
  /\ Current /\ pending = 0 /\ batches < MaxBatches
  /\ batches' = batches + 1 /\ pending' = batches + 1
  /\ UNCHANGED <<disk, sharing, age, records, crashes, pc, call, work, target, resume>>
-----------------------------------------------------------------------------
(* rotation_paths in name order, seal_log and append.                      *)

Before(c, d) == c # Month /\ (d = Month \/ c < d)

\* seal_log without a size limit: the file has lines, and the last one is whole.
Sealable == /\ plain[Month] # NoFile /\ Text(plain[Month]) # << >>
            /\ ~EndsTorn(Text(plain[Month]))

\* seal_log renames the tail to the next number and calls compress_log.
SealAs(n, after) ==
  /\ \A m \in SegmentNumbers : m < n
  /\ n = 1 \/ n - 1 \in SegmentNumbers
  /\ plain' = [plain EXCEPT ![n] = plain[Month], ![Month] = NoFile]
  /\ target' = n /\ pc' = "compress" /\ resume' = after
  /\ UNCHANGED <<text, archive, receipt, sharing, inputs, call>>

Visit(c) == c \in work /\ \A d \in work \ {c} : Before(c, d)

RotateComponent(c) ==
  /\ pc = "rotate" /\ Visit(c)
  /\ c # Month \/ SegmentNumbers = {}
  /\ work' = work \ {c}
  /\ target' = c /\ pc' = "compress" /\ resume' = "rotate"
  /\ UNCHANGED <<disk, sharing, inputs, call>>

\* The tail of a closed month that has segments.
RotateTail ==
  /\ pc = "rotate" /\ Visit(Month) /\ SegmentNumbers # {}
  /\ Sealable
  /\ work' = {}
  /\ \E n \in Segments : SealAs(n, "rotate")

KeepTail ==
  /\ pc = "rotate" /\ Visit(Month) /\ SegmentNumbers # {}
  /\ ~Sealable
  /\ work' = {}
  /\ UNCHANGED <<disk, sharing, inputs, pc, call, target, resume>>

FinishRotation ==
  /\ pc = "rotate" /\ work = {}
  /\ pc' = "seal"
  /\ UNCHANGED <<disk, sharing, inputs, call, work, target, resume>>

OverSize == Sealable /\ Len(Text(plain[Month])) >= SegmentLines

SealTail ==
  /\ pc = "seal" /\ series = "general" /\ entry # 0 /\ OverSize
  /\ \E n \in Segments : SealAs(n, "append")
  /\ UNCHANGED work

LeaveTail ==
  /\ pc = "seal" /\ ~(series = "general" /\ entry # 0 /\ OverSize)
  /\ pc' = "append"
  /\ UNCHANGED <<disk, sharing, inputs, call, work, target, resume>>
-----------------------------------------------------------------------------
(* compress_log, with recover_rotation.                                    *)

RetireSource ==
  /\ pc = "compress" /\ Authentic(target) /\ Committed(target)
  /\ pc' = "unlink"
  /\ UNCHANGED <<disk, sharing, inputs, call, work, target, resume>>

WriteReceipt ==
  /\ pc = "compress" /\ Authentic(target) /\ ~Committed(target)
  /\ plain[target] # NoFile
  /\ receipt' = [receipt EXCEPT ![target] =
       {[source |-> Text(plain[target]), archive |-> Checksum(archive[target]),
         target |-> Join(Text(archive[target]), Unarchived(target))]}]
  /\ pc' = "publish"
  /\ UNCHANGED <<text, plain, archive, sharing, inputs, call, work, target, resume>>

\* Mutant: the receipt is removed, and the source is not.
PublishWithoutUnlink ==
  /\ pc = "publish"
  /\ \E r \in receipt[target] : text' = Append(text, r.target)
  /\ archive' = [archive EXCEPT ![target] = Len(text) + 1]
  /\ pc' = "retire"
  /\ UNCHANGED <<plain, receipt, sharing, inputs, call, work, target, resume>>

\* Mutant: the prepared archive is gone with its temporary directory.
PublishRemoved ==
  /\ pc = "publish"
  /\ archive' = [archive EXCEPT ![target] = Len(text) + 1]
  /\ pc' = "unlink"
  /\ UNCHANGED <<text, plain, receipt, sharing, inputs, call, work, target, resume>>

PublishArchive ==
  /\ pc = "publish"
  /\ \E r \in receipt[target] : text' = Append(text, r.target)
  /\ archive' = [archive EXCEPT ![target] = Len(text) + 1]
  /\ pc' = "unlink"
  /\ UNCHANGED <<plain, receipt, sharing, inputs, call, work, target, resume>>

UnlinkSource ==
  /\ pc = "unlink"
  /\ plain' = [plain EXCEPT ![target] = NoFile]
  /\ pc' = "retire"
  /\ UNCHANGED <<text, archive, receipt, sharing, inputs, call, work, target, resume>>

UnlinkReceipt ==
  /\ pc = "retire"
  /\ receipt' = [receipt EXCEPT ![target] = {}]
  /\ pc' = resume
  /\ UNCHANGED <<text, plain, archive, sharing, inputs, call, work, target, resume>>
-----------------------------------------------------------------------------
(* The append itself, and the release of the lock.                         *)

\* path.open("a") creates the file, or writes at its end.
AppendTo(c, lines) ==
  IF plain[c] = NoFile
  THEN text' = Append(text, lines) /\ plain' = [plain EXCEPT ![c] = Len(text) + 1]
  ELSE text' = [text EXCEPT ![plain[c]] = Join(@, lines)] /\ UNCHANGED plain

Release == pc' = "idle" /\ work' = {}

AppendRecord ==
  /\ pc = "append" /\ series = "general" /\ entry # 0
  /\ AppendTo(Month, <<entry>>)
  /\ Release
  /\ UNCHANGED <<archive, receipt, sharing, inputs, call, target, resume>>

\* append_atomic replaces the file.
AppendBatch ==
  /\ pc = "append" /\ series = "journal" /\ entry # 0
  /\ ~HasBatch(Journal, entry)
  /\ text' = Append(text, Append(Text(plain[Journal]), entry))
  /\ plain' = [plain EXCEPT ![Journal] = Len(text) + 1]
  /\ Release
  /\ UNCHANGED <<archive, receipt, sharing, inputs, call, target, resume>>

\* contains_batch finds it, or there is nothing for this month.
AppendNothing ==
  /\ pc = "append"
  /\ entry = 0 \/ (series = "journal" /\ HasBatch(Journal, entry))
  /\ Release
  /\ UNCHANGED <<disk, sharing, inputs, call, target, resume>>

\* recover_updates saves its checkpoint and removes its journal.
Acknowledge ==
  /\ pc = "idle" /\ pending # 0 /\ HasBatch(Journal, pending)
  /\ pending' = 0
  /\ UNCHANGED <<disk, sharing, age, records, batches, crashes, pc, call, work,
                 target, resume>>

\* Death or an exception at any step; a file that was being prepared is private.
Abandon ==
  /\ pc # "idle" /\ crashes < MaxCrashes
  /\ crashes' = crashes + 1
  /\ Release
  /\ UNCHANGED <<disk, sharing, age, records, batches, pending, call, target, resume>>

\* The append of a record created the file, or wrote the start of its line.
TearAppend ==
  /\ pc = "append" /\ series = "general" /\ entry # 0 /\ crashes < MaxCrashes
  /\ crashes' = crashes + 1
  /\ \E lines \in {<< >>, <<Torn>>} : AppendTo(Month, lines)
  /\ Release
  /\ UNCHANGED <<archive, receipt, sharing, age, records, batches, pending, call,
                 target, resume>>
-----------------------------------------------------------------------------
PassTime ==
  /\ ~Closed
  /\ age' = age + 1
  /\ UNCHANGED <<disk, sharing, records, batches, pending, crashes, pc, call, work,
                 target, resume>>

\* read_lock.
Share(r) ==
  /\ pc = "idle" /\ r \notin sharing
  /\ sharing' = sharing \cup {r}
  /\ UNCHANGED <<disk, inputs, pc, call, work, target, resume>>

Unshare(r) ==
  /\ r \in sharing
  /\ sharing' = sharing \ {r}
  /\ UNCHANGED <<disk, inputs, pc, call, work, target, resume>>

StepWriter ==
  \/ \E c \in Components : RotateComponent(c)
  \/ RotateTail \/ KeepTail \/ FinishRotation \/ SealTail \/ LeaveTail
  \/ RetireSource \/ WriteReceipt \/ PublishArchive \/ UnlinkSource \/ UnlinkReceipt
  \/ AppendRecord \/ AppendBatch \/ AppendNothing

NextWriter ==
  \/ LogRecord \/ LogElsewhere \/ LogBatch \/ LogNoBatch
  \/ StepWriter
  \/ JournalBatch \/ Acknowledge \/ Abandon \/ TearAppend \/ PassTime

NextRotation == NextWriter \/ \E r \in Readers : Share(r) \/ Unshare(r)

SpecRotation == InitRotation /\ [][NextRotation]_rotationVars

\* The scheduled run logs, and so does every KMZ it builds, long after a month
\* has closed; a blocked flock is granted, since readers hold the lock for one
\* poll or one month and close their iterators.
FairRotation == /\ SpecRotation
                /\ WF_rotationVars(StepWriter)
                /\ SF_rotationVars(LogElsewhere)
                /\ SF_rotationVars(LogBatch \/ LogNoBatch)
                /\ \A r \in Readers : WF_rotationVars(Unshare(r))
-----------------------------------------------------------------------------
(* Properties.                                                             *)

Texts    == Seq(Int)
Receipts == [source: Texts, archive: SUBSET Texts, target: Texts]
Labels   == {"idle", "rotate", "compress", "publish", "unlink", "retire", "seal",
             "append"}

\* The types of the files, of the calendar and of the writer's locals.
TypeOK ==
  /\ text \in Seq(Texts)
  /\ plain \in [Components -> 0..Len(text)]
  /\ archive \in [Components -> 0..Len(text)]
  /\ receipt \in [Components -> SUBSET Receipts]
  /\ sharing \subseteq Readers /\ age \in 0..2
  /\ records \in 0..MaxRecords /\ batches \in 0..MaxBatches
  /\ pending \in 0..MaxBatches /\ crashes \in Nat
  /\ pc \in Labels /\ series \in Series /\ entry \in Nat
  /\ work \subseteq Components /\ target \in Components
  /\ resume \in {"idle", "rotate", "append"}

\* rotation_committed never raises: whatever was interrupted, the files next to
\* a receipt are the ones it was written for, or the ones it leads to.
ReceiptsAuthenticate == \A c \in Components : Authentic(c)

\* compress_log never deletes or duplicates what it moves, whoever interrupts
\* it: what readers may see of a component changes only by an append at its end,
\* or when the tail becomes the next segment.  A sealed segment is final.
Grows(c) ==
  \/ Held(c)' = Held(c)
  \/ /\ c \notin Segments
     /\ \E line \in {entry, Torn} : Held(c)' = Write(Held(c), line)
  \/ /\ c = Month /\ Held(c)' = Text(archive[c])
     /\ \E n \in Segments : Held(n) = << >> /\ Held(n)' = Text(plain[c])
  \/ /\ c \in Segments /\ ~Exists(c)
     /\ Held(c)' = Text(plain[Month]) /\ Held(Month)' = Text(archive[Month])

TextIsKept == [][\A c \in Components : Grows(c)]_rotationVars

Ascending(S) == [i \in 1..Cardinality(S) |->
                   CHOOSE n \in S : Cardinality({m \in S : m <= n}) = i]

\* What the general series holds: its archive, its segments and its tail.
Kept == LET numbers == Ascending(SegmentNumbers)
            sealed  == [i \in DOMAIN numbers |-> Held(numbers[i])]
            tail    == IF Committed(Month) THEN << >> ELSE Text(plain[Month])
        IN Join(Text(archive[Month]) \o FlattenSeq(sealed), tail)

\* Compression, sealing, recovery and retries implement a log that only grows:
\* each record and each batch is in it once, in the order of the appends.
Retained == INSTANCE RetainedLog WITH
  Records <- 1..MaxRecords, Batches <- 1..MaxBatches,
  general <- Kept, journal <- Held(Journal)
ImplementsRetainedLog == Retained!Spec

\* Once the month is old enough, every component ends as an archive alone; an
\* unfinished or empty tail next to segments stays for its writer.
Settled ==
  /\ \A c \in Components : receipt[c] = {}
  /\ \A c \in {Journal} \cup Segments : plain[c] = NoFile
  /\ plain[Month] = NoFile \/ (SegmentNumbers # {} /\ ~Sealable)
Settles == Closed ~> []Settled
=============================================================================
