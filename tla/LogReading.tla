----------------------------- MODULE LogReading -----------------------------
(***************************************************************************)
(* Those who read the general series while it rotates: commands that list  *)
(* the months and then stream one (log_paths, complete_lines), and the     *)
(* monitor's health reader (monitor/history.py Reader over                 *)
(* monitor/storage.py Follower), which keeps files open between its polls. *)
(* A poll is one step: it holds the shared lock from start to end.         *)
(* Simplifications: everything is inside the time window that is read; no  *)
(* file is unreadable (the poller swallows an OSError and reports it with  *)
(* what it has, caught up or not); and log_paths, which globs without the  *)
(* lock, lists a month in one step.                                        *)
(***************************************************************************)
EXTENDS LogRotation

CONSTANT ReadLines  \* MAXIMUM_READ_BYTES, in lines

ASSUME ReadAssumption == ReadLines \in Nat \ {0}

VARIABLES
  stage,   \* where each command is: idle, listed, reading or refused
  pieces,  \* log_components it has not read yet
  view,    \* the lines it has yielded
  health   \* the monitor's Reader and its Follower

readers == <<stage, pieces, view>>
vars == <<rotationVars, readers, health>>

NoHealth == [loaded   |-> FALSE,   \* the month is in `months`
             archives |-> {},      \* archive_signatures
             cursors  |-> << >>,   \* the open files and the lines read of each
             evidence |-> << >>,   \* history
             caughtUp |-> FALSE]

Init == /\ InitRotation
        /\ stage = [r \in Readers |-> "idle"]
        /\ pieces = [r \in Readers |-> << >>]
        /\ view = pieces
        /\ health = NoHealth
-----------------------------------------------------------------------------
(* Which files hold the month.                                             *)

Piece(c, kind) == IF (IF kind = "plain" THEN plain[c] ELSE archive[c]) = NoFile
                  THEN << >> ELSE << <<c, kind>> >>

\* Mutant: every plain file is a later tail.
AllPieces(c) == Piece(c, "archive") \o Piece(c, "plain")

\* log_components of one component.
ComponentPieces(c) ==
  Piece(c, "archive") \o IF Committed(c) THEN << >> ELSE Piece(c, "plain")

\* log_components of a month: its archive, its segments, its tail.
MonthPieces ==
  LET numbers == Ascending(SegmentNumbers)
      sealed  == [i \in DOMAIN numbers |-> ComponentPieces(numbers[i])]
  IN Piece(Month, "archive") \o FlattenSeq(sealed)
     \o IF Committed(Month) THEN << >> ELSE Piece(Month, "plain")

\* log_components raises.
Unreadable ==
  \/ MonthPieces = << >>
  \/ \E n \in SegmentNumbers : ComponentPieces(n) = << >>
  \/ \E c \in SegmentNumbers \cup {Month} : ~Authentic(c)

\* log_paths.
Listed == plain[Month] # NoFile \/ archive[Month] # NoFile \/ SegmentNumbers # {}

FileOf(piece) == IF piece[2] = "plain" THEN plain[piece[1]] ELSE archive[piece[1]]
-----------------------------------------------------------------------------
(* A command: log_paths, then complete_lines of a month it listed.         *)

ListMonth(r) ==
  /\ stage[r] = "idle" /\ Listed
  /\ stage' = [stage EXCEPT ![r] = "listed"]
  /\ UNCHANGED <<rotationVars, pieces, view, health>>

OpenMonth(r) ==
  /\ stage[r] = "listed" /\ ~Unreadable
  /\ Share(r)
  /\ stage' = [stage EXCEPT ![r] = "reading"]
  /\ pieces' = [pieces EXCEPT ![r] = MonthPieces]
  /\ UNCHANGED <<view, health>>

ReadPiece(r) ==
  /\ stage[r] = "reading" /\ pieces[r] # << >>
  /\ view' = [view EXCEPT ![r] = @ \o CompleteLines(Text(FileOf(pieces[r][1])))]
  /\ pieces' = [pieces EXCEPT ![r] = Tail(@)]
  /\ UNCHANGED <<rotationVars, stage, health>>

\* At the end, or when the caller closes the iterator early.
CloseMonth(r) ==
  /\ stage[r] = "reading"
  /\ Unshare(r)
  /\ stage' = [stage EXCEPT ![r] = "idle"]
  /\ pieces' = [pieces EXCEPT ![r] = << >>]
  /\ view' = [view EXCEPT ![r] = << >>]
  /\ UNCHANGED health
-----------------------------------------------------------------------------
(* The health reader.                                                      *)

Lines(file) == CompleteLines(Text(file))

Archives == {piece \in ToSet(MonthPieces) : piece[2] = "archive"}

Signatures == {<<piece[1], FileOf(piece)>> : piece \in Archives}

\* Mutant: the open files are trusted to see everything.
NeverRestarted(h) == h

\* A new archive of a month that was loaded: everything is read again.
Restarted(h) == IF h.loaded /\ ~(Signatures \subseteq h.archives) THEN NoHealth ELSE h

LinesOf(sequence) ==
  FlattenSeq([i \in DOMAIN sequence |-> Lines(FileOf(sequence[i]))])

\* The items of a sequence that are in S, in its order.
Among(sequence, S) ==
  FlattenSeq([i \in DOMAIN sequence |->
                IF sequence[i] \in S THEN <<sequence[i]>> ELSE << >>])

\* The archives of a month that is not in `months`, ahead of its plain files.
Replayed(h) ==
  [h EXCEPT !.archives = Signatures,
            !.loaded   = @ \/ Listed,
            !.evidence = IF h.loaded THEN @
                         ELSE @ \o LinesOf(Among(MonthPieces, Archives))]

\* The plain files without a cursor.
Unopened(h) == {piece \in ToSet(MonthPieces) \ Archives :
                  \A i \in DOMAIN h.cursors : h.cursors[i].file # FileOf(piece)}

\* Mutant: a new file is opened at its end.
DiscoveredTails(h) ==
  LET new == Among(MonthPieces, Unopened(h))
  IN [h EXCEPT !.cursors = @ \o [i \in DOMAIN new |->
        [file |-> FileOf(new[i]), at |-> Len(Lines(FileOf(new[i])))]]]

\* discover: a file that is already open keeps its cursor.
Discovered(h) ==
  LET new == Among(MonthPieces, Unopened(h))
  IN [h EXCEPT !.cursors =
        @ \o [i \in DOMAIN new |-> [file |-> FileOf(new[i]), at |-> 0]]]

Unread(cursor) == Len(Lines(cursor.file)) - cursor.at

\* read_cursor.
Batch(cursor) ==
  SubSeq(Lines(cursor.file), cursor.at + 1,
         cursor.at + IF Unread(cursor) > ReadLines THEN ReadLines ELSE Unread(cursor))

Advanced(cursor) == [cursor EXCEPT !.at = @ + Len(Batch(cursor))]

\* poll_locked reads the cursors in order, up to the first it cannot exhaust.
Polled(h) ==
  LET busy    == {i \in DOMAIN h.cursors : Unread(h.cursors[i]) > ReadLines}
      last    == IF busy = {} THEN Len(h.cursors) ELSE CHOOSE i \in busy :
                                                         \A j \in busy : i <= j
      current == {FileOf(piece) : piece \in ToSet(MonthPieces) \ Archives}
      after   == [i \in DOMAIN h.cursors |->
                    IF i <= last THEN Advanced(h.cursors[i]) ELSE h.cursors[i]]
      kept    == {cursor \in ToSet(after) :
                    cursor.file \in current \/ Unread(cursor) > 0}
  IN [h EXCEPT !.evidence = @ \o FlattenSeq([i \in 1..last |-> Batch(h.cursors[i])]),
               !.cursors  = Among(SubSeq(after, 1, last), kept)
                            \o SubSeq(after, last + 1, Len(after)),
               !.caughtUp = busy = {}]

PollHealth ==
  /\ pc = "idle"
  /\ health' = Polled(Discovered(Replayed(Restarted(health))))
  /\ UNCHANGED <<rotationVars, readers>>
-----------------------------------------------------------------------------
Next ==
  \/ NextWriter /\ UNCHANGED <<readers, health>>
  \/ \E r \in Readers : ListMonth(r) \/ OpenMonth(r) \/ ReadPiece(r) \/ CloseMonth(r)
  \/ PollHealth

Spec == Init /\ [][Next]_vars
-----------------------------------------------------------------------------
(* Properties.                                                             *)

\* complete_lines yields every complete line of the month, in order and once,
\* although its parts are opened one after another.
ReadsWholeMonth == \A r \in Readers :
  stage[r] = "reading" /\ pieces[r] = << >> => view[r] = CompleteLines(Kept)

\* A month that log_paths listed without the lock is still there, under whatever
\* names, when complete_lines opens it.
ListedIsReadable == \A r \in Readers : stage[r] = "listed" => ~Unreadable

\* The monitor's evidence has each line of the log at most once and skips none,
\* while the files it follows are renamed, compressed and removed.
EvidenceIsPrefix == IsPrefix(health.evidence, CompleteLines(Kept))

\* A poll that says it caught up has all the lines there are.
CaughtUpIsComplete ==
  [][health' # health /\ health'.caughtUp => health'.evidence = CompleteLines(Kept)]_vars
=============================================================================
