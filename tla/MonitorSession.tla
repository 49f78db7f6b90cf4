--------------------------- MODULE MonitorSession --------------------------
(***************************************************************************)
(* The monitor's session (monitor/session.py, monitor/tasks.py): callers   *)
(* queue requests, one dispatcher runs them one at a time under the        *)
(* owner's lock, each publishes a whole new snapshot to single-slot        *)
(* mailboxes, file notifications mark the health for a refresh, and close  *)
(* settles everything before the readers' descriptors go.  All coroutines  *)
(* share one event loop: an action is what runs between two awaits, and    *)
(* the threads that read files run beside them.  Simplifications:          *)
(*  - A user's request adds one part to the snapshot; the clock's (and the *)
(*    start's) reads the health evidence: `asof` is how many changes there *)
(*    were when it was read, `health` how many of them it covers.  It      *)
(*    covers fewer when a file could not be read: the reader swallows the  *)
(*    OSError and the history carries it as a diagnostic.                  *)
(*  - A reading that fails again, with nothing changed since the one       *)
(*    before, leaves the evidence as it was and is left out.  (An archive  *)
(*    that failed is not even tried again before archives change.)         *)
(*  - The reader's own history is that of the last snapshot: one reader,   *)
(*    and whatever it read is published unless the session has stopped.    *)
(*  - The records and report requests that follow a tick's, and a tick     *)
(*    that only ages the evidence, take the same way and are left out, and *)
(*    so is a reconciliation that can find nothing new.                    *)
(*  - Nobody cancels the clock or the dispatcher; close is shielded from   *)
(*    its own caller by settle, so that cancellation shows no difference.  *)
(***************************************************************************)
EXTENDS Naturals, Sequences, SequencesExt

CONSTANTS User,        \* callers with one request each
          Clock,       \* start, then the clock observer
          Subscriber,
          MaxWrites,   \* bound on the changes of the watched files
          MaxRetries   \* bound on the failures of the readers' cleanup

ASSUME ClockAssumption == Clock \notin User
ASSUME BoundsAssumption == MaxWrites \in Nat /\ MaxRetries \in Nat

Caller == User \cup {Clock}

Immediate == 0
Normal == 1
Background == 2

VARIABLES
  disk,        \* changes made to the watched files
  hinted,      \* history: those covered by a notification
  changed,     \* files_changed
  snapshot,    \* the committed Snapshot: version, evidence, parts
  queue,       \* pending, in submission order: [caller, priority]
  call,        \* what became of each caller's request
  dispatcher,  \* the dispatcher's place; "off" when its task is done
  current,     \* the caller it serves
  candidate,   \* the snapshot its operation is building
  lock,        \* owner.lock
  stopped,     \* owner.stopped (and watching_stopped)
  readers,     \* the follower's and the history reader's descriptors
  closer,      \* the place of the task close waits for
  failures,    \* history: how often the cleanup failed
  clock,       \* the clock observer
  mode,        \* each subscription: "out", "in" or "closed"
  mail,        \* its queue of at most one version
  seen         \* the last version it received

files == <<disk, hinted, changed>>
requests == <<queue, call, dispatcher, current>>
owner == <<lock, stopped, readers, closer, failures>>
delivery == <<mode, mail, seen>>
vars == <<files, snapshot, candidate, requests, owner, clock, delivery>>

Empty == [version |-> 0, asof |-> 0, health |-> 0, parts |-> {}]

\* start() has queued the first health request.
Init ==
  /\ disk = 0 /\ hinted = 0 /\ changed = FALSE
  /\ snapshot = Empty /\ candidate = Empty
  /\ queue = <<[caller |-> Clock, priority |-> Normal]>>
  /\ call = [c \in Caller |-> IF c = Clock THEN "queued" ELSE "none"]
  /\ dispatcher = "loop" /\ current = Clock
  /\ lock = "free" /\ stopped = FALSE /\ readers = "open"
  /\ closer = "none" /\ failures = 0
  /\ clock = "starting"
  /\ mode = [s \in Subscriber |-> "out"]
  /\ mail = [s \in Subscriber |-> << >>] /\ seen = [s \in Subscriber |-> 0]
-----------------------------------------------------------------------------
(* Callers.                                                                *)

\* MonitorSession.request up to its await.
Submit(c, priority) ==
  \/ /\ stopped
     /\ call' = [call EXCEPT ![c] = "settled"]
     /\ UNCHANGED <<queue, dispatcher, current>>
  \/ /\ ~stopped
     /\ queue' = Append(queue, [caller |-> c, priority |-> priority])
     /\ call' = [call EXCEPT ![c] = "queued"]
     /\ dispatcher' = IF dispatcher = "off" THEN "loop" ELSE dispatcher
     /\ UNCHANGED current

\* At the default priority; an immediate request is one promoted at once.
Ask(u) ==
  /\ call[u] = "none"
  /\ Submit(u, Normal)
  /\ UNCHANGED <<files, snapshot, candidate, owner, clock, delivery>>

\* The caller is cancelled: a waiting request is withdrawn, a started one is
\* waited for.
Cancel(u) ==
  /\ call[u] \in {"queued", "admitted"}
  /\ call' = [call EXCEPT ![u] = IF @ = "queued" THEN "withdrawn" ELSE "abandoned"]
  /\ UNCHANGED <<files, snapshot, candidate, queue, dispatcher, current, owner, clock,
                 delivery>>

Promote(u) ==
  /\ call[u] = "queued"
  /\ \E i \in DOMAIN queue :
       /\ queue[i].caller = u /\ Immediate < queue[i].priority
       /\ queue' = [queue EXCEPT ![i].priority = Immediate]
  /\ UNCHANGED <<files, snapshot, candidate, call, dispatcher, current, owner, clock,
                 delivery>>
-----------------------------------------------------------------------------
(* The dispatcher and the operation it runs.                               *)

\* The heap's root: the strongest priority, then the earliest submission.
First(i) ==
  \A j \in DOMAIN queue : \/ queue[i].priority < queue[j].priority
                          \/ queue[i].priority = queue[j].priority /\ i <= j

\* Mutant: a withdrawn request ends the dispatcher.
PickAndQuit ==
  /\ dispatcher = "loop"
  /\ \/ /\ queue = << >>
        /\ dispatcher' = "off"
        /\ UNCHANGED <<queue, call, current>>
     \/ \E i \in DOMAIN queue :
          LET c == queue[i].caller IN
          /\ First(i)
          /\ queue' = RemoveAt(queue, i)
          /\ \/ /\ call[c] = "withdrawn" /\ dispatcher' = "off"
                /\ call' = [call EXCEPT ![c] = "settled"] /\ UNCHANGED current
             \/ /\ call[c] = "queued"
                /\ call' = [call EXCEPT ![c] = "admitted"]
                /\ current' = c /\ dispatcher' = "entering"
  /\ UNCHANGED <<files, snapshot, candidate, owner, clock, delivery>>

Pick ==
  /\ dispatcher = "loop"
  /\ \/ /\ queue = << >>
        /\ dispatcher' = "off"
        /\ UNCHANGED <<queue, call, current>>
     \/ \E i \in DOMAIN queue :
          LET c == queue[i].caller IN
          /\ First(i)
          /\ queue' = RemoveAt(queue, i)
          /\ \/ /\ call[c] = "withdrawn"
                /\ UNCHANGED <<call, dispatcher, current>>
             \/ /\ call[c] = "queued"
                /\ call' = [call EXCEPT ![c] = "admitted"]
                /\ current' = c /\ dispatcher' = "entering"
  /\ UNCHANGED <<files, snapshot, candidate, owner, clock, delivery>>

\* The result reaches its caller, or the cleanup of a cancelled one; only what the
\* clock does next depends on it.
Settle(how) ==
  /\ call' = [call EXCEPT ![current] = IF current = Clock THEN how ELSE "settled"]
  /\ dispatcher' = "loop" /\ current' = Clock
  /\ UNCHANGED queue

\* Owner.run: after stop the answer is the committed snapshot.
Enter ==
  /\ dispatcher = "entering" /\ lock = "free"
  /\ \/ stopped /\ Settle("settled") /\ UNCHANGED <<lock, candidate>>
     \/ /\ ~stopped
        /\ lock' = "dispatcher" /\ dispatcher' = "reading" /\ candidate' = snapshot
        /\ UNCHANGED <<queue, call, current>>
  /\ UNCHANGED <<files, snapshot, stopped, readers, closer, failures, clock, delivery>>

Evidence(health) == [candidate EXCEPT !.asof = disk, !.health = health]

\* The worker thread is done with the readers, and no file failed it.
ReadHealth ==
  /\ dispatcher = "reading" /\ current = Clock
  /\ candidate' = Evidence(disk)
  /\ dispatcher' = "publishing"
  /\ UNCHANGED <<files, snapshot, queue, call, current, owner, clock, delivery>>

\* An error in a file is swallowed and the request goes on: the evidence stays as it
\* was, or grows by what other files gave; changed archives had made the reader start
\* over, and what it then fails to read again is lost.
ReadHealthInPart ==
  /\ dispatcher = "reading" /\ current = Clock
  /\ candidate.asof < disk
  /\ \E health \in 0..(disk - 1) : candidate' = Evidence(health)
  /\ dispatcher' = "publishing"
  /\ UNCHANGED <<files, snapshot, queue, call, current, owner, clock, delivery>>

\* A user's request finds its part or, with nothing left or a swallowed error, does not;
\* records that are not exhausted ask for another tick.
ReadPart ==
  /\ dispatcher = "reading" /\ current \in User
  /\ candidate' \in {candidate, [candidate EXCEPT !.parts = @ \cup {current}]}
  /\ changed' \in {changed, TRUE}
  /\ dispatcher' = "publishing"
  /\ UNCHANGED <<disk, hinted, snapshot, queue, call, current, owner, clock,
                 delivery>>

\* An exception nobody swallows.
ReadFails ==
  /\ dispatcher = "reading"
  /\ lock' = "free" /\ candidate' = Empty
  /\ Settle("failed")
  /\ UNCHANGED <<files, snapshot, stopped, readers, closer, failures, clock,
                 delivery>>

\* Mutant: an undelivered version keeps its place.
OfferIfFree(version) ==
  [s \in Subscriber |->
     IF mode[s] = "in" /\ mail[s] = << >> THEN <<version>> ELSE mail[s]]

\* offer, to every attached subscription.
Offer(version) ==
  [s \in Subscriber |-> IF mode[s] = "in" THEN <<version>> ELSE mail[s]]

\* Mutant: what finishes after stop is published too.
PublishAlways ==
  /\ dispatcher = "publishing"
  /\ snapshot' = [candidate EXCEPT !.version = snapshot.version + 1]
  /\ mail' = Offer(snapshot.version + 1)
  /\ lock' = "free" /\ candidate' = Empty
  /\ Settle("settled")
  /\ UNCHANGED <<files, stopped, readers, closer, failures, clock, mode, seen>>

\* publish, then the owner's lock is released.  A user's request that found nothing may
\* return the committed snapshot itself.
Publish ==
  /\ dispatcher = "publishing"
  /\ \/ /\ stopped \/ (current \in User /\ candidate = snapshot)
        /\ UNCHANGED <<snapshot, mail>>
     \/ /\ ~stopped
        /\ snapshot' = [candidate EXCEPT !.version = snapshot.version + 1]
        /\ mail' = Offer(snapshot.version + 1)
  /\ lock' = "free" /\ candidate' = Empty
  /\ Settle("settled")
  /\ UNCHANGED <<files, stopped, readers, closer, failures, clock, mode, seen>>

Dispatch == \/ Pick \/ Enter \/ ReadHealth \/ ReadHealthInPart \/ ReadPart \/ ReadFails
            \/ Publish
-----------------------------------------------------------------------------
(* Observation.                                                            *)

Write ==
  /\ disk < MaxWrites /\ disk' = disk + 1
  /\ UNCHANGED <<hinted, changed, snapshot, candidate, requests, owner, clock,
                 delivery>>

\* watch: a native notification covers every change made so far.
Hint ==
  /\ clock \in {"waiting", "ticking"} /\ ~stopped /\ hinted < disk
  /\ changed' = TRUE /\ hinted' = disk
  /\ UNCHANGED <<disk, snapshot, candidate, requests, owner, clock, delivery>>

TickRefreshes ==
  /\ clock = "waiting" /\ ~stopped
  /\ clock' = "ticking"
  /\ Submit(Clock, Background)
  /\ UNCHANGED <<disk, hinted, snapshot, candidate, owner, delivery>>

TickOnHint == changed /\ changed' = FALSE /\ TickRefreshes

\* The reconciliation deadline has passed without a notification, and the files have
\* something the evidence lacks.
TickOnDeadline ==
  /\ ~changed /\ snapshot.health # disk
  /\ UNCHANGED changed
  /\ TickRefreshes

\* Mutant: the hint is dropped when its refresh is done.
ClearAfterwards ==
  /\ clock = "starting" \/ clock = "ticking"
  /\ call[Clock] \in {"settled", "failed"}
  /\ clock' = CASE call[Clock] = "failed" -> "failed"
                [] clock = "starting" /\ stopped -> "done"
                [] OTHER -> "waiting"
  /\ call' = [call EXCEPT ![Clock] = "none"]
  /\ changed' = FALSE
  /\ UNCHANGED <<disk, hinted, snapshot, candidate, queue, dispatcher, current, owner,
                 delivery>>

\* start attaches the observers, or the tick returns; an error ends the observation.
ClockResumes ==
  /\ clock = "starting" \/ clock = "ticking"
  /\ call[Clock] \in {"settled", "failed"}
  /\ clock' = CASE call[Clock] = "failed" -> "failed"
                [] clock = "starting" /\ stopped -> "done"
                [] OTHER -> "waiting"
  /\ call' = [call EXCEPT ![Clock] = "none"]
  /\ UNCHANGED <<files, snapshot, candidate, queue, dispatcher, current, owner, delivery>>

ClockStops ==
  /\ clock = "waiting" /\ stopped
  /\ clock' = "done"
  /\ UNCHANGED <<files, snapshot, candidate, requests, owner, delivery>>

Observe == TickOnHint \/ ClockResumes \/ ClockStops
-----------------------------------------------------------------------------
(* close.                                                                  *)

Close ==
  /\ closer = "none"
  /\ stopped' = TRUE /\ closer' = "locking"
  /\ queue' = << >>
  /\ call' = [c \in Caller |-> IF call[c] = "queued" THEN "settled" ELSE call[c]]
  /\ UNCHANGED <<files, snapshot, candidate, dispatcher, current, lock, readers, failures,
                 clock, delivery>>

\* Mutant: the cleanup does not wait for the operation in progress.
LockAtOnce ==
  /\ closer = "locking"
  /\ lock' = "closer"
  /\ closer' = "releasing"
  /\ UNCHANGED <<files, snapshot, candidate, requests, stopped, readers, failures, clock,
                 delivery>>

Lock ==
  /\ closer = "locking" /\ lock = "free"
  /\ lock' = "closer"
  /\ closer' = "releasing"
  /\ UNCHANGED <<files, snapshot, candidate, requests, stopped, readers, failures, clock,
                 delivery>>

Release ==
  /\ closer = "releasing"
  /\ readers' = "closed" /\ lock' = "free" /\ closer' = "gathering"
  /\ UNCHANGED <<files, snapshot, candidate, requests, stopped, failures, clock, delivery>>

\* close raises, the session stays stopped, and close may be called again.
ReleaseFails ==
  /\ closer = "releasing" /\ failures < MaxRetries
  /\ failures' = failures + 1
  /\ lock' = "free" /\ closer' = "none"
  /\ UNCHANGED <<files, snapshot, candidate, requests, stopped, readers, clock, delivery>>

\* finish: the observers and the dispatcher are done, the subscriptions end.
Gather ==
  /\ closer = "gathering"
  /\ clock \notin {"waiting", "ticking"} /\ dispatcher = "off"
  /\ mode' = [s \in Subscriber |-> IF mode[s] = "in" THEN "closed" ELSE mode[s]]
  /\ mail' = [s \in Subscriber |-> << >>] /\ seen' = [s \in Subscriber |-> 0]
  /\ closer' = "closed"
  /\ UNCHANGED <<files, snapshot, candidate, requests, lock, stopped, readers, failures,
                 clock>>

Closing == Lock \/ Release \/ ReleaseFails \/ Gather
-----------------------------------------------------------------------------
(* Subscriptions.                                                          *)

Subscribe(s) ==
  /\ mode[s] = "out"
  /\ \/ stopped /\ mode' = [mode EXCEPT ![s] = "closed"] /\ UNCHANGED mail
     \/ /\ ~stopped
        /\ mode' = [mode EXCEPT ![s] = "in"]
        /\ mail' = [mail EXCEPT ![s] = <<snapshot.version>>]
  /\ UNCHANGED <<files, snapshot, candidate, requests, owner, clock, seen>>

Receive(s) ==
  /\ mode[s] = "in" /\ mail[s] # << >>
  /\ seen' = [seen EXCEPT ![s] = mail[s][1]]
  /\ mail' = [mail EXCEPT ![s] = << >>]
  /\ UNCHANGED <<files, snapshot, candidate, requests, owner, clock, mode>>

\* close puts None in the mailbox: the consumer's iteration ends.
Unsubscribe(s) ==
  /\ mode[s] = "in"
  /\ mode' = [mode EXCEPT ![s] = "closed"]
  /\ mail' = [mail EXCEPT ![s] = << >>]
  /\ seen' = [seen EXCEPT ![s] = 0]
  /\ UNCHANGED <<files, snapshot, candidate, requests, owner, clock>>

Next ==
  \/ \E u \in User : Ask(u) \/ Cancel(u) \/ Promote(u)
  \/ Dispatch \/ Write \/ Hint \/ Observe \/ TickOnDeadline \/ Close \/ Closing
  \/ \E s \in Subscriber : Subscribe(s) \/ Receive(s) \/ Unsubscribe(s)

Spec == Init /\ [][Next]_vars

\* The event loop runs every coroutine that can run and the threads end; no caller,
\* consumer, deadline or call of close is promised.
FairSpec == /\ Spec
            /\ WF_vars(Dispatch) /\ WF_vars(Observe) /\ WF_vars(Closing)
-----------------------------------------------------------------------------
(* Properties.                                                             *)

\* The readers' descriptors are open while a worker thread uses them, and only the
\* owner of the lock uses or closes them.
ReadersOwned ==
  /\ dispatcher \in {"reading", "publishing"} => lock = "dispatcher"
  /\ dispatcher = "reading" => readers = "open"
  /\ closer = "releasing" => lock = "closer"

\* A subscriber that has not been given the newest version has it waiting, however
\* slowly it reads: the single slot never holds on to an older one.
NewestDelivered ==
  \A s \in Subscriber : mode[s] = "in" =>
    \/ mail[s] = <<snapshot.version>>
    \/ mail[s] = << >> /\ seen[s] = snapshot.version

\* A committed snapshot is the next version, keeps every part committed before it and
\* never goes back to an older reading; only a reading that failed on changed files can
\* cover less than the one before; nothing is committed after stop.
CommitsInOrder ==
  [][snapshot' # snapshot =>
       /\ ~stopped /\ snapshot'.version = snapshot.version + 1
       /\ snapshot.parts \subseteq snapshot'.parts
       /\ snapshot.asof <= snapshot'.asof
       /\ snapshot'.health < snapshot.health =>
            snapshot.asof < snapshot'.asof /\ snapshot'.health < snapshot'.asof]_vars

Unsettled == {c \in Caller : call[c] \in {"queued", "admitted", "abandoned"}}

\* With finitely many requests, every one is answered or its cancelled caller is
\* released; a close that has begun ends (or its cleanup fails) with every subscription
\* told.
SessionSettles ==
  /\ Unsettled # {} ~> Unsettled = {}
  /\ closer = "locking" ~> closer = "none" \/
       (closer = "closed" /\ \A s \in Subscriber : mode[s] # "in")

Observing == ~stopped /\ clock # "failed"

\* While the session observes, a notification, whenever it comes, leads to evidence of a
\* reading that began after it, without waiting for the next reconciliation; files that
\* fail such a reading are missing from it and reported.  If the reconciliation deadline
\* keeps passing, a change nobody was notified of comes to be read as well.
HintIsObserved ==
  /\ hinted > snapshot.asof ~> hinted <= snapshot.asof \/ ~Observing
  /\ WF_vars(TickOnDeadline) =>
       (disk > snapshot.asof ~> disk <= snapshot.asof \/ ~Observing)
=============================================================================
