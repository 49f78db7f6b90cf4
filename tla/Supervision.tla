------------------------------ MODULE Supervision -----------------------------
(***************************************************************************)
(* One year directory, the commands that write it and the readers of its   *)
(* geography.  A `run' that crosses geography keeps the year's lease and   *)
(* works through two child processes, one after the other; any other range *)
(* and validate_sources work in the command's own process.  A lease is an  *)
(* flock on an open file description: children inherit references to it,   *)
(* nobody unlocks it, and the kernel drops it with the last reference.     *)
(* Interrupts, termination, failing children and kill -9 of the command    *)
(* come at any time.  Simplifications:                                     *)
(*  - What a segment does is one kind of write, repeated; a segment has no *)
(*    duty to finish (a stage may hang).                                   *)
(*  - SIGTERM, the grace period and SIGKILL of a child are one step.       *)
(*  - Process groups and the children's descendants are left out.          *)
(***************************************************************************)
EXTENDS Naturals

CONSTANTS Invocation, Reader, Nobody

ASSUME NobodyAssumption == Nobody \notin Invocation

Segment == 1..2             \* fetch to geography, and the stages after it
Process == {0} \cup Segment \* 0 is the command itself

VARIABLES
  parent,     \* per invocation: where the command is
  segment,    \* per invocation: the segment it starts or waits for
  launch,     \* per invocation: process creation is under way
  child,      \* per invocation and segment: the child process
  response,   \* per invocation: response.json
  references, \* per invocation: processes that hold its lock description open
  locked,     \* the invocation whose description has the exclusive lock
  readers,    \* readers with a shared lock
  year        \* history: the invocation that last changed the year's files

command == <<parent, segment>>
lock    == <<references, locked>>
vars == <<command, launch, child, response, lock, readers, year>>

Working == {"working", "answered"}
Live    == {"starting"} \cup Working
\* Inside `with run_lease(...)'.
Leased  == {"leased", "direct", "launching", "waiting", "settling", "leaving"}

TypeOK ==
  /\ parent \in [Invocation -> {"outside", "ended", "killed"} \cup Leased]
  /\ segment \in [Invocation -> Segment]
  /\ launch \in [Invocation -> BOOLEAN]
  /\ child \in [Invocation -> [Segment -> {"none", "succeeded", "failed"} \cup Live]]
  /\ response \in [Invocation -> {"none", "score", "complete"}]
  /\ references \in [Invocation -> SUBSET Process]
  /\ locked \in Invocation \cup {Nobody}
  /\ readers \subseteq Reader
  /\ year \in Invocation \cup {Nobody}

Init ==
  /\ parent = [i \in Invocation |-> "outside"]
  /\ segment = [i \in Invocation |-> 1]
  /\ launch = [i \in Invocation |-> FALSE]
  /\ child = [i \in Invocation |-> [s \in Segment |-> "none"]]
  /\ response = [i \in Invocation |-> "none"]
  /\ references = [i \in Invocation |-> {}]
  /\ locked = Nobody /\ readers = {} /\ year = Nobody

Move(i, place) == parent' = [parent EXCEPT ![i] = place] /\ UNCHANGED segment

Becomes(i, s, status) == child' = [child EXCEPT ![i][s] = status]

Open(i, p) == references' = [references EXCEPT ![i] = @ \cup {p}]

\* Mutant: a holder unlocks the shared description when it lets go.
CloseUnlocking(i, p) ==
  /\ references' = [references EXCEPT ![i] = @ \ {p}]
  /\ locked' = IF locked = i THEN Nobody ELSE locked

\* The lock goes with the last reference to its description.
Close(i, p) ==
  /\ references' = [references EXCEPT ![i] = @ \ {p}]
  /\ locked' = IF locked = i /\ references[i] \subseteq {p} THEN Nobody ELSE locked
-----------------------------------------------------------------------------
(* The lease: run_lease, and read_lock for readers in other processes.     *)

Acquire(i) ==
  /\ parent[i] = "outside" /\ locked = Nobody /\ readers = {}
  /\ locked' = i
  /\ Open(i, 0)
  /\ Move(i, "leased")
  /\ UNCHANGED <<launch, child, response, readers, year>>

\* BlockingIOError: another writer or a reader; the command does nothing.
Skip(i) ==
  /\ parent[i] = "outside" /\ (locked = Nobody => readers # {})
  /\ Move(i, "ended")
  /\ UNCHANGED <<launch, child, response, lock, readers, year>>

\* The with statement ends: the command closes its reference.
Leave(i) ==
  /\ parent[i] = "leaving"
  /\ Close(i, 0)
  /\ Move(i, "ended")
  /\ UNCHANGED <<launch, child, response, readers, year>>

\* Mutant: a reader goes on although the lock was refused.
BeginReadingAnyway(r) ==
  /\ r \notin readers
  /\ readers' = readers \cup {r}
  /\ UNCHANGED <<command, launch, child, response, lock, year>>

BeginReading(r) ==
  /\ r \notin readers /\ locked = Nobody
  /\ readers' = readers \cup {r}
  /\ UNCHANGED <<command, launch, child, response, lock, year>>

EndReading(r) ==
  /\ r \in readers
  /\ readers' = readers \ {r}
  /\ UNCHANGED <<command, launch, child, response, lock, year>>

\* Another command starts, under the name of one whose processes are gone.
Restart(i) ==
  /\ parent[i] \in {"ended", "killed"} /\ references[i] = {}
  /\ parent' = [parent EXCEPT ![i] = "outside"]
  /\ segment' = [segment EXCEPT ![i] = 1]
  /\ child' = [child EXCEPT ![i] = [s \in Segment |-> "none"]]
  /\ response' = [response EXCEPT ![i] = "none"]
  /\ UNCHANGED <<launch, lock, readers, year>>
-----------------------------------------------------------------------------
(* The command: execute_request in its own process, or supervise.          *)

ExecuteDirectly(i) ==
  /\ parent[i] = "leased" /\ segment[i] = 1
  /\ Move(i, "direct")
  /\ UNCHANGED <<launch, child, response, lock, readers, year>>

DirectWrites(i) ==
  /\ parent[i] = "direct"
  /\ year' = i
  /\ UNCHANGED <<command, launch, child, response, lock, readers>>

\* Finished, failed or interrupted.
DirectEnds(i) ==
  /\ parent[i] = "direct"
  /\ Move(i, "leaving")
  /\ UNCHANGED <<launch, child, response, lock, readers, year>>

\* run_child: the last response is removed before the child is created.
Launch(i) ==
  /\ parent[i] = "leased"
  /\ launch' = [launch EXCEPT ![i] = TRUE]
  /\ response' = [response EXCEPT ![i] = "none"]
  /\ Move(i, "launching")
  /\ UNCHANGED <<child, lock, readers, year>>

AfterLaunch(i) == IF parent[i] = "launching" THEN "waiting" ELSE parent[i]

\* Mutant: the lease descriptor is not in pass_fds.
SpawnUninherited(i) ==
  /\ launch[i]
  /\ launch' = [launch EXCEPT ![i] = FALSE]
  /\ Becomes(i, segment[i], "starting")
  /\ Move(i, AfterLaunch(i))
  /\ UNCHANGED <<lock, response, readers, year>>

\* The process exists, whether or not the command was interrupted meanwhile.
Spawn(i) ==
  /\ launch[i]
  /\ launch' = [launch EXCEPT ![i] = FALSE]
  /\ Becomes(i, segment[i], "starting")
  /\ Open(i, segment[i])
  /\ Move(i, AfterLaunch(i))
  /\ UNCHANGED <<response, locked, readers, year>>

LaunchFails(i) ==
  /\ launch[i]
  /\ launch' = [launch EXCEPT ![i] = FALSE]
  /\ Move(i, IF parent[i] = "launching" THEN "leaving" ELSE parent[i])
  /\ UNCHANGED <<child, response, lock, readers, year>>

\* A status other than zero, or the whole range is done.
ChildJoined(i) ==
  /\ parent[i] = "waiting"
  /\ \/ child[i][segment[i]] = "failed"
     \/ child[i][segment[i]] = "succeeded" /\ response[i] = "complete"
  /\ Move(i, "leaving")
  /\ UNCHANGED <<launch, child, response, lock, readers, year>>

\* Mutant: any answer starts another child.
HandOffAlways(i) ==
  /\ parent[i] = "waiting" /\ child[i][segment[i]] = "succeeded"
  /\ segment' = [segment EXCEPT ![i] = @ + 1]
  /\ parent' = [parent EXCEPT ![i] = "leased"]
  /\ UNCHANGED <<launch, child, response, lock, readers, year>>

HandOff(i) ==
  /\ parent[i] = "waiting" /\ child[i][segment[i]] = "succeeded"
  /\ segment[i] = 1 /\ response[i] = "score"
  /\ segment' = [segment EXCEPT ![i] = 2]
  /\ parent' = [parent EXCEPT ![i] = "leased"]
  /\ UNCHANGED <<launch, child, response, lock, readers, year>>
-----------------------------------------------------------------------------
(* Interruption: child_status, settle_launch, stop_child.                  *)

\* SIGINT, or SIGTERM turned into it; ignored while the child is settled.
Interrupt(i) ==
  /\ parent[i] \in {"leased", "launching", "waiting"}
  /\ Move(i, IF parent[i] = "leased" THEN "leaving" ELSE "settling")
  /\ UNCHANGED <<launch, child, response, lock, readers, year>>

\* Mutant: SIGTERM only, which a child deep in its stages does not notice.
StopChildPolitely(i) ==
  /\ parent[i] = "settling" /\ child[i][segment[i]] = "starting"
  /\ Becomes(i, segment[i], "failed")
  /\ Close(i, segment[i])
  /\ UNCHANGED <<command, launch, response, readers, year>>

StopChild(i) ==
  /\ parent[i] = "settling" /\ child[i][segment[i]] \in Live
  /\ Becomes(i, segment[i], "failed")
  /\ Close(i, segment[i])
  /\ UNCHANGED <<command, launch, response, readers, year>>

\* Mutant: the cancelled creation is given up instead of being awaited.
SettledWithoutHandle(i) ==
  /\ parent[i] = "settling" /\ child[i][segment[i]] \notin Live
  /\ Move(i, "leaving")
  /\ UNCHANGED <<launch, child, response, lock, readers, year>>

Settled(i) ==
  /\ parent[i] = "settling" /\ ~launch[i] /\ child[i][segment[i]] \notin Live
  /\ Move(i, "leaving")
  /\ UNCHANGED <<launch, child, response, lock, readers, year>>

\* SIGKILL: no cleanup.  A process under creation may exist already.
Killed(i) ==
  /\ parent[i] \in Leased
  /\ Close(i, 0)
  /\ launch' = [launch EXCEPT ![i] = FALSE]
  /\ Move(i, "killed")
  /\ UNCHANGED <<child, response, readers, year>>

KilledAfterFork(i) ==
  /\ parent[i] \in Leased /\ launch[i]
  /\ references' = [references EXCEPT ![i] = (@ \ {0}) \cup {segment[i]}]
  /\ launch' = [launch EXCEPT ![i] = FALSE]
  /\ Becomes(i, segment[i], "starting")
  /\ Move(i, "killed")
  /\ UNCHANGED <<response, locked, readers, year>>
-----------------------------------------------------------------------------
(* A child: worker_main.                                                   *)

\* inherited_lease: the lock is asked for again through the same description.
ChildStarts(i, s) ==
  /\ child[i][s] = "starting"
  /\ locked = Nobody => readers = {}
  /\ locked \in {i, Nobody}
  /\ locked' = i
  /\ Becomes(i, s, "working")
  /\ UNCHANGED <<command, launch, response, references, readers, year>>

ChildWrites(i, s) ==
  /\ child[i][s] = "working"
  /\ year' = i
  /\ UNCHANGED <<command, launch, child, response, lock, readers>>

\* The first segment stops after geography or ends early (nothing changed, or
\* deferred); the second completes.  A stage that ends is acknowledged.
ChildAnswers(i, s, answer) ==
  /\ child[i][s] = "working"
  /\ s = 2 => answer = "complete"
  /\ year' = i
  /\ response' = [response EXCEPT ![i] = answer]
  /\ Becomes(i, s, "answered")
  /\ UNCHANGED <<command, launch, lock, readers>>

ChildEnds(i, s) ==
  /\ child[i][s] = "answered"
  /\ Becomes(i, s, "succeeded")
  /\ Close(i, s)
  /\ UNCHANGED <<command, launch, response, readers, year>>

\* A refused lease, a failed stage, or a signal from outside.
ChildFails(i, s) ==
  /\ child[i][s] \in Live
  /\ Becomes(i, s, "failed")
  /\ Close(i, s)
  /\ UNCHANGED <<command, launch, response, readers, year>>

Settling(i) == Spawn(i) \/ LaunchFails(i) \/ StopChild(i) \/ Settled(i) \/ Leave(i)

CommandStep(i) ==
  \/ Acquire(i) \/ Skip(i) \/ Restart(i)
  \/ ExecuteDirectly(i) \/ DirectWrites(i) \/ DirectEnds(i)
  \/ Launch(i) \/ ChildJoined(i) \/ HandOff(i)
  \/ Interrupt(i) \/ Killed(i) \/ KilledAfterFork(i)
  \/ Settling(i)

ChildStep(i, s) ==
  \/ ChildStarts(i, s) \/ ChildWrites(i, s) \/ ChildEnds(i, s) \/ ChildFails(i, s)
  \/ \E answer \in {"score", "complete"} : ChildAnswers(i, s, answer)

Next ==
  \/ \E i \in Invocation : CommandStep(i)
  \/ \E i \in Invocation, s \in Segment : ChildStep(i, s)
  \/ \E r \in Reader : BeginReading(r) \/ EndReading(r)

Spec == Init /\ [][Next]_vars

\* Only what the command and the kernel do for an interrupted run is fair.
FairSpec == Spec /\ \A i \in Invocation : WF_vars(Settling(i))
-----------------------------------------------------------------------------
\* Process p of command i may be changing the year's files now.
Writing(i, p) ==
  \/ p = 0 /\ parent[i] = "direct"
  \/ p \in Segment /\ child[i][p] \in Working

\* At most one process works on a year, over all commands and their children,
\* those that outlive a killed command included (run_lease, inherited_lease).
OneWriter ==
  \A i, j \in Invocation : \A p, q \in Process :
    Writing(i, p) /\ Writing(j, q) => i = j /\ p = q

\* A multi-layer read under read_lock never overlaps a writer.
ReadersExcluded ==
  readers # {} => \A i \in Invocation : \A p \in Process : ~Writing(i, p)

\* Nothing changes the year between the two segments of a run: the second
\* starts from what the first left (supervise keeps the lease across them).
HandOffUndisturbed ==
  \A i \in Invocation : child[i][2] = "starting" => year = i

\* A command that returned, other than by SIGKILL, leaves no process behind,
\* even one whose creation was under way when it was interrupted.
NothingLeftBehind ==
  \A i \in Invocation :
    parent[i] = "ended" =>
      /\ ~launch[i]
      /\ \A s \in Segment : child[i][s] \notin Live

\* An interrupted run gives the year back even when its stages hang.
InterruptFreesYear ==
  \A i \in Invocation :
    parent[i] = "settling" ~> parent[i] = "killed" \/ references[i] = {}
===============================================================================
