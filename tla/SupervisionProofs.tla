---------------------------- MODULE SupervisionProofs -------------------------
(***************************************************************************)
(* Proofs that, for any number of commands and readers, at most one        *)
(* process works on a year, readers never overlap it, the second segment   *)
(* starts from what the first left and a command that returns leaves       *)
(* nothing behind.                                                         *)
(***************************************************************************)
EXTENDS Supervision, TLAPS

NoLiveChild(i) == \A s \in Segment : child[i][s] \notin Live

\* References stand for the lock, and the lock for everyone's exclusion.
LockInv ==
  /\ \A i \in Invocation : references[i] # {} => locked = i
  /\ readers # {} => locked = Nobody

\* Every process inside the lease holds a reference.
HoldInv ==
  \A i \in Invocation :
    /\ parent[i] \in Leased => 0 \in references[i]
    /\ \A s \in Segment : child[i][s] \in Live => s \in references[i]

\* Where the command is decides which of its processes can exist.
PlaceInv ==
  \A i \in Invocation :
    /\ launch[i] => parent[i] \in {"launching", "settling"} /\ NoLiveChild(i)
    /\ parent[i] \in {"outside", "leased", "direct", "leaving", "ended"} => NoLiveChild(i)
    /\ parent[i] = "outside" => segment[i] = 1 /\ child[i][1] = "none"
    /\ segment[i] = 1 => child[i][2] \notin Live
    /\ segment[i] = 2 => child[i][1] \notin Live

\* The year is as the first segment left it until the second works.
YearInv ==
  \A i \in Invocation :
    references[i] # {} /\ (segment[i] = 2 \/ child[i][1] \in {"answered", "succeeded"})
      => year = i

IInv == TypeOK /\ LockInv /\ HoldInv /\ PlaceInv /\ YearInv

LEMMA InitIInv == Init => IInv
  BY SMTT(30) DEF Init, IInv, TypeOK, LockInv, HoldInv, PlaceInv, YearInv,
       NoLiveChild, Live, Working, Leased, Segment, Process

(***************************************************************************)
(* Every step preserves the invariant: a reference is opened or closed     *)
(* with the process that holds it, so the lock moves only when no process  *)
(* of the invocation is left.                                              *)
(***************************************************************************)
LEMMA NextIInv == IInv /\ [Next]_vars => IInv'
<1> SUFFICES ASSUME IInv, [Next]_vars PROVE IInv'
  OBVIOUS
<1> USE NobodyAssumption DEF IInv, TypeOK, LockInv, HoldInv, PlaceInv, YearInv,
      NoLiveChild, Live, Working, Leased, Segment, Process
<1>1. ASSUME NEW i \in Invocation, Acquire(i) PROVE IInv'
  <2>1. \A j \in Invocation : references[j] = {}
    <3> SUFFICES ASSUME NEW j \in Invocation, references[j] # {} PROVE FALSE
      OBVIOUS
    <3>1. locked = j
      OBVIOUS
    <3> QED
      BY <1>1, <3>1 DEF Acquire
  <2>2. 0 \in references'[i] /\ \A j \in Invocation \ {i} : references'[j] = {}
    BY <1>1, <2>1 DEF Acquire, Open
  <2>3. /\ locked' = i /\ readers' = {} /\ parent'[i] = "leased"
        /\ \A j \in Invocation \ {i} : parent'[j] = parent[j]
        /\ UNCHANGED <<segment, launch, child, response, year>>
    BY <1>1 DEF Acquire, Move
  <2>4. TypeOK'
    BY <1>1 DEF Acquire, Move, Open
  <2> QED
    BY <1>1, <2>1, <2>2, <2>3, <2>4 DEF Acquire
<1>2. ASSUME NEW i \in Invocation, Skip(i) PROVE IInv'
  BY <1>2 DEF Skip, Move, lock
<1>3. ASSUME NEW i \in Invocation, Leave(i) PROVE IInv'
  BY <1>3 DEF Leave, Move, Close
<1>4. ASSUME NEW i \in Invocation, Restart(i) PROVE IInv'
  BY <1>4 DEF Restart, lock
<1>5. ASSUME NEW i \in Invocation, ExecuteDirectly(i) PROVE IInv'
  BY <1>5 DEF ExecuteDirectly, Move, lock
<1>6. ASSUME NEW i \in Invocation, DirectWrites(i) PROVE IInv'
  BY <1>6 DEF DirectWrites, command, lock
<1>7. ASSUME NEW i \in Invocation, DirectEnds(i) PROVE IInv'
  BY <1>7 DEF DirectEnds, Move, lock
<1>8. ASSUME NEW i \in Invocation, Launch(i) PROVE IInv'
  BY <1>8 DEF Launch, Move, lock
<1>9. ASSUME NEW i \in Invocation, Spawn(i) PROVE IInv'
  BY <1>9 DEF Spawn, Move, Becomes, Open, AfterLaunch
<1>10. ASSUME NEW i \in Invocation, LaunchFails(i) PROVE IInv'
  BY <1>10 DEF LaunchFails, Move, lock
<1>11. ASSUME NEW i \in Invocation, ChildJoined(i) PROVE IInv'
  BY <1>11 DEF ChildJoined, Move, lock
<1>12. ASSUME NEW i \in Invocation, HandOff(i) PROVE IInv'
  BY <1>12 DEF HandOff, lock
<1>13. ASSUME NEW i \in Invocation, Interrupt(i) PROVE IInv'
  BY <1>13 DEF Interrupt, Move, lock
<1>14. ASSUME NEW i \in Invocation, StopChild(i) PROVE IInv'
  BY <1>14 DEF StopChild, Becomes, Close, command
<1>15. ASSUME NEW i \in Invocation, Settled(i) PROVE IInv'
  BY <1>15 DEF Settled, Move, lock
<1>16. ASSUME NEW i \in Invocation, Killed(i) PROVE IInv'
  BY <1>16 DEF Killed, Move, Close
<1>17. ASSUME NEW i \in Invocation, KilledAfterFork(i) PROVE IInv'
  BY <1>17 DEF KilledAfterFork, Move, Becomes
<1>18. ASSUME NEW i \in Invocation, NEW s \in Segment, ChildStarts(i, s) PROVE IInv'
  BY <1>18 DEF ChildStarts, Becomes, command
<1>19. ASSUME NEW i \in Invocation, NEW s \in Segment, ChildWrites(i, s) PROVE IInv'
  BY <1>19 DEF ChildWrites, command, lock
<1>20. ASSUME NEW i \in Invocation, NEW s \in Segment, ChildEnds(i, s) PROVE IInv'
  BY <1>20 DEF ChildEnds, Becomes, Close, command
<1>21. ASSUME NEW i \in Invocation, NEW s \in Segment, ChildFails(i, s) PROVE IInv'
  BY <1>21 DEF ChildFails, Becomes, Close, command
<1>22. ASSUME NEW i \in Invocation, NEW s \in Segment, NEW answer \in {"score", "complete"},
             ChildAnswers(i, s, answer)
      PROVE IInv'
  BY <1>22 DEF ChildAnswers, Becomes, command, lock
<1>23. ASSUME NEW r \in Reader, BeginReading(r) PROVE IInv'
  BY <1>23 DEF BeginReading, command, lock
<1>24. ASSUME NEW r \in Reader, EndReading(r) PROVE IInv'
  BY <1>24 DEF EndReading, command, lock
<1>25. CASE UNCHANGED vars
  BY <1>25 DEF vars, command, lock
<1> HIDE DEF IInv
<1> QED
  BY <1>1, <1>2, <1>3, <1>4, <1>5, <1>6, <1>7, <1>8, <1>9, <1>10,
     <1>11, <1>12, <1>13, <1>14, <1>15, <1>16, <1>17, <1>18, <1>19, <1>20,
     <1>21, <1>22, <1>23, <1>24, <1>25
  DEF Next, CommandStep, ChildStep, Settling

LEMMA Invariant == Spec => []IInv
  BY InitIInv, NextIInv, PTL DEF Spec

\* Every variable keeps its type.
THEOREM TypeCorrect == Spec => []TypeOK
  BY Invariant, PTL DEF IInv

\* Writing needs a reference, and references name the one holder of the lock.
LEMMA WriterHoldsLock ==
  ASSUME IInv, NEW i \in Invocation, NEW p \in Process, Writing(i, p)
  PROVE  locked = i
  BY DEF IInv, LockInv, HoldInv, Writing, Live, Leased

\* At most one process changes a year's files, whatever the commands, the
\* signals they get and the children that outlive them (run_lease,
\* inherited_lease, supervise).
THEOREM YearHasOneWriter == Spec => []OneWriter
<1>1. IInv => OneWriter
  <2> SUFFICES ASSUME IInv, NEW i \in Invocation, NEW j \in Invocation,
                      NEW p \in Process, NEW q \in Process,
                      Writing(i, p), Writing(j, q)
               PROVE  i = j /\ p = q
    BY DEF OneWriter
  <2>1. i = j
    BY WriterHoldsLock
  <2>2. segment[i] \in Segment /\ (parent[i] = "direct" => NoLiveChild(i))
    BY DEF IInv, TypeOK, PlaceInv
  <2> QED
    BY <2>1, <2>2 DEF IInv, PlaceInv, NoLiveChild, Writing, Live, Process, Segment
<1> QED
  BY <1>1, Invariant, PTL

\* A reader that holds read_lock's shared lock never sees geography change.
THEOREM ReadersSeeStableYear == Spec => []ReadersExcluded
<1>1. IInv => ReadersExcluded
  <2> SUFFICES ASSUME IInv, readers # {}, NEW i \in Invocation, NEW p \in Process,
                      Writing(i, p)
               PROVE  FALSE
    BY DEF ReadersExcluded
  <2> QED
    BY WriterHoldsLock, NobodyAssumption DEF IInv, LockInv
<1> QED
  BY <1>1, Invariant, PTL

\* The second segment of a run starts from the year its first segment left.
THEOREM HandOffKeepsYear == Spec => []HandOffUndisturbed
<1>1. IInv => HandOffUndisturbed
  BY DEF IInv, TypeOK, HoldInv, PlaceInv, YearInv, HandOffUndisturbed, Live, Segment
<1> QED
  BY <1>1, Invariant, PTL

\* A command that was not killed outright returns only after its children.
THEOREM ReturnLeavesNothing == Spec => []NothingLeftBehind
<1>1. IInv => NothingLeftBehind
  BY DEF IInv, PlaceInv, NoLiveChild, NothingLeftBehind
<1> QED
  BY <1>1, Invariant, PTL
===============================================================================
