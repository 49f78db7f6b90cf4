------------------------ MODULE MonitorSessionProofs ------------------------
(***************************************************************************)
(* Proofs about MonitorSession, for any callers, subscribers and bounds:   *)
(* who may touch the readers, what a slow subscriber still gets, and what  *)
(* a commit may change.                                                    *)
(*                                                                         *)
(* ReadersOwned needs the other direction of each of its parts (the lock   *)
(* names exactly who is inside) and that closed readers mean a stopped     *)
(* session; a commit adds to the snapshot it replaces because that is      *)
(* still the one its candidate was copied from, the lock being held since. *)
(***************************************************************************)
EXTENDS MonitorSession, SequenceTheorems, TLAPS

Content == [version : Nat, asof : Nat, health : Nat, parts : SUBSET User]

Working == dispatcher \in {"reading", "publishing"}

TypesOK == /\ snapshot \in Content /\ candidate \in Content
           /\ disk \in Nat /\ current \in Caller

Entry == [caller : Caller, priority : Nat]

QueueOK == queue \in Seq(Entry)

MailOK == /\ mode \in [Subscriber -> {"out", "in", "closed"}]
          /\ mail \in [Subscriber -> {<< >>} \cup {<<v>> : v \in Nat}]
          /\ seen \in [Subscriber -> Nat]

\* The lock names whoever is inside, and nobody else is.
LockOK == /\ lock \in {"free", "dispatcher", "closer"}
          /\ lock = "dispatcher" <=> Working
          /\ lock = "closer" <=> closer = "releasing"

StopOK == /\ closer # "none" => stopped = TRUE
          /\ readers = "closed" => stopped = TRUE
          /\ dispatcher = "reading" => readers = "open"
          /\ readers \in {"open", "closed"}

\* The candidate adds to the committed snapshot; only a reading of changed files that
\* failed covers less.
Extends == /\ snapshot.parts \subseteq candidate.parts
           /\ snapshot.asof <= candidate.asof
           /\ candidate.health < snapshot.health =>
                snapshot.asof < candidate.asof /\ candidate.health < candidate.asof
           /\ candidate.health <= candidate.asof /\ candidate.asof <= disk

\* Evidence covers no more than there was to read, and an operation starts from the
\* snapshot it will replace.
CandidateOK == /\ snapshot.health <= snapshot.asof /\ snapshot.asof <= disk
               /\ dispatcher = "reading" => candidate = snapshot
               /\ dispatcher = "publishing" => Extends

SessionInv == /\ TypesOK /\ QueueOK /\ MailOK /\ LockOK /\ StopOK /\ CandidateOK
              /\ NewestDelivered

-----------------------------------------------------------------------------
LEMMA SessionInit == Init => SessionInv
<1> SUFFICES ASSUME Init PROVE SessionInv
  OBVIOUS
<1> USE DEF Init
<1>1. TypesOK /\ CandidateOK
  BY DEF TypesOK, CandidateOK, Content, Empty, Caller
<1>2. QueueOK
  BY DEF QueueOK, Entry, Caller, Normal
<1>3. MailOK /\ NewestDelivered
  BY DEF MailOK, NewestDelivered
<1>4. LockOK /\ StopOK
  BY DEF LockOK, StopOK, Working
<1> QED  BY <1>1, <1>2, <1>3, <1>4 DEF SessionInv

\* A step that only moves requests through the queue, outside any operation.
LEMMA QueueKeeps ==
  /\ SessionInv /\ QueueOK' /\ current' \in Caller
  /\ disk' \in Nat /\ disk <= disk'
  /\ Working' = Working /\ (Working => dispatcher' = dispatcher)
  /\ UNCHANGED <<snapshot, candidate, owner, delivery>>
  => SessionInv'
<1> SUFFICES ASSUME SessionInv, QueueOK', current' \in Caller, disk' \in Nat, disk <= disk',
                    Working' = Working, Working => dispatcher' = dispatcher,
                    UNCHANGED <<snapshot, candidate, owner, delivery>>
             PROVE  SessionInv'
  OBVIOUS
<1> USE DEF SessionInv
<1>1. TypesOK'
  BY DEF TypesOK
<1>2. MailOK' /\ NewestDelivered'
  BY DEF MailOK, NewestDelivered, delivery
<1>3. LockOK'
  BY DEF LockOK, owner
<1>4. StopOK'
  BY DEF StopOK, owner, Working
<1>5. CandidateOK'
  BY DEF CandidateOK, Extends, TypesOK, Content, Working
<1> QED  BY <1>1, <1>2, <1>3, <1>4, <1>5

\* What Settle leaves of the dispatcher.
LEMMA SettleLeaves ==
  \A how : Settle(how) =>
    dispatcher' = "loop" /\ queue' = queue /\ current' = Clock /\ current' \in Caller
BY DEF Settle, Caller

\* The callers' steps and the files' change nothing an operation reads.
LEMMA CallersKeep ==
  \A u \in User : SessionInv /\ (Ask(u) \/ Cancel(u) \/ Promote(u)) => SessionInv'
<1> SUFFICES ASSUME NEW u \in User, SessionInv, Ask(u) \/ Cancel(u) \/ Promote(u)
             PROVE  SessionInv'
  OBVIOUS
<1>1. /\ UNCHANGED <<snapshot, candidate, owner, delivery, disk, current>>
      /\ dispatcher' = dispatcher \/ (dispatcher = "off" /\ dispatcher' = "loop")
  BY DEF Ask, Cancel, Promote, Submit, files, owner, delivery
<1>2. QueueOK'
  <2>1. u \in Caller
    BY DEF Caller
  <2>2. CASE Ask(u)
    <3>1. [caller |-> u, priority |-> Normal] \in Entry
      BY <2>1 DEF Entry, Normal
    <3> QED  BY <2>2, <3>1, AppendProperties DEF Ask, Submit, SessionInv, QueueOK
  <2>3. CASE Cancel(u)
    BY <2>3 DEF Cancel, SessionInv, QueueOK
  <2>4. CASE Promote(u)
    <3>1. PICK i \in DOMAIN queue : queue' = [queue EXCEPT ![i].priority = Immediate]
      BY <2>4 DEF Promote
    <3>2. queue[i] \in Entry
      BY DEF SessionInv, QueueOK
    <3>3. [queue[i] EXCEPT !.priority = Immediate] \in Entry
      BY <3>2 DEF Entry, Immediate
    <3> QED  BY <3>1, <3>3 DEF SessionInv, QueueOK
  <2> QED  BY <2>2, <2>3, <2>4
<1>3. current' \in Caller /\ disk' \in Nat /\ disk <= disk'
  BY <1>1 DEF SessionInv, TypesOK
<1>4. Working' = Working /\ (Working => dispatcher' = dispatcher)
  BY <1>1 DEF Working
<1> QED  BY <1>1, <1>2, <1>3, <1>4, QueueKeeps

LEMMA ObserversKeep ==
  SessionInv /\ (Write \/ Hint \/ Observe \/ TickOnDeadline) => SessionInv'
<1> SUFFICES ASSUME SessionInv, Write \/ Hint \/ Observe \/ TickOnDeadline
             PROVE  SessionInv'
  OBVIOUS
<1>1. /\ UNCHANGED <<snapshot, candidate, owner, delivery, current>>
      /\ disk' \in {disk, disk + 1}
      /\ dispatcher' = dispatcher \/ (dispatcher = "off" /\ dispatcher' = "loop")
  BY DEF Write, Hint, Observe, TickOnDeadline, TickOnHint, TickRefreshes, ClockResumes,
         ClockStops, Submit, files, requests, owner, delivery
<1>2. QueueOK'
  <2>1. Clock \in Caller
    BY DEF Caller
  <2>2. CASE TickRefreshes
    <3>1. [caller |-> Clock, priority |-> Background] \in Entry
      BY <2>1 DEF Entry, Background
    <3> QED  BY <2>2, <3>1, AppendProperties DEF TickRefreshes, Submit, SessionInv, QueueOK
  <2>3. CASE queue' = queue
    BY <2>3 DEF SessionInv, QueueOK
  <2> QED  BY <2>2, <2>3 DEF Write, Hint, Observe, TickOnDeadline, TickOnHint, ClockResumes,
                            ClockStops, requests
<1>3. current' \in Caller /\ disk' \in Nat /\ disk <= disk'
  BY <1>1 DEF SessionInv, TypesOK
<1>4. Working' = Working /\ (Working => dispatcher' = dispatcher)
  BY <1>1 DEF Working
<1> QED  BY <1>1, <1>2, <1>3, <1>4, QueueKeeps

LEMMA PickKeeps == SessionInv /\ Pick => SessionInv'
<1> SUFFICES ASSUME SessionInv, Pick PROVE SessionInv'
  OBVIOUS
<1>1. /\ UNCHANGED <<snapshot, candidate, owner, delivery, disk>>
      /\ dispatcher = "loop" /\ dispatcher' \in {"loop", "off", "entering"}
  BY DEF Pick, files
<1>2. QueueOK' /\ current' \in Caller
  <2>1. CASE UNCHANGED <<queue, current>>
    BY <2>1 DEF SessionInv, TypesOK, QueueOK
  <2>2. CASE \E i \in DOMAIN queue : /\ queue' = RemoveAt(queue, i)
                                     /\ current' \in {current, queue[i].caller}
    <3>1. PICK i \in DOMAIN queue : /\ queue' = RemoveAt(queue, i)
                                    /\ current' \in {current, queue[i].caller}
      BY <2>2
    <3>2. queue \in Seq(Entry) /\ queue[i] \in Entry /\ i \in 1..Len(queue)
      BY DEF SessionInv, QueueOK
    <3>3. /\ SubSeq(queue, 1, i - 1) \in Seq(Entry)
          /\ SubSeq(queue, i + 1, Len(queue)) \in Seq(Entry)
      BY <3>2, SubSeqProperties
    <3>4. queue' \in Seq(Entry)
      BY <3>1, <3>3, ConcatProperties DEF RemoveAt
    <3> QED  BY <3>1, <3>2, <3>4 DEF QueueOK, SessionInv, TypesOK, Entry
  <2> QED  BY <2>1, <2>2 DEF Pick
<1>3. disk' \in Nat /\ disk <= disk'
  BY <1>1 DEF SessionInv, TypesOK
<1>4. Working' = Working /\ (Working => dispatcher' = dispatcher)
  BY <1>1 DEF Working
<1> QED  BY <1>1, <1>2, <1>3, <1>4, QueueKeeps

-----------------------------------------------------------------------------
(* The operation. *)

\* A dispatcher's step that commits nothing, given what it does to the lock.
LEMMA OperationKeeps ==
  /\ SessionInv /\ UNCHANGED <<snapshot, stopped, readers, closer, delivery, disk>>
  /\ QueueOK' /\ current' \in Caller /\ candidate' \in Content
  /\ LockOK' /\ CandidateOK' /\ (dispatcher' = "reading" => readers = "open")
  => SessionInv'
<1> SUFFICES ASSUME SessionInv, UNCHANGED <<snapshot, stopped, readers, closer, delivery, disk>>,
                    QueueOK', current' \in Caller, candidate' \in Content,
                    LockOK', CandidateOK', dispatcher' = "reading" => readers = "open"
             PROVE  SessionInv'
  OBVIOUS
<1> USE DEF SessionInv
<1>1. TypesOK'
  BY DEF TypesOK
<1>2. MailOK' /\ NewestDelivered'
  BY DEF MailOK, NewestDelivered, delivery
<1>3. StopOK'
  BY DEF StopOK
<1> QED  BY <1>1, <1>2, <1>3

LEMMA EmptyIsContent == Empty \in Content
BY DEF Empty, Content

LEMMA EnterKeeps == SessionInv /\ Enter => SessionInv'
<1> SUFFICES ASSUME SessionInv, Enter PROVE SessionInv'
  OBVIOUS
<1> USE DEF SessionInv
<1>1. /\ UNCHANGED <<snapshot, stopped, readers, closer, delivery, disk, queue>>
      /\ dispatcher = "entering" /\ lock = "free"
  BY DEF Enter, Settle, files
<1>2. QueueOK' /\ candidate' \in Content /\ candidate' \in {candidate, snapshot}
  BY <1>1 DEF Enter, QueueOK, TypesOK
<1>3. current' \in Caller
  BY SettleLeaves DEF Enter, TypesOK
<1>4. CASE stopped /\ Settle("settled") /\ UNCHANGED <<lock, candidate>>
  <2>1. dispatcher' = "loop" /\ lock' = "free"
    BY <1>1, <1>4, SettleLeaves
  <2>2. LockOK' /\ CandidateOK'
    BY <1>1, <2>1 DEF LockOK, Working, CandidateOK
  <2> QED  BY <1>1, <1>2, <1>3, <2>1, <2>2, OperationKeeps
<1>5. CASE ~stopped /\ lock' = "dispatcher" /\ dispatcher' = "reading" /\ candidate' = snapshot
  <2>1. LockOK'
    BY <1>1, <1>5 DEF LockOK, Working
  <2>2. CandidateOK'
    BY <1>1, <1>5 DEF CandidateOK
  <2>3. readers = "open"
    BY <1>5 DEF StopOK
  <2> QED  BY <1>1, <1>2, <1>3, <2>1, <2>2, <2>3, OperationKeeps
<1> QED  BY <1>4, <1>5 DEF Enter

LEMMA ReadKeeps == SessionInv /\ (ReadHealth \/ ReadHealthInPart \/ ReadPart) => SessionInv'
<1> SUFFICES ASSUME SessionInv, ReadHealth \/ ReadHealthInPart \/ ReadPart
             PROVE  SessionInv'
  OBVIOUS
<1> USE DEF SessionInv
<1>1. /\ UNCHANGED <<snapshot, stopped, readers, closer, lock, delivery, disk, queue, current>>
      /\ dispatcher = "reading" /\ dispatcher' = "publishing"
  BY DEF ReadHealth, ReadHealthInPart, ReadPart, files, owner
<1>2. candidate = snapshot /\ candidate \in Content /\ disk \in Nat
      /\ snapshot.health <= snapshot.asof /\ snapshot.asof <= disk
  BY <1>1 DEF CandidateOK, TypesOK
<1>3. snapshot.health \in Nat /\ snapshot.asof \in Nat
  BY <1>2 DEF Content
<1>4. candidate' \in Content /\ Extends'
  <2>1. CASE ReadHealth
    <3>1. candidate' = [snapshot EXCEPT !.asof = disk, !.health = disk]
      BY <1>2, <2>1 DEF ReadHealth, Evidence
    <3>2. candidate' \in Content
      BY <1>2, <3>1 DEF Content
    <3>3. candidate'.asof = disk /\ candidate'.health = disk /\ candidate'.parts = snapshot.parts
      BY <1>2, <3>1 DEF Content
    <3> QED  BY <1>1, <1>2, <1>3, <3>2, <3>3 DEF Extends
  <2>2. CASE ReadHealthInPart
    <3>1. PICK health \in 0..(disk - 1) : candidate' = Evidence(health)
      BY <2>2 DEF ReadHealthInPart
    <3>2. health \in Nat /\ health < disk
      BY <1>2, <3>1
    <3>3. candidate' = [snapshot EXCEPT !.asof = disk, !.health = health]
      BY <1>2, <3>1 DEF Evidence
    <3>4. snapshot.asof < disk
      BY <1>2, <2>2 DEF ReadHealthInPart
    <3>5. candidate' \in Content
      BY <1>2, <3>2, <3>3 DEF Content
    <3>6. candidate'.asof = disk /\ candidate'.health = health /\ candidate'.parts = snapshot.parts
      BY <1>2, <3>3 DEF Content
    <3> QED  BY <1>1, <1>2, <1>3, <3>2, <3>4, <3>5, <3>6 DEF Extends
  <2>3. CASE ReadPart
    <3>1. CASE candidate' = candidate
      BY <1>1, <1>2, <3>1 DEF Content, Extends
    <3>2. CASE candidate' = [snapshot EXCEPT !.parts = @ \cup {current}]
      <4>1. current \in User
        BY <2>3 DEF ReadPart
      <4> QED  BY <1>1, <1>2, <3>2, <4>1 DEF Content, Extends
    <3> QED  BY <1>2, <2>3, <3>1, <3>2 DEF ReadPart
  <2> QED  BY <2>1, <2>2, <2>3
<1>5. QueueOK' /\ current' \in Caller /\ LockOK' /\ CandidateOK'
  BY <1>1, <1>2, <1>4 DEF QueueOK, TypesOK, LockOK, Working, CandidateOK
<1> QED  BY <1>1, <1>4, <1>5, OperationKeeps

LEMMA ReadFailsKeeps == SessionInv /\ ReadFails => SessionInv'
<1> SUFFICES ASSUME SessionInv, ReadFails PROVE SessionInv'
  OBVIOUS
<1> USE DEF SessionInv
<1>1. /\ UNCHANGED <<snapshot, stopped, readers, closer, delivery, disk>>
      /\ dispatcher = "reading" /\ lock' = "free" /\ candidate' = Empty /\ Settle("failed")
  BY DEF ReadFails, files
<1>2. dispatcher' = "loop" /\ queue' = queue /\ current' \in Caller
  BY <1>1, SettleLeaves
<1>3. LockOK' /\ CandidateOK' /\ QueueOK'
  BY <1>1, <1>2 DEF LockOK, Working, CandidateOK, QueueOK
<1> QED  BY <1>1, <1>2, <1>3, EmptyIsContent, OperationKeeps

LEMMA PublishKeeps == SessionInv /\ Publish => SessionInv'
<1> SUFFICES ASSUME SessionInv, Publish PROVE SessionInv'
  OBVIOUS
<1> USE DEF SessionInv
<1>1. /\ UNCHANGED <<stopped, readers, closer, disk, mode, seen>>
      /\ dispatcher = "publishing" /\ lock' = "free" /\ candidate' = Empty
      /\ Settle("settled")
  BY DEF Publish, files
<1>2. dispatcher' = "loop" /\ queue' = queue /\ current' \in Caller
  BY <1>1, SettleLeaves
<1>3. LockOK' /\ QueueOK' /\ StopOK'
  BY <1>1, <1>2 DEF LockOK, Working, QueueOK, StopOK
<1>4. CASE UNCHANGED <<snapshot, mail>>
  <2>1. CandidateOK'
    BY <1>1, <1>2, <1>4 DEF CandidateOK, Working
  <2> QED  BY <1>1, <1>2, <1>3, <1>4, <2>1, EmptyIsContent, OperationKeeps DEF delivery
<1>5. CASE /\ snapshot' = [candidate EXCEPT !.version = snapshot.version + 1]
           /\ mail' = Offer(snapshot.version + 1)
  <2> DEFINE v == snapshot.version + 1
  <2>1. v \in Nat /\ snapshot' \in Content /\ snapshot'.version = v
    BY <1>5 DEF TypesOK, Content
  <2>2. TypesOK'
    BY <1>1, <1>2, <2>1, EmptyIsContent DEF TypesOK
  <2>3. snapshot'.health = candidate.health /\ snapshot'.asof = candidate.asof
    BY <1>5 DEF TypesOK, Content
  <2>4. CandidateOK'
    BY <1>1, <1>2, <2>3 DEF CandidateOK, Extends
  <2>5. mail' = [s \in Subscriber |-> IF mode[s] = "in" THEN <<v>> ELSE mail[s]]
    BY <1>5 DEF Offer
  <2> HIDE DEF v
  <2>6. MailOK'
    BY <1>1, <2>1, <2>5 DEF MailOK
  <2>7. NewestDelivered'
    BY <1>1, <2>1, <2>5 DEF NewestDelivered
  <2> QED  BY <1>3, <2>2, <2>4, <2>6, <2>7
<1> QED  BY <1>4, <1>5 DEF Publish

-----------------------------------------------------------------------------
(* close and the subscriptions. *)

LEMMA ClosingKeeps == SessionInv /\ (Close \/ Lock \/ Release \/ ReleaseFails) => SessionInv'
<1> SUFFICES ASSUME SessionInv, Close \/ Lock \/ Release \/ ReleaseFails
             PROVE  SessionInv'
  OBVIOUS
<1> USE DEF SessionInv
<1>1. UNCHANGED <<snapshot, candidate, delivery, disk, dispatcher, current>>
  BY DEF Close, Lock, Release, ReleaseFails, files, requests
<1>2. queue' = queue \/ queue' = << >>
  BY DEF Close, Lock, Release, ReleaseFails, requests
<1>3. << >> \in Seq(Entry)
  OBVIOUS
<1>4. QueueOK'
  BY <1>2, <1>3 DEF QueueOK
<1>5. TypesOK'
  BY <1>1 DEF TypesOK
<1>6. MailOK' /\ NewestDelivered' /\ CandidateOK'
  BY <1>1 DEF MailOK, NewestDelivered, delivery, CandidateOK, Extends
<1>7. LockOK'
  BY <1>1 DEF LockOK, Working, Close, Lock, Release, ReleaseFails
<1>8. StopOK'
  BY <1>1 DEF StopOK, LockOK, Working, Close, Lock, Release, ReleaseFails
<1> QED  BY <1>4, <1>5, <1>6, <1>7, <1>8

\* A step of the subscriptions alone.
LEMMA DeliveryKeeps ==
  /\ SessionInv /\ MailOK' /\ NewestDelivered' /\ QueueOK' /\ current' \in Caller
  /\ UNCHANGED <<snapshot, candidate, disk, dispatcher, lock, stopped, readers>>
  /\ closer' = closer \/ (closer = "gathering" /\ closer' = "closed")
  => SessionInv'
<1> SUFFICES ASSUME SessionInv, MailOK', NewestDelivered', QueueOK', current' \in Caller,
                    UNCHANGED <<snapshot, candidate, disk, dispatcher, lock, stopped, readers>>,
                    closer' = closer \/ (closer = "gathering" /\ closer' = "closed")
             PROVE  SessionInv'
  OBVIOUS
<1> USE DEF SessionInv
<1>1. TypesOK' /\ CandidateOK'
  BY DEF TypesOK, CandidateOK, Extends
<1>2. LockOK' /\ StopOK'
  BY DEF LockOK, StopOK, Working
<1> QED  BY <1>1, <1>2

LEMMA SubscriptionsKeep ==
  \A s \in Subscriber :
    SessionInv /\ (Subscribe(s) \/ Receive(s) \/ Unsubscribe(s)) => SessionInv'
<1> SUFFICES ASSUME NEW s \in Subscriber, SessionInv,
                    Subscribe(s) \/ Receive(s) \/ Unsubscribe(s)
             PROVE  SessionInv'
  OBVIOUS
<1> USE DEF SessionInv
<1>1. UNCHANGED <<snapshot, candidate, disk, dispatcher, lock, stopped, readers, closer,
                  queue, current>>
  BY DEF Subscribe, Receive, Unsubscribe, files, requests, owner
<1>2. QueueOK' /\ current' \in Caller
  BY <1>1 DEF QueueOK, TypesOK
<1>3. snapshot.version \in Nat
  BY DEF TypesOK, Content
<1>4. MailOK' /\ NewestDelivered'
  <2>1. CASE Subscribe(s)
    <3>1. mode[s] = "out" /\ snapshot' = snapshot /\ seen' = seen
      BY <2>1 DEF Subscribe
    <3>2. CASE mode' = [mode EXCEPT ![s] = "closed"] /\ mail' = mail
      <4>1. MailOK'
        BY <3>1, <3>2 DEF MailOK
      <4>2. NewestDelivered'
        BY <3>1, <3>2 DEF MailOK, NewestDelivered
      <4> QED  BY <4>1, <4>2
    <3>3. CASE /\ mode' = [mode EXCEPT ![s] = "in"]
               /\ mail' = [mail EXCEPT ![s] = <<snapshot.version>>]
      <4>1. MailOK'
        BY <1>3, <3>1, <3>3 DEF MailOK
      <4>2. NewestDelivered'
        BY <3>1, <3>3 DEF MailOK, NewestDelivered
      <4> QED  BY <4>1, <4>2
    <3> QED  BY <2>1, <3>2, <3>3 DEF Subscribe
  <2>2. CASE Receive(s)
    <3>1. mail[s] = <<snapshot.version>>
      BY <2>2 DEF Receive, NewestDelivered
    <3> QED  BY <1>3, <2>2, <3>1 DEF Receive, MailOK, NewestDelivered
  <2>3. CASE Unsubscribe(s)
    BY <2>3 DEF Unsubscribe, MailOK, NewestDelivered
  <2> QED  BY <2>1, <2>2, <2>3
<1> QED  BY <1>1, <1>2, <1>4, DeliveryKeeps

LEMMA GatherKeeps == SessionInv /\ Gather => SessionInv'
<1> SUFFICES ASSUME SessionInv, Gather PROVE SessionInv'
  OBVIOUS
<1> USE DEF SessionInv
<1>1. /\ UNCHANGED <<snapshot, candidate, disk, dispatcher, lock, stopped, readers, queue,
                     current>>
      /\ closer = "gathering" /\ closer' = "closed"
  BY DEF Gather, files, requests
<1>2. QueueOK' /\ current' \in Caller
  BY <1>1 DEF QueueOK, TypesOK
<1>3. MailOK' /\ NewestDelivered'
  BY <1>1 DEF Gather, MailOK, NewestDelivered
<1> QED  BY <1>1, <1>2, <1>3, DeliveryKeeps

LEMMA SessionStep == SessionInv /\ [Next]_vars => SessionInv'
<1> SUFFICES ASSUME SessionInv, [Next]_vars PROVE SessionInv'
  OBVIOUS
<1>1. CASE \E u \in User : Ask(u) \/ Cancel(u) \/ Promote(u)
  BY <1>1, CallersKeep, Zenon
<1>2. CASE Write \/ Hint \/ Observe \/ TickOnDeadline
  BY <1>2, ObserversKeep
<1>3. CASE Dispatch
  BY <1>3, PickKeeps, EnterKeeps, ReadKeeps, ReadFailsKeeps, PublishKeeps DEF Dispatch
<1>4. CASE Close \/ Closing
  BY <1>4, ClosingKeeps, GatherKeeps DEF Closing
<1>5. CASE \E s \in Subscriber : Subscribe(s) \/ Receive(s) \/ Unsubscribe(s)
  BY <1>5, SubscriptionsKeep, Zenon
<1>6. CASE UNCHANGED vars
  <2>1. QueueOK' /\ current' \in Caller /\ MailOK' /\ NewestDelivered'
    BY <1>6 DEF vars, requests, delivery, SessionInv, QueueOK, TypesOK, MailOK, NewestDelivered
  <2> QED  BY <1>6, <2>1, DeliveryKeeps DEF vars, files, requests, owner
<1> QED  BY <1>1, <1>2, <1>3, <1>4, <1>5, <1>6, Zenon DEF Next

\* The lock names exactly who is inside, an operation builds on the snapshot that is
\* still committed, and closed readers mean a stopped session.
THEOREM SessionInvariant == Spec => []SessionInv
<1> QED  BY SessionInit, SessionStep, PTL DEF Spec

-----------------------------------------------------------------------------
(* The properties. *)

\* No thread uses the readers without the owner's lock or once they are closed, and
\* nobody closes them without it (MonitorSession.close, execute).
THEOREM ReadersAreOwned == Spec => []ReadersOwned
<1>1. SessionInv => ReadersOwned
  BY DEF SessionInv, LockOK, StopOK, Working, ReadersOwned
<1> QED  BY <1>1, SessionInvariant, PTL

\* However slowly a subscriber reads, the newest version is the one it was given or
\* the one that waits for it (offer).
THEOREM NewestIsDelivered == Spec => []NewestDelivered
<1>1. SessionInv => NewestDelivered
  BY DEF SessionInv
<1> QED  BY <1>1, SessionInvariant, PTL

\* Commits are numbered without a gap, lose no part, never go back to an older reading,
\* cover less only after a failed reading of changed files, and end with stop (publish).
THEOREM CommitsAreOrdered == Spec => CommitsInOrder
<1> DEFINE Ordered == snapshot' # snapshot =>
                        /\ ~stopped /\ snapshot'.version = snapshot.version + 1
                        /\ snapshot.parts \subseteq snapshot'.parts
                        /\ snapshot.asof <= snapshot'.asof
                        /\ snapshot'.health < snapshot.health =>
                             snapshot.asof < snapshot'.asof /\ snapshot'.health < snapshot'.asof
<1>1. SessionInv /\ [Next]_vars => [Ordered]_vars
  <2> SUFFICES ASSUME SessionInv, Next PROVE Ordered
    OBVIOUS
  <2>1. CASE Publish
    <3>1. CASE UNCHANGED snapshot
      BY <3>1
    <3>2. CASE ~stopped /\ snapshot' = [candidate EXCEPT !.version = snapshot.version + 1]
      <4>1. /\ snapshot'.version = snapshot.version + 1
            /\ snapshot'.parts = candidate.parts
            /\ snapshot'.health = candidate.health /\ snapshot'.asof = candidate.asof
        BY <3>2 DEF SessionInv, TypesOK, Content
      <4>2. Extends
        BY <2>1 DEF SessionInv, CandidateOK, Publish
      <4> QED  BY <3>2, <4>1, <4>2 DEF Extends
    <3> QED  BY <2>1, <3>1, <3>2 DEF Publish
  <2>2. CASE ~Publish
    <3>1. snapshot' = snapshot
      BY <2>2 DEF Next, Ask, Cancel, Promote, Dispatch, Pick, Enter, ReadHealth,
                  ReadHealthInPart, ReadPart, ReadFails, Write, Hint, Observe, TickOnHint,
                  TickOnDeadline, TickRefreshes, ClockResumes, ClockStops, Close, Closing,
                  Lock, Release, ReleaseFails, Gather, Subscribe, Receive, Unsubscribe
    <3> QED  BY <3>1
  <2> QED  BY <2>1, <2>2
<1> QED  BY <1>1, SessionInvariant, PTL DEF Spec, CommitsInOrder
=============================================================================
