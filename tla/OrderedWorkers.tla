--------------------------- MODULE OrderedWorkers ---------------------------
(***************************************************************************)
(* concurrency.ordered_parallel_map: inputs are submitted to a thread pool *)
(* as room becomes available and their results are handed to the consumer  *)
(* in input order.  The generator, the consumer that drives it and the     *)
(* pool's threads are the actors; the pool is the library's, modelled by   *)
(* what concurrency.py asks of it (FIFO queue, at most MaxWorkers busy).   *)
(*                                                                         *)
(* Abstracted: inputs are their positions (numbered from 1), a result is   *)
(* the fact that the function returned or raised, which `faulty` fixes     *)
(* when the map is entered.  The three limits are positive, as lines 51-57 *)
(* require.  One process runs one map after another.                       *)
(***************************************************************************)
EXTENDS Naturals, FiniteSets, FiniteSetsExt

CONSTANTS Inputs,      \* the number of inputs of one map
          MaxWorkers,  \* max_workers
          MaxPending,  \* max_pending
          MaxWeight,   \* max_weight
          Weight       \* weight, by position; [p \in Positions |-> 1] without one

Positions == 1..Inputs

ASSUME InputsAssumption == Inputs \in Nat
ASSUME LimitsAssumption == /\ MaxWorkers \in Nat \ {0}
                           /\ MaxPending \in Nat \ {0}
                           /\ MaxWeight \in Nat \ {0}
ASSUME WeightAssumption == Weight \in [1..Inputs -> Nat]

VARIABLES phase,      \* where the generator is; "closed" outside a context
          weighed,    \* the map was given a max_weight
          faulty,     \* inputs on which the function will raise
          taken,      \* inputs drawn from the iterator
          held,       \* `waiting`: the input drawn but not yet admitted, or 0
          exhausted,  \* the iterator has ended
          failed,     \* an observed future carries an exception
          pending,    \* submitted futures whose completion was not observed
          ready,      \* observed futures waiting for their turn
          next,       \* next_position
          task,       \* the executor's state of each submitted future
          outcome     \* how the consumer's iteration ended

workerVars == <<phase, weighed, faulty, taken, held, exhausted, failed, pending,
                ready, next, task, outcome>>

Phases == {"consumer", "delivering", "admitting", "waiting", "closing", "joining",
           "closed"}
Outcomes == {"none", "open", "finished", "worker_error", "input_error", "abandoned"}

WorkersTypeOK ==
  /\ phase \in Phases
  /\ weighed \in BOOLEAN /\ faulty \in SUBSET Positions
  /\ taken \in 0..Inputs /\ held \in 0..Inputs /\ next \in 1..Inputs + 1
  /\ exhausted \in BOOLEAN /\ failed \in BOOLEAN
  /\ pending \in SUBSET Positions /\ ready \in SUBSET Positions
  /\ task \in [Positions -> {"none", "queued", "running", "done", "error", "cancelled"}]
  /\ outcome \in Outcomes

In(state) == {p \in Positions : task[p] = state}
Load(positions) == MapThenSumSet(LAMBDA p : Weight[p], positions)

NoTask == [p \in Positions |-> "none"]

\* No map has been entered yet.
InitWorkers == /\ phase = "closed" /\ weighed = FALSE /\ faulty = {}
               /\ taken = 0 /\ held = 0 /\ next = 1
               /\ exhausted = FALSE /\ failed = FALSE
               /\ pending = {} /\ ready = {}
               /\ task = NoTask /\ outcome = "none"
-----------------------------------------------------------------------------
(* The consumer. *)

\* A new context: a new pool and a generator that has not started.
Enter(weighted) ==
  /\ phase = "closed" /\ outcome = "none"
  /\ phase' = "consumer" /\ weighed' = weighted /\ faulty' \in SUBSET Positions
  /\ outcome' = "open"
  /\ UNCHANGED <<taken, held, exhausted, failed, pending, ready, next, task>>

\* The caller leaves the map behind, or its process dies with its threads.
Leave == /\ outcome # "none"
         /\ phase' = "closed" /\ weighed' = FALSE /\ faulty' = {}
         /\ taken' = 0 /\ held' = 0 /\ next' = 1
         /\ exhausted' = FALSE /\ failed' = FALSE
         /\ pending' = {} /\ ready' = {}
         /\ task' = NoTask /\ outcome' = "none"

Ask == /\ phase = "consumer" /\ phase' = "delivering"
       /\ UNCHANGED <<weighed, faulty, taken, held, exhausted, failed, pending,
                      ready, next, task, outcome>>

\* The consumer raises or stops early: the context's finally closes the generator.
Abandon == /\ phase = "consumer" /\ phase' = "closing" /\ outcome' = "abandoned"
           /\ UNCHANGED <<weighed, faulty, taken, held, exhausted, failed,
                          pending, ready, next, task>>
-----------------------------------------------------------------------------
(* The generator. *)

\* Mutant: results are delivered as they complete.
DeliverAsCompleted ==
  /\ phase = "delivering" /\ ready # {}
  /\ \E p \in ready :
       /\ ready' = ready \ {p}
       /\ \/ /\ task[p] = "done"
             /\ phase' = "consumer" /\ next' = next + 1 /\ UNCHANGED outcome
          \/ /\ task[p] = "error"
             /\ phase' = "closing" /\ outcome' = "worker_error" /\ UNCHANGED next
  /\ UNCHANGED <<weighed, faulty, taken, held, exhausted, failed, pending,
                 task>>

Deliver ==
  /\ phase = "delivering" /\ next \in ready
  /\ ready' = ready \ {next}
  /\ \/ /\ task[next] = "done"
        /\ phase' = "consumer" /\ next' = next + 1 /\ UNCHANGED outcome
     \/ /\ task[next] = "error"
        /\ phase' = "closing" /\ outcome' = "worker_error" /\ UNCHANGED next
  /\ UNCHANGED <<weighed, faulty, taken, held, exhausted, failed, pending,
                 task>>

Ends(how) == phase' = "closing" /\ outcome' = how

\* The head of the outer loop, once no delivery is due.
Continue ==
  /\ phase = "delivering" /\ next \notin ready
  /\ IF pending = {} /\ exhausted THEN Ends("finished")
     ELSE phase' = "admitting" /\ UNCHANGED outcome
  /\ UNCHANGED <<weighed, faulty, taken, held, exhausted, failed, pending,
                 ready, next, task>>

MayAdmit == ~failed /\ ~exhausted /\ Cardinality(pending) < MaxPending

\* Mutant: the weight of the input itself is not counted.
FitsAlready(p) == ~weighed \/ pending = {} \/ Load(pending) <= MaxWeight

Fits(p) == ~weighed \/ pending = {} \/ Load(pending) + Weight[p] <= MaxWeight

\* next(iterator) and the weight of what it returned.
Take ==
  /\ phase = "admitting" /\ MayAdmit /\ held = 0
  /\ IF taken < Inputs
     THEN taken' = taken + 1 /\ held' = taken + 1 /\ UNCHANGED exhausted
     ELSE exhausted' = TRUE /\ UNCHANGED <<taken, held>>
  /\ UNCHANGED <<phase, weighed, faulty, failed, pending, ready, next, task,
                 outcome>>

Submit ==
  /\ phase = "admitting" /\ MayAdmit /\ held # 0 /\ Fits(held)
  /\ pending' = pending \cup {held}
  /\ task' = [task EXCEPT ![held] = "queued"]
  /\ held' = 0
  /\ UNCHANGED <<phase, weighed, faulty, taken, exhausted, failed, ready, next,
                 outcome>>

\* The iterator, the weight function or submit raises: the error is not deferred.
AdmissionFails ==
  /\ phase = "admitting" /\ MayAdmit
  /\ (held = 0 /\ taken < Inputs) \/ (held # 0 /\ Fits(held))
  /\ Ends("input_error")
  /\ UNCHANGED <<weighed, faulty, taken, held, exhausted, failed, pending,
                 ready, next, task>>

EndAdmission ==
  /\ phase = "admitting"
  /\ ~MayAdmit \/ (held # 0 /\ ~Fits(held))
  /\ IF pending = {} THEN Ends("finished") ELSE phase' = "waiting" /\ UNCHANGED outcome
  /\ UNCHANGED <<weighed, faulty, taken, held, exhausted, failed, pending,
                 ready, next, task>>

\* concurrent.futures.wait returns every future that is complete at that moment.
Observe ==
  LET completed == pending \cap (In("done") \cup In("error")) IN
  /\ phase = "waiting" /\ completed # {}
  /\ pending' = pending \ completed
  /\ ready' = ready \cup completed
  /\ failed' = (failed \/ completed \cap In("error") # {})
  /\ phase' = "delivering"
  /\ UNCHANGED <<weighed, faulty, taken, held, exhausted, next, task, outcome>>
-----------------------------------------------------------------------------
(* The context's exit and the pool's threads. *)

\* executor.shutdown drops the queue, then waits for the busy threads.
CancelQueued ==
  /\ phase = "closing" /\ phase' = "joining"
  /\ task' = [p \in Positions |-> IF task[p] = "queued" THEN "cancelled" ELSE task[p]]
  /\ UNCHANGED <<weighed, faulty, taken, held, exhausted, failed, pending,
                 ready, next, outcome>>

\* Mutant: shutdown without wait.
LeaveRunning ==
  /\ phase = "joining" /\ phase' = "closed"
  /\ UNCHANGED <<weighed, faulty, taken, held, exhausted, failed, pending,
                 ready, next, task, outcome>>

Joined ==
  /\ phase = "joining" /\ In("running") = {} /\ phase' = "closed"
  /\ UNCHANGED <<weighed, faulty, taken, held, exhausted, failed, pending,
                 ready, next, task, outcome>>

WorkerStarts(p) ==
  /\ task[p] = "queued" /\ Cardinality(In("running")) < MaxWorkers
  /\ \A q \in In("queued") : p <= q
  /\ task' = [task EXCEPT ![p] = "running"]
  /\ UNCHANGED <<phase, weighed, faulty, taken, held, exhausted, failed,
                 pending, ready, next, outcome>>

WorkerReturns(p) ==
  /\ task[p] = "running"
  /\ task' = [task EXCEPT ![p] = IF p \in faulty THEN "error" ELSE "done"]
  /\ UNCHANGED <<phase, weighed, faulty, taken, held, exhausted, failed,
                 pending, ready, next, outcome>>

Workers == \E p \in Positions : WorkerStarts(p) \/ WorkerReturns(p)
Generator == \/ Deliver \/ Continue \/ Take \/ Submit \/ AdmissionFails
             \/ EndAdmission \/ Observe
Consumer == Ask \/ Abandon
Exit == CancelQueued \/ Joined

\* The steps of one map, from entering its context to leaving it.
MapSteps == Consumer \/ Generator \/ Exit \/ Workers

WorkersNext == (\E weighted \in BOOLEAN : Enter(weighted)) \/ Leave \/ MapSteps

WorkersSpec == InitWorkers /\ [][WorkersNext]_workerVars
-----------------------------------------------------------------------------
(* Properties. *)

\* Admission stays within both limits while results wait for their turn: never
\* more unobserved futures than max_pending, and never more admitted weight than
\* max_weight unless one oversized input runs alone.  Weight zero inputs and the
\* input held back for weight are where the accounting of lines 108-139 can slip.
AdmissionBounded ==
  /\ Cardinality(pending) <= MaxPending
  /\ weighed /\ Load(pending) > MaxWeight => Cardinality(pending) = 1
  /\ In("queued") \cup In("running") \subseteq pending

\* However the map ends, leaving its context leaves no thread at work and no
\* input that could still start: the caller may release what the function uses.
WorkersOwned ==
  phase = "closed" => In("queued") = {} /\ In("running") = {}

Serial == INSTANCE SerialMap WITH delivered <- next - 1

\* The consumer cannot tell the pool from a serial map: results come in input
\* order, none is skipped, the first error in input order is the one raised, and
\* the iteration ends normally only after every result was delivered.
ImplementsSerialMap == Serial!Spec
=============================================================================
