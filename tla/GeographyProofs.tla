-------------------------- MODULE GeographyProofs --------------------------
(***************************************************************************)
(* Proofs about the worker pool (OrderedWorkers) and the stage that runs   *)
(* it (GeographyGenerations), for any number of inputs, weights, workers,  *)
(* fires, versions, contexts and interruptions.                            *)
(*                                                                         *)
(* The pool: the inductive invariant accounts for every input drawn from   *)
(* the iterator: it is delivered, ready, pending or held back, and which   *)
(* of these it is agrees with what the pool's threads did.  Ending early   *)
(* without an error would need an input that is none of them.              *)
(*                                                                         *)
(* The stage: a signature is bound to the rows it was written for, so its  *)
(* part of the invariant survives whatever happens to the file beside it;  *)
(* the plan of a build is what makes the next signature true.  The pool    *)
(* enters through WorkersInv: a map that ended normally delivered a row    *)
(* for every fire.                                                         *)
(***************************************************************************)
EXTENDS GeographyGenerations, Induction

(* The worker pool.                                                        *)

\* The type invariant, its Boolean variables apart.
FlagsOK == weighed \in BOOLEAN /\ exhausted \in BOOLEAN /\ failed \in BOOLEAN
CountersOK ==
  /\ phase \in Phases /\ outcome \in Outcomes
  /\ taken \in 0..Inputs /\ held \in 0..Inputs /\ next \in 1..Inputs + 1
SetsOK ==
  /\ faulty \in SUBSET Positions /\ pending \in SUBSET Positions
  /\ ready \in SUBSET Positions
  /\ task \in [Positions ->
                {"none", "queued", "running", "done", "error", "cancelled"}]

\* An iteration is open exactly while the generator may be resumed.
OpenPhases == outcome = "open" <=> phase \in {"consumer", "delivering", "admitting",
                                              "waiting"}

\* Nothing of an earlier map is left when the next one is entered.
Untouched == outcome = "none" => InitWorkers

\* What the threads did agrees with the function, and with what was observed.
TasksAgree ==
  \A p \in Positions :
    /\ task[p] = "done" => p \notin faulty
    /\ task[p] = "error" => p \in faulty
    /\ task[p] \in {"queued", "running"} => p \in pending
    /\ p \in pending => task[p] # "none"
    /\ p \in ready => task[p] \in {"done", "error"} /\ p \notin pending

\* Every input drawn is delivered, ready, pending or held back.
Accounted ==
  /\ held # 0 => held = taken
  /\ \A p \in Positions :
       /\ task[p] = "none" <=> p > taken \/ p = held
       /\ p \in ready \cup pending => p >= next
       /\ task[p] # "none" => \/ p < next \/ p \in ready \/ p \in pending
                              \/ outcome = "worker_error"
       /\ p < next => task[p] = "done"

\* An observed error waits for its turn; the iterator's end leaves nothing out.
EndsKnown ==
  outcome = "open" =>
    /\ failed => \E p \in ready : task[p] = "error"
    /\ exhausted => taken = Inputs /\ held = 0
    /\ phase \in {"admitting", "waiting"} => next \notin ready
    /\ \A p \in Positions : task[p] # "cancelled"

EndedComplete == outcome = "finished" => next = Inputs + 1

ThreadsEnd == /\ phase \in {"joining", "closed"} => In("queued") = {}
              /\ phase = "closed" => In("running") = {}

WorkersInv == /\ FlagsOK /\ CountersOK /\ SetsOK /\ OpenPhases /\ Untouched /\ TasksAgree /\ Accounted
              /\ EndsKnown /\ EndedComplete /\ ThreadsEnd

-----------------------------------------------------------------------------
(* The weight of a set of positions: Load is a recursive sum, and the order in *)
(* which it takes the positions does not matter.                               *)

\* The element a sum takes next.
Picked(s) == CHOOSE p \in s : TRUE

\* The function that Load evaluates: it adds up the weights of the parts of T.
Adds(f, T) ==
  f = [s \in SUBSET T |-> IF s = {} THEN 0 ELSE Weight[Picked(s)] + f[s \ {Picked(s)}]]

LEMMA LoadIs == \A T : Load(T) = (CHOOSE f : Adds(f, T))[T]
BY DEF Load, MapThenSumSet, MapThenFoldSet, Adds, Picked

LEMMA PickedIn == \A s : s # {} => Picked(s) \in s
BY DEF Picked

\* Positions are finitely many.
LEMMA FinitePositions == IsFiniteSet(Positions)
BY FS_Interval, InputsAssumption DEF Positions

\* Two sums agree on the sets both are defined for.
LEMMA AddsAgree ==
  ASSUME NEW T \in SUBSET Positions, NEW U \in SUBSET T, NEW f, NEW g,
         Adds(f, T), Adds(g, U)
  PROVE  f[U] = g[U]
<1> DEFINE Good == {s \in SUBSET U : f[s] = g[s]}
<1>1. IsFiniteSet(U)
  BY FinitePositions, FS_Subset
<1>2. ASSUME NEW s \in SUBSET U, \A u \in SUBSET s : u # s => u \in Good
      PROVE  s \in Good
  <2>1. CASE s = {}
    <3>1. f[s] = 0 /\ g[s] = 0
      BY <2>1, Zenon DEF Adds
    <3> QED  BY <3>1
  <2>2. CASE s # {}
    <3> DEFINE u == s \ {Picked(s)}
    <3>1. u \in SUBSET s /\ u # s
      BY <2>2, PickedIn
    <3>2. f[u] = g[u]
      BY <1>2, <3>1
    <3>3. s \in SUBSET T
      OBVIOUS
    <3>4. f[s] = Weight[Picked(s)] + f[u]
      BY <2>2, <3>3, Zenon DEF Adds
    <3>5. g[s] = Weight[Picked(s)] + g[u]
      BY <2>2, Zenon DEF Adds
    <3> QED
      BY <3>2, <3>4, <3>5
  <2> QED  BY <2>1, <2>2
<1> HIDE DEF Good
<1>3. SUBSET U \subseteq Good
  BY <1>1, <1>2, SubsetInduction
<1> USE DEF Good
<1> QED
  BY <1>3

LEMMA WeightType == \A p \in Positions : Weight[p] \in Nat
BY WeightAssumption DEF Positions

\* Every set of positions has its sum.
LEMMA AddsExists == \A T \in SUBSET Positions : \E f : Adds(f, T)
<1> DEFINE Good == {T \in SUBSET Positions : \E f : Adds(f, T)}
           Sum(s) == (CHOOSE f : Adds(f, s))[s]
<1>1. ASSUME NEW T \in SUBSET Positions, \A U \in SUBSET T : U # T => U \in Good
      PROVE  T \in Good
  <2> DEFINE Value(s) == IF s = {} THEN 0
                         ELSE Weight[Picked(s)] + Sum(s \ {Picked(s)})
             h == [s \in SUBSET T |-> Value(s)]
  <2>1. ASSUME NEW s \in SUBSET T, s # {}
        PROVE  Sum(s \ {Picked(s)}) = h[s \ {Picked(s)}]
    <3> DEFINE u == s \ {Picked(s)}
               v == u \ {Picked(u)}
    <3>1. u \in SUBSET T /\ u # T
      BY <2>1, PickedIn
    <3>2. Adds(CHOOSE f : Adds(f, u), u)
      <4>1. \E f : Adds(f, u)
        BY <1>1, <3>1
      <4> QED  BY <4>1, Zenon
    <3>3. h[u] = Value(u)
      BY <3>1
    <3>4. CASE u = {}
      <4>1. Sum(u) = 0
        BY <3>2, <3>4, Zenon DEF Adds
      <4> QED  BY <3>3, <3>4, <4>1
    <3>5. CASE u # {}
      <4>1. v \in SUBSET u /\ v # T /\ v \in SUBSET T
        BY <3>1
      <4>2. Adds(CHOOSE f : Adds(f, v), v)
        <5>1. \E f : Adds(f, v)
          BY <1>1, <4>1
        <5> QED  BY <5>1, Zenon
      <4>3. (CHOOSE f : Adds(f, u))[v] = Sum(v)
        BY <3>1, <3>2, <4>1, <4>2, AddsAgree
      <4>4. Sum(u) = Weight[Picked(u)] + (CHOOSE f : Adds(f, u))[v]
        BY <3>2, <3>5, Zenon DEF Adds
      <4> QED  BY <3>3, <3>5, <4>3, <4>4
    <3> QED  BY <3>4, <3>5
  <2>2. h = [s \in SUBSET T |-> IF s = {} THEN 0
                                ELSE Weight[Picked(s)] + h[s \ {Picked(s)}]]
    <3>1. \A s \in SUBSET T :
            Value(s) = IF s = {} THEN 0
                       ELSE Weight[Picked(s)] + h[s \ {Picked(s)}]
      <4> HIDE DEF Sum, h
      <4> QED  BY <2>1
    <3> HIDE DEF Value
    <3> QED  BY <3>1
  <2>3. Adds(h, T)
    BY <2>2, Zenon DEF Adds
  <2> QED  BY <2>3
<1> HIDE DEF Good
<1>2. SUBSET Positions \subseteq Good
  BY <1>1, SubsetInduction, FinitePositions
<1> USE DEF Good
<1> QED
  BY <1>2

\* Load satisfies the equation that defines it.
LEMMA LoadEquation ==
  /\ Load({}) = 0
  /\ \A T \in SUBSET Positions : T # {} =>
       Load(T) = Weight[Picked(T)] + Load(T \ {Picked(T)})
<1>1. \A T \in SUBSET Positions : Adds(CHOOSE f : Adds(f, T), T)
  BY AddsExists, Zenon
<1>2. Load({}) = 0
  <2>1. Adds(CHOOSE f : Adds(f, {}), {})
    BY <1>1
  <2> QED  BY <2>1, LoadIs, Zenon DEF Adds
<1>3. ASSUME NEW T \in SUBSET Positions, T # {}
      PROVE  Load(T) = Weight[Picked(T)] + Load(T \ {Picked(T)})
  <2> DEFINE u == T \ {Picked(T)}
             f == CHOOSE f : Adds(f, T)
             g == CHOOSE h : Adds(h, u)
  <2>1. u \in SUBSET T /\ Adds(f, T) /\ Adds(g, u)
    BY <1>1
  <2>2. f[u] = g[u]
    <3> HIDE DEF f, g, u
    <3> QED  BY <2>1, AddsAgree
  <2>3. f[T] = Weight[Picked(T)] + f[u]
    BY <2>1, <1>3, Zenon DEF Adds
  <2> QED
    BY <2>2, <2>3, LoadIs
<1> QED
  BY <1>2, <1>3

\* A load is a number, and taking a position out takes its weight out,
\* whichever order the weights are added in.
LEMMA LoadType == \A T \in SUBSET Positions : Load(T) \in Nat
<1> DEFINE Good == {T \in SUBSET Positions : Load(T) \in Nat}
<1>1. ASSUME NEW T \in SUBSET Positions, \A U \in SUBSET T : U # T => U \in Good
      PROVE  T \in Good
  <2>1. CASE T = {}
    BY <2>1, LoadEquation
  <2>2. CASE T # {}
    <3>1. Picked(T) \in T
      BY <2>2, PickedIn
    <3>2. Load(T \ {Picked(T)}) \in Nat /\ Weight[Picked(T)] \in Nat
      BY <1>1, <3>1, WeightType
    <3> QED  BY <2>2, <3>2, LoadEquation
  <2> QED  BY <2>1, <2>2
<1> HIDE DEF Good
<1>2. SUBSET Positions \subseteq Good
  BY <1>1, SubsetInduction, FinitePositions
<1> USE DEF Good
<1> QED
  BY <1>2

LEMMA LoadWithout ==
  \A T \in SUBSET Positions : \A p \in T : Load(T) = Weight[p] + Load(T \ {p})
<1> DEFINE Good == {T \in SUBSET Positions :
                      \A p \in T : Load(T) = Weight[p] + Load(T \ {p})}
<1>1. ASSUME NEW T \in SUBSET Positions, \A U \in SUBSET T : U # T => U \in Good
      PROVE  T \in Good
  <2> SUFFICES ASSUME NEW p \in T PROVE Load(T) = Weight[p] + Load(T \ {p})
    OBVIOUS
  <2> DEFINE q == Picked(T)
             both == T \ {p, q}
  <2>1. q \in T /\ Load(T) = Weight[q] + Load(T \ {q})
    BY PickedIn, LoadEquation
  <2>2. CASE p = q
    BY <2>1, <2>2
  <2>3. CASE p # q
    <3>1. /\ T \ {q} \in SUBSET T /\ T \ {q} # T /\ p \in T \ {q}
          /\ T \ {p} \in SUBSET T /\ T \ {p} # T /\ q \in T \ {p}
          /\ (T \ {q}) \ {p} = both /\ (T \ {p}) \ {q} = both
      BY <2>1, <2>3
    <3>2. Load(T \ {q}) = Weight[p] + Load(both)
      BY <1>1, <3>1
    <3>3. Load(T \ {p}) = Weight[q] + Load(both)
      BY <1>1, <3>1
    <3>4. Load(both) \in Nat /\ Weight[p] \in Nat /\ Weight[q] \in Nat
      BY <2>1, LoadType, WeightType
    <3> HIDE DEF both, q
    <3> QED
      BY <2>1, <3>2, <3>3, <3>4
  <2> QED  BY <2>2, <2>3
<1> HIDE DEF Good
<1>2. SUBSET Positions \subseteq Good
  BY <1>1, SubsetInduction, FinitePositions
<1> USE DEF Good
<1> QED
  BY <1>2

\* Submitting one more adds its weight.
LEMMA LoadWith ==
  ASSUME NEW S \in SUBSET Positions, NEW p \in Positions, p \notin S
  PROVE  Load(S \cup {p}) = Load(S) + Weight[p]
<1>1. S \cup {p} \in SUBSET Positions /\ (S \cup {p}) \ {p} = S
  OBVIOUS
<1>2. Load(S \cup {p}) = Weight[p] + Load(S)
  BY <1>1, LoadWithout
<1> QED
  BY <1>2, LoadType, WeightType

\* Fewer futures weigh no more.
LEMMA LoadMonotone ==
  ASSUME NEW S \in SUBSET Positions
  PROVE  \A U \in SUBSET S : Load(U) <= Load(S)
<1> DEFINE Good == {T \in SUBSET S : \A U \in SUBSET T : Load(U) <= Load(T)}
<1>0. IsFiniteSet(S)
  BY FinitePositions, FS_Subset
<1>1. ASSUME NEW T \in SUBSET S, \A V \in SUBSET T : V # T => V \in Good
      PROVE  T \in Good
  <2> SUFFICES ASSUME NEW U \in SUBSET T PROVE Load(U) <= Load(T)
    OBVIOUS
  <2>1. CASE U = T
    BY <2>1, LoadType
  <2>2. CASE U # T
    <3>1. PICK p \in T : p \notin U
      BY <2>2
    <3>2. T \ {p} \in SUBSET T /\ T \ {p} # T /\ U \in SUBSET (T \ {p})
      BY <3>1
    <3>3. Load(U) <= Load(T \ {p})
      BY <1>1, <3>2
    <3>4. Load(T) = Weight[p] + Load(T \ {p}) /\ Weight[p] \in Nat
      BY LoadWithout, WeightType
    <3>5. Load(U) \in Nat /\ Load(T \ {p}) \in Nat
      BY LoadType
    <3> QED  BY <3>3, <3>4, <3>5
  <2> QED  BY <2>1, <2>2
<1> HIDE DEF Good
<1>2. SUBSET S \subseteq Good
  BY <1>0, <1>1, SubsetInduction
<1> USE DEF Good
<1> QED
  BY <1>2

-----------------------------------------------------------------------------
(* The inductive invariant. *)

USE InputsAssumption, LimitsAssumption, WeightAssumption
USE DEF Phases, Outcomes, Positions

LEMMA InitWorkersInv == InitWorkers => WorkersInv
<1> SUFFICES ASSUME InitWorkers PROVE WorkersInv
  OBVIOUS
<1>0. Untouched
  BY DEF Untouched
<1> USE DEF InitWorkers, NoTask
<1>1. FlagsOK
  BY DEF FlagsOK
<1>6. CountersOK
  BY DEF CountersOK
<1>7. SetsOK
  BY DEF SetsOK
<1>2. OpenPhases /\ EndsKnown /\ EndedComplete
  BY DEF OpenPhases, EndsKnown, EndedComplete
<1>3. TasksAgree
  BY DEF TasksAgree
<1>4. Accounted
  BY DEF Accounted
<1>5. ThreadsEnd
  BY DEF ThreadsEnd, In
<1> QED  BY <1>0, <1>1, <1>2, <1>3, <1>4, <1>5, <1>6, <1>7
   DEF WorkersInv

\* Leaving, and entering the next map.
LEMMA LeaveInv == WorkersInv /\ Leave => WorkersInv'
<1> SUFFICES ASSUME WorkersInv, Leave PROVE WorkersInv'
  OBVIOUS
<1> USE DEF Leave, NoTask
<1>0. Untouched'
  BY DEF Untouched, InitWorkers
<1>1. FlagsOK'
  BY DEF FlagsOK
<1>6. CountersOK'
  BY DEF CountersOK
<1>7. SetsOK'
  BY DEF SetsOK
<1>2. (OpenPhases /\ EndsKnown /\ EndedComplete)'
  BY DEF OpenPhases, EndsKnown, EndedComplete
<1>3. TasksAgree'
  BY DEF TasksAgree
<1>4. Accounted'
  BY DEF Accounted
<1>5. ThreadsEnd'
  BY DEF ThreadsEnd, In
<1> QED  BY <1>0, <1>1, <1>2, <1>3, <1>4, <1>5, <1>6, <1>7
   DEF WorkersInv

LEMMA EnterInv ==
  ASSUME WorkersInv, NEW weighted \in BOOLEAN, Enter(weighted)
  PROVE  WorkersInv'
<1>a. InitWorkers
  BY DEF WorkersInv, Untouched, Enter
<1> USE <1>a DEF Enter, NoTask, InitWorkers
<1>0. Untouched'
  BY DEF Untouched
<1>1. FlagsOK'
  BY DEF FlagsOK
<1>6. CountersOK'
  BY DEF CountersOK
<1>7. SetsOK'
  BY DEF SetsOK
<1>2. (OpenPhases /\ EndsKnown /\ EndedComplete)'
  BY DEF OpenPhases, EndsKnown, EndedComplete
<1>3. TasksAgree'
  BY DEF TasksAgree
<1>4. Accounted'
  BY DEF Accounted
<1>5. ThreadsEnd'
  BY DEF ThreadsEnd, In
<1> QED  BY <1>0, <1>1, <1>2, <1>3, <1>4, <1>5, <1>6, <1>7
   DEF WorkersInv

\* Every step of a map keeps the account.
LEMMA MapStepsInv == WorkersInv /\ MapSteps => WorkersInv'
<1> SUFFICES ASSUME WorkersInv, MapSteps PROVE WorkersInv'
  OBVIOUS
<1> USE DEF WorkersInv, FlagsOK, CountersOK, SetsOK
<1>1. CASE Ask
  <2> USE <1>1 DEF Ask
  <2>1. FlagsOK'
    BY DEF FlagsOK
  <2>2. CountersOK'
    BY DEF CountersOK
  <2>3. SetsOK'
    BY DEF SetsOK
  <2>4. OpenPhases'
    BY DEF OpenPhases
  <2>5. EndedComplete'
    BY DEF EndedComplete
  <2>6. Untouched'
    BY DEF Untouched, InitWorkers
  <2>7. TasksAgree'
    BY DEF TasksAgree
  <2>8. Accounted'
    BY DEF Accounted
  <2>9. EndsKnown'
    BY DEF EndsKnown
  <2>10. ThreadsEnd'
    BY DEF ThreadsEnd, In
  <2> QED  BY <2>1, <2>2, <2>3, <2>4, <2>5, <2>6, <2>7, <2>8, <2>9, <2>10 DEF WorkersInv
<1>2. CASE Abandon
  <2> USE <1>2 DEF Abandon
  <2>1. FlagsOK'
    BY DEF FlagsOK
  <2>2. CountersOK'
    BY DEF CountersOK
  <2>3. SetsOK'
    BY DEF SetsOK
  <2>4. OpenPhases'
    BY DEF OpenPhases
  <2>5. EndedComplete'
    BY DEF EndedComplete
  <2>6. Untouched'
    BY DEF Untouched, InitWorkers
  <2>7. TasksAgree'
    BY DEF TasksAgree
  <2>8. Accounted'
    BY DEF Accounted, OpenPhases
  <2>9. EndsKnown'
    BY DEF EndsKnown
  <2>10. ThreadsEnd'
    BY DEF ThreadsEnd, In
  <2> QED  BY <2>1, <2>2, <2>3, <2>4, <2>5, <2>6, <2>7, <2>8, <2>9, <2>10 DEF WorkersInv
<1>3. CASE Deliver
  <2> USE <1>3 DEF Deliver
  <2>1. FlagsOK'
    BY DEF FlagsOK
  <2>2. CountersOK'
    BY DEF CountersOK
  <2>3. SetsOK'
    BY DEF SetsOK
  <2>4. OpenPhases'
    BY DEF OpenPhases
  <2>5. EndedComplete'
    BY DEF EndedComplete
  <2>6. Untouched'
    BY DEF Untouched, InitWorkers
  <2>7. TasksAgree'
    BY DEF TasksAgree
  <2>8. Accounted'
    BY DEF Accounted, OpenPhases, TasksAgree
  <2>9. EndsKnown'
    BY DEF EndsKnown
  <2>10. ThreadsEnd'
    BY DEF ThreadsEnd, In
  <2> QED  BY <2>1, <2>2, <2>3, <2>4, <2>5, <2>6, <2>7, <2>8, <2>9, <2>10 DEF WorkersInv
<1>4. CASE Continue
  <2> USE <1>4 DEF Continue, MayAdmit, Ends
  <2>1. FlagsOK'
    BY DEF FlagsOK
  <2>2. CountersOK'
    BY DEF CountersOK
  <2>3. SetsOK'
    BY DEF SetsOK
  <2>4. OpenPhases'
    BY DEF OpenPhases
  <2>5. EndedComplete'
    BY DEF EndedComplete, Accounted, EndsKnown, OpenPhases
  <2>6. Untouched'
    BY DEF Untouched, InitWorkers
  <2>7. TasksAgree'
    BY DEF TasksAgree
  <2>8. Accounted'
    BY DEF Accounted, OpenPhases
  <2>9. EndsKnown'
    BY DEF EndsKnown
  <2>10. ThreadsEnd'
    BY DEF ThreadsEnd, In
  <2> QED  BY <2>1, <2>2, <2>3, <2>4, <2>5, <2>6, <2>7, <2>8, <2>9, <2>10 DEF WorkersInv
<1>5. CASE Take
  <2> USE <1>5 DEF Take
  <2>1. FlagsOK'
    BY DEF FlagsOK
  <2>2. CountersOK'
    BY DEF CountersOK
  <2>3. SetsOK'
    BY DEF SetsOK
  <2>4. OpenPhases'
    BY DEF OpenPhases
  <2>5. EndedComplete'
    BY DEF EndedComplete
  <2>6. Untouched'
    BY DEF Untouched, InitWorkers
  <2>7. TasksAgree'
    BY DEF TasksAgree
  <2>8. Accounted'
    BY DEF Accounted
  <2>9. EndsKnown'
    BY DEF EndsKnown
  <2>10. ThreadsEnd'
    BY DEF ThreadsEnd, In
  <2> QED  BY <2>1, <2>2, <2>3, <2>4, <2>5, <2>6, <2>7, <2>8, <2>9, <2>10 DEF WorkersInv
<1>6. CASE Submit
  <2> USE <1>6 DEF Submit
  <2>1. FlagsOK'
    BY DEF FlagsOK
  <2>2. CountersOK'
    BY DEF CountersOK
  <2>3. SetsOK'
    BY DEF SetsOK
  <2>4. OpenPhases'
    BY DEF OpenPhases
  <2>5. EndedComplete'
    BY DEF EndedComplete
  <2>6. Untouched'
    BY DEF Untouched, InitWorkers
  <2>7. TasksAgree'
    BY DEF TasksAgree, Accounted
  <2>8. Accounted'
    BY DEF Accounted
  <2>9. EndsKnown'
    BY DEF EndsKnown, MayAdmit
  <2>10. ThreadsEnd'
    BY DEF ThreadsEnd, In
  <2> QED  BY <2>1, <2>2, <2>3, <2>4, <2>5, <2>6, <2>7, <2>8, <2>9, <2>10 DEF WorkersInv
<1>7. CASE AdmissionFails
  <2> USE <1>7 DEF AdmissionFails, Ends
  <2>1. FlagsOK'
    BY DEF FlagsOK
  <2>2. CountersOK'
    BY DEF CountersOK
  <2>3. SetsOK'
    BY DEF SetsOK
  <2>4. OpenPhases'
    BY DEF OpenPhases
  <2>5. EndedComplete'
    BY DEF EndedComplete
  <2>6. Untouched'
    BY DEF Untouched, InitWorkers
  <2>7. TasksAgree'
    BY DEF TasksAgree
  <2>8. Accounted'
    BY DEF Accounted, OpenPhases
  <2>9. EndsKnown'
    BY DEF EndsKnown
  <2>10. ThreadsEnd'
    BY DEF ThreadsEnd, In
  <2> QED  BY <2>1, <2>2, <2>3, <2>4, <2>5, <2>6, <2>7, <2>8, <2>9, <2>10 DEF WorkersInv
<1>8. CASE EndAdmission
  <2> USE <1>8 DEF EndAdmission, MayAdmit, Fits, Ends
  <2>1. FlagsOK'
    BY DEF FlagsOK
  <2>2. CountersOK'
    BY DEF CountersOK
  <2>3. SetsOK'
    BY DEF SetsOK
  <2>4. OpenPhases'
    BY DEF OpenPhases
  <2>5. EndedComplete'
    <3>1. CASE pending # {}
      BY <3>1 DEF EndedComplete, OpenPhases
    <3>2. CASE pending = {}
      <4>1. Cardinality(pending) < MaxPending
        BY <3>2, FS_EmptySet
      <4>2. (failed \/ exhausted) /\ outcome = "open" /\ next \notin ready
        BY <3>2, <4>1 DEF OpenPhases, EndsKnown
      <4>3. ~(next \in Positions)
        <5>1. SUFFICES ASSUME next \in Positions PROVE FALSE
          OBVIOUS
        <5>2. task[next] = "none"
          BY <3>2, <4>2, <5>1 DEF Accounted
        <5>3. next > taken \/ next = held
          BY <5>1, <5>2 DEF Accounted
        <5>4. ~exhausted
          BY <5>1, <5>3 DEF EndsKnown, OpenPhases
        <5>5. PICK p \in ready : task[p] = "error"
          BY <4>2, <5>4 DEF EndsKnown
        <5>6. p \in Positions /\ p >= next /\ p # next /\ p <= taken /\ p # held
          BY <4>2, <5>5 DEF Accounted
        <5> QED  BY <5>1, <5>3, <5>6 DEF Accounted
      <4> QED  BY <4>3 DEF EndedComplete
    <3> QED  BY <3>1, <3>2
  <2>6. Untouched'
    BY DEF Untouched, InitWorkers
  <2>7. TasksAgree'
    BY DEF TasksAgree
  <2>8. Accounted'
    BY DEF Accounted, OpenPhases
  <2>9. EndsKnown'
    BY DEF EndsKnown
  <2>10. ThreadsEnd'
    BY DEF ThreadsEnd, In
  <2> QED  BY <2>1, <2>2, <2>3, <2>4, <2>5, <2>6, <2>7, <2>8, <2>9, <2>10 DEF WorkersInv
<1>9. CASE Observe
  <2> USE <1>9 DEF Observe, In
  <2>1. FlagsOK'
    BY DEF FlagsOK
  <2>2. CountersOK'
    BY DEF CountersOK
  <2>3. SetsOK'
    BY DEF SetsOK
  <2>4. OpenPhases'
    BY DEF OpenPhases
  <2>5. EndedComplete'
    BY DEF EndedComplete
  <2>6. Untouched'
    BY DEF Untouched, InitWorkers
  <2>7. TasksAgree'
    BY DEF TasksAgree
  <2>8. Accounted'
    BY DEF Accounted
  <2>9. EndsKnown'
    BY DEF EndsKnown
  <2>10. ThreadsEnd'
    BY DEF ThreadsEnd
  <2> QED  BY <2>1, <2>2, <2>3, <2>4, <2>5, <2>6, <2>7, <2>8, <2>9, <2>10 DEF WorkersInv
<1>10. CASE CancelQueued
  <2> USE <1>10 DEF CancelQueued
  <2>1. FlagsOK'
    BY DEF FlagsOK
  <2>2. CountersOK'
    BY DEF CountersOK
  <2>3. SetsOK'
    BY DEF SetsOK
  <2>4. OpenPhases'
    BY DEF OpenPhases
  <2>5. EndedComplete'
    BY DEF EndedComplete
  <2>6. Untouched'
    BY DEF Untouched, InitWorkers
  <2>7. TasksAgree'
    BY DEF TasksAgree
  <2>8. Accounted'
    BY DEF Accounted
  <2>9. EndsKnown'
    BY DEF EndsKnown, OpenPhases
  <2>10. ThreadsEnd'
    BY DEF ThreadsEnd, In
  <2> QED  BY <2>1, <2>2, <2>3, <2>4, <2>5, <2>6, <2>7, <2>8, <2>9, <2>10 DEF WorkersInv
<1>11. CASE Joined
  <2> USE <1>11 DEF Joined, In
  <2>1. FlagsOK'
    BY DEF FlagsOK
  <2>2. CountersOK'
    BY DEF CountersOK
  <2>3. SetsOK'
    BY DEF SetsOK
  <2>4. OpenPhases'
    BY DEF OpenPhases
  <2>5. EndedComplete'
    BY DEF EndedComplete
  <2>6. Untouched'
    BY DEF Untouched, InitWorkers
  <2>7. TasksAgree'
    BY DEF TasksAgree
  <2>8. Accounted'
    BY DEF Accounted
  <2>9. EndsKnown'
    BY DEF EndsKnown
  <2>10. ThreadsEnd'
    BY DEF ThreadsEnd
  <2> QED  BY <2>1, <2>2, <2>3, <2>4, <2>5, <2>6, <2>7, <2>8, <2>9, <2>10 DEF WorkersInv
<1>12. ASSUME NEW p \in Positions, WorkerStarts(p) PROVE WorkersInv'
  <2> USE <1>12 DEF WorkerStarts
  <2>1. FlagsOK'
    BY DEF FlagsOK
  <2>2. CountersOK'
    BY DEF CountersOK
  <2>3. SetsOK'
    BY DEF SetsOK
  <2>4. OpenPhases'
    BY DEF OpenPhases
  <2>5. EndedComplete'
    BY DEF EndedComplete
  <2>6. Untouched'
    BY DEF Untouched, InitWorkers, NoTask
  <2>7. TasksAgree'
    BY DEF TasksAgree
  <2>8. Accounted'
    BY DEF Accounted
  <2>9. EndsKnown'
    BY DEF EndsKnown
  <2>10. ThreadsEnd'
    BY DEF ThreadsEnd, In
  <2> QED  BY <2>1, <2>2, <2>3, <2>4, <2>5, <2>6, <2>7, <2>8, <2>9, <2>10 DEF WorkersInv
<1>13. ASSUME NEW p \in Positions, WorkerReturns(p) PROVE WorkersInv'
  <2> USE <1>13 DEF WorkerReturns
  <2>1. FlagsOK'
    BY DEF FlagsOK
  <2>2. CountersOK'
    BY DEF CountersOK
  <2>3. SetsOK'
    BY DEF SetsOK
  <2>4. OpenPhases'
    BY DEF OpenPhases
  <2>5. EndedComplete'
    BY DEF EndedComplete
  <2>6. Untouched'
    BY DEF Untouched, InitWorkers, NoTask
  <2>7. TasksAgree'
    BY DEF TasksAgree
  <2>8. Accounted'
    BY DEF Accounted
  <2>9. EndsKnown'
    BY DEF EndsKnown
  <2>10. ThreadsEnd'
    BY DEF ThreadsEnd, In
  <2> QED  BY <2>1, <2>2, <2>3, <2>4, <2>5, <2>6, <2>7, <2>8, <2>9, <2>10 DEF WorkersInv
<1> QED
  BY <1>1, <1>2, <1>3, <1>4, <1>5, <1>6, <1>7, <1>8, <1>9, <1>10, <1>11, <1>12, <1>13
     DEF MapSteps, Consumer, Generator, Exit, Workers

LEMMA StutterInv == WorkersInv /\ UNCHANGED workerVars => WorkersInv'
BY DEF workerVars, WorkersInv, FlagsOK, CountersOK, SetsOK, OpenPhases, Untouched,
       InitWorkers, TasksAgree, Accounted, EndsKnown, EndedComplete, ThreadsEnd, In

LEMMA WorkersStepInv == WorkersInv /\ [WorkersNext]_workerVars => WorkersInv'
BY LeaveInv, EnterInv, MapStepsInv, StutterInv DEF WorkersNext

THEOREM WorkersInvariant == WorkersSpec => []WorkersInv
BY InitWorkersInv, WorkersStepInv, PTL DEF WorkersSpec

\* For any number of inputs and any limits, leaving the context of a map leaves no
\* thread at work and no input that could still start.
THEOREM WorkersAreOwned == WorkersSpec => []WorkersOwned
<1>1. WorkersInv => WorkersOwned
  BY DEF WorkersInv, ThreadsEnd, WorkersOwned
<1> QED  BY <1>1, WorkersInvariant, PTL

-----------------------------------------------------------------------------
(* Admission. *)

PendingBounded ==
  /\ Cardinality(pending) <= MaxPending
  /\ weighed /\ Load(pending) > MaxWeight => Cardinality(pending) = 1

\* One more future is admitted only into the room both limits leave.
LEMMA SubmitBounded ==
  ASSUME WorkersInv, PendingBounded, Submit
  PROVE  PendingBounded'
<1>1. /\ pending \in SUBSET Positions /\ held \in Positions /\ weighed' = weighed
      /\ pending' = pending \cup {held} /\ Cardinality(pending) < MaxPending
      /\ Fits(held)
  BY DEF Submit, MayAdmit, WorkersInv, SetsOK, CountersOK, Positions
<1>2. held \notin pending
  BY <1>1 DEF WorkersInv, Accounted, TasksAgree
<1>3. IsFiniteSet(pending)
  BY <1>1, FinitePositions, FS_Subset
<1>4. Cardinality(pending') = Cardinality(pending) + 1 /\ Cardinality(pending) \in Nat
  BY <1>1, <1>2, <1>3, FS_AddElement, FS_CardinalityType
<1>5. Cardinality(pending') <= MaxPending
  BY <1>1, <1>4, LimitsAssumption
<1>6. CASE ~weighed
  BY <1>1, <1>5, <1>6 DEF PendingBounded
<1>7. CASE pending = {}
  BY <1>4, <1>5, <1>7, FS_EmptySet DEF PendingBounded
<1>8. CASE Load(pending) + Weight[held] <= MaxWeight
  <2>1. Load(pending') <= MaxWeight
    BY <1>1, <1>2, <1>8, LoadWith
  <2>2. Load(pending') \in Nat
    BY <1>1, LoadType
  <2> QED
    BY <1>5, <2>1, <2>2, LimitsAssumption DEF PendingBounded
<1> QED
  BY <1>1, <1>6, <1>7, <1>8 DEF Fits

\* Observing completions takes futures, and their weights, out.
LEMMA ObserveBounded ==
  ASSUME WorkersInv, PendingBounded, Observe
  PROVE  PendingBounded'
<1>1. /\ pending \in SUBSET Positions /\ weighed' = weighed
      /\ pending' \in SUBSET pending /\ pending' # pending
  BY DEF Observe, WorkersInv, SetsOK
<1>2. IsFiniteSet(pending) /\ IsFiniteSet(pending')
  BY <1>1, FinitePositions, FS_Subset
<1>3. /\ Cardinality(pending') <= Cardinality(pending)
      /\ Cardinality(pending') # Cardinality(pending)
      /\ Cardinality(pending) \in Nat /\ Cardinality(pending') \in Nat
  BY <1>1, <1>2, FS_Subset, FS_CardinalityType
<1>4. Load(pending') <= Load(pending)
  BY <1>1, LoadMonotone
<1>5. Load(pending') \in Nat /\ Load(pending) \in Nat
  BY <1>1, LoadType
<1>6. ASSUME weighed, Load(pending') > MaxWeight PROVE FALSE
  <2>1. Cardinality(pending) = 1
    BY <1>1, <1>4, <1>5, <1>6, LimitsAssumption DEF PendingBounded
  <2>2. pending' = {}
    BY <2>1, <1>2, <1>3, FS_EmptySet
  <2> QED
    BY <2>2, <1>6, LoadEquation, LimitsAssumption
<1> QED
  BY <1>1, <1>3, <1>6, LimitsAssumption DEF PendingBounded

\* Every other step leaves the admitted futures alone or starts with none.
LEMMA StepBounded ==
  WorkersInv /\ PendingBounded /\ [WorkersNext]_workerVars => PendingBounded'
<1> SUFFICES ASSUME WorkersInv, PendingBounded, [WorkersNext]_workerVars
             PROVE  PendingBounded'
  OBVIOUS
<1>1. CASE Submit
  BY <1>1, SubmitBounded
<1>2. CASE Observe
  BY <1>2, ObserveBounded
<1>3. CASE pending' = {}
  BY <1>3, FS_EmptySet, LoadEquation, LimitsAssumption DEF PendingBounded
<1>4. CASE pending' = pending /\ weighed' = weighed
  BY <1>4 DEF PendingBounded
<1>5. \/ Submit \/ Observe \/ pending' = {}
      \/ pending' = pending /\ weighed' = weighed
  <2>1. ASSUME NEW weighted \in BOOLEAN, Enter(weighted) PROVE pending' = {}
    BY <2>1 DEF Enter, WorkersInv, Untouched, InitWorkers
  <2>2. CASE Leave
    BY <2>2 DEF Leave
  <2>3. CASE Ask \/ Abandon \/ Deliver \/ Continue \/ Take \/ AdmissionFails
             \/ EndAdmission \/ CancelQueued \/ Joined \/ Workers
    BY <2>3 DEF Ask, Abandon, Deliver, Continue, Take, AdmissionFails, EndAdmission,
                CancelQueued, Joined, Workers, WorkerStarts, WorkerReturns
  <2>4. CASE UNCHANGED workerVars
    BY <2>4 DEF workerVars
  <2> QED
    BY <2>1, <2>2, <2>3, <2>4
       DEF WorkersNext, MapSteps, Consumer, Generator, Exit
<1> QED
  BY <1>1, <1>2, <1>3, <1>4, <1>5

\* For any weights and any limits, the futures not yet observed stay within
\* max_pending and max_weight, one oversized input on its own apart, and no
\* thread works outside that account.
THEOREM AdmissionIsBounded == WorkersSpec => []AdmissionBounded
<1>1. InitWorkers => PendingBounded
  BY FS_EmptySet, LoadEquation, LimitsAssumption DEF InitWorkers, PendingBounded
<1>2. WorkersInv /\ PendingBounded => AdmissionBounded
  BY DEF WorkersInv, TasksAgree, PendingBounded, AdmissionBounded, In
<1> QED
  BY <1>1, <1>2, WorkersInvariant, StepBounded, PTL DEF WorkersSpec

-----------------------------------------------------------------------------
(* The refinement. *)

LEMMA MapStepsSerial ==
  WorkersInv /\ WorkersInv' /\ MapSteps => [Serial!Next]_(Serial!serialVars)
<1> SUFFICES ASSUME WorkersInv, WorkersInv', MapSteps
             PROVE  [Serial!Next]_(Serial!serialVars)
  OBVIOUS
<1> USE DEF WorkersInv, CountersOK, SetsOK, OpenPhases, Serial!Next, Serial!serialVars
<1>1. CASE Abandon
  BY <1>1 DEF Abandon, Serial!Interrupt
<1>2. CASE Deliver
  <2>1. next \in Positions /\ outcome = "open"
    BY <1>2 DEF Deliver
  <2>2. CASE task[next] = "done"
    <3>1. Serial!Deliver
      BY <1>2, <2>1, <2>2 DEF Deliver, TasksAgree, Serial!Deliver
    <3> QED  BY <3>1
  <2>3. CASE task[next] = "error"
    <3>1. Serial!Raise
      BY <1>2, <2>1, <2>3 DEF Deliver, TasksAgree, Serial!Raise
    <3> QED  BY <3>1
  <2> QED  BY <1>2, <2>2, <2>3 DEF Deliver
<1>3. CASE Continue
  BY <1>3 DEF Continue, Ends, EndedComplete, Serial!Finish
<1>4. CASE AdmissionFails
  BY <1>4 DEF AdmissionFails, Ends, Serial!Interrupt
<1>5. CASE EndAdmission
  BY <1>5 DEF EndAdmission, Ends, EndedComplete, Serial!Finish
<1>6. CASE Ask \/ Take \/ Submit \/ Observe \/ CancelQueued \/ Joined \/ Workers
  BY <1>6 DEF Ask, Take, Submit, Observe, CancelQueued, Joined, Workers, WorkerStarts,
              WorkerReturns
<1> QED
  BY <1>1, <1>2, <1>3, <1>4, <1>5, <1>6 DEF MapSteps, Consumer, Generator, Exit

LEMMA WorkersStepSerial ==
  WorkersInv /\ WorkersInv' /\ [WorkersNext]_workerVars
    => [Serial!Next]_(Serial!serialVars)
<1> SUFFICES ASSUME WorkersInv, WorkersInv', [WorkersNext]_workerVars
             PROVE  [Serial!Next]_(Serial!serialVars)
  OBVIOUS
<1>1. CASE MapSteps
  BY <1>1, MapStepsSerial
<1>2. CASE Leave
  BY <1>2 DEF Leave, Serial!Leave, Serial!Next
<1>3. ASSUME NEW weighted \in BOOLEAN, Enter(weighted)
      PROVE  [Serial!Next]_(Serial!serialVars)
  BY <1>3 DEF Enter, Serial!Begin, Serial!Next
<1>4. CASE UNCHANGED workerVars
  BY <1>4 DEF workerVars, Serial!serialVars
<1> QED  BY <1>1, <1>2, <1>3, <1>4 DEF WorkersNext

\* For any number of inputs, workers, pending tasks and any weights, the consumer
\* of the pool sees what a serial map would show it.
THEOREM PoolImplementsSerialMap == WorkersSpec => ImplementsSerialMap
<1>1. InitWorkers => Serial!Fresh
  BY DEF InitWorkers, Serial!Fresh
<1> QED
  BY <1>1, WorkersInvariant, WorkersStepSerial, PTL
     DEF WorkersSpec, ImplementsSerialMap, Serial!Spec

HIDE DEF Phases, Outcomes, Positions

-----------------------------------------------------------------------------
(* The stage.                                                              *)


RowType == [evidence : Versions, context : Contexts, classified : BOOLEAN]
FileType == [rows : [Fires -> RowType], stamp : Stamps]
TagType == [evidence : [Fires -> Versions], context : Contexts]
LinkType == [full : FileType, context : Contexts]

InputsOK == evidence \in [Fires -> Versions] /\ context \in Contexts

FilesOK == /\ full \in SUBSET FileType /\ growth \in SUBSET FileType
           /\ fullSignature \in SUBSET [checksum : FileType, generation : SUBSET TagType]
           /\ growthSignature \in SUBSET [checksum : FileType,
                                          generation : SUBSET LinkType]

PlanOK == reused \in SUBSET Fires /\ classified \in SUBSET Fires

\* A tag on a signature is true of the rows it was written for.
TagsTrue == \A s \in fullSignature : \A tag \in s.generation :
              s.checksum.rows = Recomputed(tag)

\* Growth is signed for the full rows it was derived from.
LinksTrue == \A s \in growthSignature : \A link \in s.generation :
               s.checksum.rows = link.full.rows

PlanSound ==
  pc \in {"bounded", "preparing"} =>
    /\ reused \subseteq CachedFires
    /\ reused \cap classified # {} => PriorIsTagged
    /\ readable => classified = Fires

FullSound ==
  pc \in {"full_signature", "differential", "growth", "growth_signature", "finished"} =>
    \E file \in FileType :
      /\ full = {file}
      /\ \A fire \in Fires : Current(file.rows[fire], fire)
      /\ readable => \A fire \in Fires : file.rows[fire].classified = TRUE

Tagging == pc = "full_signature" =>
             \A file \in full, fire \in classified : file.rows[fire].classified = TRUE

FullSigned == pc \in {"differential", "growth", "growth_signature", "finished"} =>
                ValidSignature(full, fullSignature) # {}

GrowthSound == pc = "growth_signature" =>
                 \E derived \in FileType :
                   growth = {derived} /\ \A file \in full : derived.rows = file.rows

EndAccepted == pc = "finished" => Accepted

GeoInv == /\ InputsOK /\ FilesOK /\ PlanOK /\ TagsTrue /\ LinksTrue /\ PlanSound
          /\ FullSound /\ Tagging /\ FullSigned /\ GrowthSound /\ EndAccepted

-----------------------------------------------------------------------------
(* The stage uses the pool as the pool is meant to be used. *)

LEMMA StageStepsPool == GeographyNext => [WorkersNext]_workerVars
BY DEF GeographyNext, ChangeInputs, BeginStage, SkipFull, StartBounded,
       CatalogUnavailable, StartPrepared, ReplaceFull, SignFull, SkipDifferential,
       StartDifferential, ReplaceGrowth, SignGrowth, FinishStage, StageFails,
       Interrupted, MapRuns, WorkersNext

\* Every map of a stage is a run of the pool as OrderedWorkers describes it, so what
\* is proved of the pool holds of the stage.
THEOREM StageRunsPool == GeographySpec => WorkersSpec
<1>1. InitGeography => InitWorkers
  BY DEF InitGeography
<1>2. [GeographyNext]_geoVars => [WorkersNext]_workerVars
  BY StageStepsPool DEF geoVars, workerVars
<1> QED  BY <1>1, <1>2, PTL DEF GeographySpec, WorkersSpec

\* Leaving a map of the stage leaves no thread that could still read its sources.
THEOREM StageOwnsWorkers == GeographySpec => []WorkersOwned
BY StageRunsPool, WorkersAreOwned, PTL

\* The maps of a stage keep to the pool's limits, whatever its rows weigh.
THEOREM StageAdmissionIsBounded == GeographySpec => []AdmissionBounded
BY StageRunsPool, AdmissionIsBounded, PTL

\* The rows a stage collects are those of a serial map over its fires.
THEOREM StageMapsSerially == GeographySpec => ImplementsSerialMap
BY StageRunsPool, PoolImplementsSerialMap, PTL

LEMMA InitGeoInv == InitGeography => GeoInv
BY DEF InitGeography, GeoInv, InputsOK, FilesOK, PlanOK, TagsTrue, LinksTrue, PlanSound,
       FullSound, Tagging, FullSigned, GrowthSound, EndAccepted

-----------------------------------------------------------------------------
(* What is read of the files before a build. *)

\* A valid signature is the signature of the one file beside it.
LEMMA ValidIsBound ==
  \A s \in ValidSignature(full, fullSignature) : full = {s.checksum} /\ s \in fullSignature
BY DEF ValidSignature

\* The rows a tagged history holds of a fire whose key is current carry a class.
LEMMA TaggedRow ==
  FilesOK /\ TagsTrue /\ PriorIsTagged =>
    \A file \in full, fire \in Fires : file.rows[fire].classified = TRUE
<1> SUFFICES ASSUME FilesOK, TagsTrue, PriorIsTagged, NEW file \in full, NEW fire \in Fires
             PROVE  file.rows[fire].classified = TRUE
  OBVIOUS
<1>1. PICK s \in ValidSignature(full, fullSignature) : s.generation # {}
  BY DEF PriorIsTagged
<1>2. PICK tag \in s.generation : TRUE
  BY <1>1
<1>3. file = s.checksum /\ s \in fullSignature
  BY ValidIsBound
<1>4. file.rows = Recomputed(tag)
  BY <1>2, <1>3 DEF TagsTrue
<1> QED  BY <1>4 DEF Recomputed

\* A kept row is current, and classified where the plan counts it as classified.
LEMMA KeptRow ==
  /\ FilesOK /\ InputsOK /\ PlanOK /\ TagsTrue /\ PlanSound
  /\ pc \in {"bounded", "preparing"}
  =>
    \A fire \in reused :
      /\ FullRow(fire) \in RowType
      /\ Current(FullRow(fire), fire)
      /\ fire \in classified => FullRow(fire).classified = TRUE
<1> SUFFICES ASSUME FilesOK, InputsOK, PlanOK, TagsTrue, PlanSound,
                    pc \in {"bounded", "preparing"}, NEW fire \in reused
             PROVE  /\ FullRow(fire) \in RowType
                    /\ Current(FullRow(fire), fire)
                    /\ fire \in classified => FullRow(fire).classified = TRUE
  OBVIOUS
<1>1. fire \in Fires /\ fire \in CachedFires
  BY DEF PlanOK, PlanSound
<1>2. PICK rows \in PriorRows(full, fullSignature) : Current(rows[fire], fire)
  BY <1>1 DEF CachedFires
<1>3. PICK s \in ValidSignature(full, fullSignature) : rows = s.checksum.rows
  BY <1>2 DEF PriorRows
<1>4. full = {s.checksum} /\ s.checksum \in FileType
  BY <1>3, ValidIsBound DEF FilesOK
<1>5. \A other \in PriorRows(full, fullSignature) : other = rows
  BY <1>3, <1>4, ValidIsBound DEF PriorRows
<1>6. {r[fire] : r \in PriorRows(full, fullSignature)} = {rows[fire]}
  BY <1>2, <1>5
<1>7. FullRow(fire) = rows[fire]
  BY <1>6 DEF FullRow
<1>8. rows[fire] \in RowType
  BY <1>1, <1>3, <1>4 DEF FileType
<1>9. fire \in classified => rows[fire].classified = TRUE
  BY <1>1, <1>3, <1>4, TaggedRow DEF PlanSound
<1>10. FullRow(fire) \in RowType
  BY <1>7, <1>8
<1>11. Current(FullRow(fire), fire)
  BY <1>2, <1>7
<1>12. fire \in classified => FullRow(fire).classified = TRUE
  BY <1>7, <1>9
<1> QED  BY <1>10, <1>11, <1>12

\* A map that ended normally delivered a row for every fire.
LEMMA AllCollected == WorkersInv /\ MapFinished => Collected = Fires
BY InputsAssumption DEF WorkersInv, EndedComplete, MapFinished, Fires, Positions, Collected

\* The rows of a full build.
LEMMA FullRows ==
  GeoInv /\ pc \in {"bounded", "preparing"} =>
    \A fire \in Fires : /\ FullRow(fire) \in RowType
                        /\ Current(FullRow(fire), fire)
                        /\ fire \in classified => FullRow(fire).classified = TRUE
<1> SUFFICES ASSUME GeoInv, pc \in {"bounded", "preparing"}, NEW fire \in Fires
             PROVE  /\ FullRow(fire) \in RowType
                    /\ Current(FullRow(fire), fire)
                    /\ fire \in classified => FullRow(fire).classified = TRUE
  OBVIOUS
<1>1. CASE fire \in reused
  BY <1>1, KeptRow DEF GeoInv
<1>2. CASE fire \notin reused
  <2>1. evidence[fire] \in Versions /\ context \in Contexts
    BY DEF GeoInv, InputsOK
  <2>2. CASE fire \in classified
    <3>1. FullRow(fire) = [evidence |-> evidence[fire], context |-> context,
                           classified |-> TRUE]
      BY <1>2, <2>2 DEF FullRow, Row
    <3> QED  BY <2>1, <3>1 DEF RowType, Current
  <2>3. CASE fire \notin classified
    <3>0. (fire \in classified) = FALSE
      BY <2>3
    <3>1. FullRow(fire) = [evidence |-> evidence[fire], context |-> context,
                           classified |-> FALSE]
      BY <1>2, <3>0 DEF FullRow, Row
    <3> QED  BY <2>1, <2>3, <3>1 DEF RowType, Current
  <2> QED  BY <2>2, <2>3
<1> QED  BY <1>1, <1>2

\* The rows of a differential build are the full rows they stand for.
LEMMA GrowthRows ==
  GeoInv /\ pc = "growth" =>
    \A file \in full, fire \in Fires : GrowthRow(fire) = file.rows[fire]
<1> SUFFICES ASSUME GeoInv, pc = "growth", NEW file \in full, NEW fire \in Fires
             PROVE  GrowthRow(fire) = file.rows[fire]
  OBVIOUS
<1>1. full = {file} /\ file \in FileType
  BY DEF GeoInv, FullSound
<1>2. (CHOOSE f \in full : TRUE) = file
  BY <1>1
<1> DEFINE row == file.rows[fire]
           prior == {rows[fire] : rows \in PriorRows(growth, growthSignature)}
           reusable == {r \in prior : MayReuseGrowth(row, r)}
<1>3. GrowthRow(fire) = IF reusable # {} THEN CHOOSE r \in reusable : TRUE ELSE row
  BY <1>2 DEF GrowthRow
<1>4. row \in RowType
  BY <1>1 DEF FileType
<1>5. \A r \in prior : r \in RowType
  BY DEF PriorRows, ValidSignature, GeoInv, FilesOK, FileType
<1>6. \A r \in reusable : r = row
  BY <1>4, <1>5 DEF MayReuseGrowth, SameKey, RowType
<1> QED  BY <1>3, <1>6

-----------------------------------------------------------------------------
(* Every step keeps the invariant. *)

LEMMA GeoStepInv == GeoInv /\ WorkersInv /\ [GeographyNext]_geoVars => GeoInv'
<1> SUFFICES ASSUME GeoInv, WorkersInv, [GeographyNext]_geoVars PROVE GeoInv'
  OBVIOUS
<1> USE DEF inputVars, fileVars, buildVars
<1> DEFINE Steady == /\ UNCHANGED <<evidence, context, full, fullSignature>>
                     /\ UNCHANGED <<growth, growthSignature>>
\* Steps that leave the inputs and the files alone keep what is said of them.
<1>a. ASSUME Steady PROVE InputsOK' /\ FilesOK' /\ TagsTrue' /\ LinksTrue'
  BY <1>a DEF GeoInv, InputsOK, FilesOK, TagsTrue, LinksTrue, Recomputed
<1>1. CASE ChangeInputs
  <2> USE <1>1 DEF ChangeInputs
  <2>1. InputsOK'
    BY DEF GeoInv, InputsOK
  <2>2. FilesOK' /\ PlanOK' /\ TagsTrue' /\ LinksTrue'
    BY DEF GeoInv, FilesOK, PlanOK, TagsTrue, LinksTrue, Recomputed
  <2>3. pc' = "idle"
    OBVIOUS
  <2> QED  BY <2>1, <2>2, <2>3 DEF GeoInv, PlanSound, FullSound, Tagging, FullSigned,
                                   GrowthSound, EndAccepted
\* Steps to a state without a build, or before its first write.
<1>2. CASE BeginStage \/ CatalogUnavailable \/ FinishStage \/ StageFails \/ Interrupted
  <2>1. Steady /\ PlanOK' /\ pc' \in {"idle", "full", "prepared"}
    BY <1>2 DEF BeginStage, CatalogUnavailable, FinishStage, StageFails, Interrupted,
                EndsEarly, GeoInv, PlanOK
  <2> QED  BY <1>a, <2>1 DEF GeoInv, PlanSound, FullSound, Tagging, FullSigned,
                             GrowthSound, EndAccepted
<1>3. CASE SkipFull
  <2> USE <1>3 DEF SkipFull
  <2>1. Steady /\ PlanOK' /\ pc' = "differential"
    BY DEF GeoInv, PlanOK
  <2>2. PICK s \in ValidSignature(full, fullSignature) : s.generation = Generation
    BY DEF FullIsCurrent, GenerationMatches
  <2>3. full = {s.checksum} /\ s \in fullSignature /\ s.checksum \in FileType
    BY ValidIsBound DEF GeoInv, FilesOK
  <2>4. s.checksum.rows = Recomputed([evidence |-> evidence, context |-> context])
    BY <2>2, <2>3 DEF GeoInv, TagsTrue, Generation
  <2>5. \A fire \in Fires : /\ Current(s.checksum.rows[fire], fire)
                             /\ s.checksum.rows[fire].classified = TRUE
    BY <2>4 DEF Recomputed, Current
  <2>6. FullSound'
    BY <2>1, <2>3, <2>5 DEF FullSound, Current
  <2>7. FullSigned'
    BY <2>1, <2>2 DEF FullSigned, ValidSignature
  <2> QED  BY <1>a, <2>1, <2>6, <2>7 DEF GeoInv, PlanSound, Tagging, GrowthSound,
                                         EndAccepted
<1>4. CASE StartBounded
  <2>1. Steady /\ pc' = "bounded" /\ UNCHANGED unconditional
    BY <1>4 DEF StartBounded
  <2>2. PICK found \in SUBSET Fires, loaded \in BOOLEAN : BoundedPlan(found, loaded)
    BY <1>4 DEF StartBounded
  <2>3. CachedFires' = CachedFires /\ PriorIsTagged' = PriorIsTagged
    BY <2>1 DEF CachedFires, PriorRows, Current, PriorIsTagged, ValidSignature
  <2>4. PlanOK'
    BY <2>2 DEF BoundedPlan, PlanOK, CachedFires
  <2>5. PlanSound'
    BY <2>2, <2>3 DEF BoundedPlan, PlanSound
  <2> QED  BY <1>a, <2>1, <2>4, <2>5 DEF GeoInv, FullSound, Tagging, FullSigned,
                                         GrowthSound, EndAccepted
<1>5. CASE StartPrepared
  <2>1. Steady /\ pc' = "preparing" /\ UNCHANGED unconditional
    BY <1>5 DEF StartPrepared
  <2>2. PICK found \in SUBSET Fires, loaded \in BOOLEAN, indexed \in BOOLEAN :
          PreparedPlan(IF loaded
                       THEN IF indexed \/ ~PriorIsTagged
                            THEN Fires ELSE Fires \ CachedFires
                       ELSE IF indexed THEN found ELSE {},
                       loaded)
    BY <1>5 DEF StartPrepared
  <2>3. CachedFires' = CachedFires /\ PriorIsTagged' = PriorIsTagged
    BY <2>1 DEF CachedFires, PriorRows, Current, PriorIsTagged, ValidSignature
  <2>4. CachedFires \subseteq Fires
    BY DEF CachedFires
  <2>5. PlanOK'
    BY <2>2, <2>4 DEF PreparedPlan, PlanOK
  <2>6. PlanSound'
    BY <2>2, <2>3, <2>4 DEF PreparedPlan, PlanSound
  <2> QED  BY <1>a, <2>1, <2>5, <2>6 DEF GeoInv, FullSound, Tagging, FullSigned,
                                         GrowthSound, EndAccepted
<1>6. CASE ReplaceFull
  <2>0. /\ pc' = "full_signature" /\ pc \in {"bounded", "preparing"}
        /\ UNCHANGED <<evidence, context, readable, classified, reused>>
        /\ UNCHANGED <<growth, growthSignature, fullSignature>>
    BY <1>6 DEF ReplaceFull
  <2>1. PICK stamp \in Stamps :
          full' = {[rows |-> [fire \in Collected |-> FullRow(fire)], stamp |-> stamp]}
    BY <1>6 DEF ReplaceFull
  <2> DEFINE rows == [fire \in Fires |-> FullRow(fire)]
             file == [rows |-> rows, stamp |-> stamp]
  <2>2. [fire \in Collected |-> FullRow(fire)] = rows
    BY <1>6, AllCollected DEF ReplaceFull
  <2>3. full' = {file}
    BY <2>1, <2>2
  <2>a. rows \in [Fires -> RowType]
    <3>1. \A fire \in Fires : FullRow(fire) \in RowType
      BY <2>0, FullRows
    <3> QED  BY <3>1
  <2>c. \A fire \in Fires : Current(rows[fire], fire)
    <3>1. \A fire \in Fires : Current(FullRow(fire), fire)
      BY <2>0, FullRows
    <3> QED  BY <3>1
  <2>4. \A fire \in Fires \cap classified : rows[fire].classified = TRUE
    <3>1. \A fire \in Fires \cap classified : FullRow(fire).classified = TRUE
      BY <2>0, FullRows
    <3> QED  BY <3>1
  <2>b. file.rows = rows
    OBVIOUS
  <2> HIDE DEF rows
  <2>5. file \in FileType
    BY <2>a DEF FileType
  <2>6. PICK new \in FileType : new = file
    BY <2>5
  <2> HIDE DEF file
  <2>7. InputsOK' /\ FilesOK' /\ PlanOK' /\ TagsTrue' /\ LinksTrue'
    BY <2>3, <2>5, <2>0
       DEF GeoInv, InputsOK, FilesOK, PlanOK, TagsTrue, LinksTrue, Recomputed
  <2>8. readable => \A fire \in Fires : new.rows[fire].classified = TRUE
    BY <2>4, <2>0, <2>6, <2>b DEF GeoInv, PlanSound
  <2>9. \A fire \in Fires : Current(new.rows[fire], fire)'
    BY <2>c, <2>0, <2>6, <2>b DEF Current
  <2>10. FullSound'
    BY <2>3, <2>6, <2>0, <2>8, <2>9 DEF FullSound
  <2>11. Tagging'
    BY <2>3, <2>4, <2>0, <2>b DEF Tagging, GeoInv, PlanOK
  <2> QED  BY <2>0, <2>7, <2>10, <2>11 DEF GeoInv, PlanSound, FullSigned, GrowthSound,
                                           EndAccepted
<1>7. CASE SignFull
  <2> USE <1>7 DEF SignFull
  <2>1. PICK file \in FileType :
          /\ full = {file}
          /\ \A fire \in Fires : Current(file.rows[fire], fire)
          /\ readable => \A fire \in Fires : file.rows[fire].classified = TRUE
    BY DEF GeoInv, FullSound
  <2> DEFINE tag == IF ClassificationsComplete THEN Generation ELSE {}
             signature == [checksum |-> file, generation |-> tag]
  <2>2. fullSignature' = {signature}
    BY <2>1
  <2>3. tag \in SUBSET TagType
    BY DEF Generation, TagType, GeoInv, InputsOK
  <2>4. \A t \in tag : file.rows = Recomputed(t)
    <3>1. SUFFICES ASSUME ClassificationsComplete
                   PROVE  file.rows = Recomputed([evidence |-> evidence,
                                                  context |-> context])
      BY DEF Generation
    <3>2. \A fire \in Fires : /\ file.rows[fire] \in RowType
                               /\ file.rows[fire].classified = TRUE
                               /\ Current(file.rows[fire], fire)
      BY <2>1, <3>1 DEF FileType, GeoInv, Tagging, ClassificationsComplete
    <3>3. \A fire \in Fires :
            file.rows[fire] = [evidence |-> evidence[fire], context |-> context,
                               classified |-> TRUE]
      BY <3>2 DEF RowType, Current
    <3> QED  BY <2>1, <3>3 DEF FileType, Recomputed
  <2> HIDE DEF tag
  <2>5. signature.checksum = file /\ signature.generation = tag
    OBVIOUS
  <2>a. signature \in [checksum : FileType, generation : SUBSET TagType]
    BY <2>3
  <2> HIDE DEF signature
  <2>6. /\ pc' = "differential" /\ pc = "full_signature"
        /\ UNCHANGED <<evidence, context, full, growth, growthSignature, readable>>
        /\ reused' = {} /\ classified' = {}
    OBVIOUS
  <2>7. InputsOK' /\ FilesOK' /\ PlanOK' /\ LinksTrue'
    BY <2>2, <2>a, <2>6 DEF GeoInv, InputsOK, FilesOK, PlanOK, LinksTrue
  <2>8. TagsTrue'
    BY <2>2, <2>4, <2>5 DEF TagsTrue, Recomputed
  <2>9. FullSound'
    BY <2>1, <2>6 DEF FullSound, Current
  <2>10. FullSigned'
    BY <2>1, <2>2, <2>5, <2>6 DEF FullSigned, ValidSignature
  <2> QED  BY <2>6, <2>7, <2>8, <2>9, <2>10 DEF GeoInv, PlanSound, Tagging, GrowthSound,
                                                EndAccepted
<1>8. CASE SkipDifferential
  <2> USE <1>8 DEF SkipDifferential
  <2>1. Steady /\ PlanOK' /\ pc' = "finished" /\ UNCHANGED readable
    BY DEF GeoInv, PlanOK
  <2>2. Accepted
    BY DEF Accepted, GrowthIsCurrent, GenerationMatches
  <2>3. EndAccepted'
    BY <2>1, <2>2 DEF EndAccepted, Accepted, ValidSignature, DifferentialGeneration
  <2>4. FullSound' /\ FullSigned'
    BY <2>1 DEF GeoInv, FullSound, FullSigned, Current, ValidSignature
  <2> QED  BY <1>a, <2>1, <2>3, <2>4 DEF GeoInv, PlanSound, Tagging, GrowthSound
<1>9. CASE StartDifferential
  <2> USE <1>9 DEF StartDifferential
  <2>1. Steady /\ PlanOK' /\ pc' = "growth" /\ UNCHANGED readable
    BY DEF GeoInv, PlanOK
  <2>2. FullSound' /\ FullSigned'
    BY <2>1 DEF GeoInv, FullSound, FullSigned, Current, ValidSignature
  <2> QED  BY <1>a, <2>1, <2>2 DEF GeoInv, PlanSound, Tagging, GrowthSound, EndAccepted
<1>10. CASE ReplaceGrowth
  <2> USE <1>10 DEF ReplaceGrowth
  <2>1. PICK stamp \in Stamps :
          growth' = {[rows |-> [fire \in Collected |-> GrowthRow(fire)], stamp |-> stamp]}
    OBVIOUS
  <2>2. PICK file \in FileType : full = {file}
    BY DEF GeoInv, FullSound
  <2>3. [fire \in Collected |-> GrowthRow(fire)] = [fire \in Fires |-> GrowthRow(fire)]
    BY AllCollected
  <2>4. [fire \in Fires |-> GrowthRow(fire)] = file.rows
    BY <2>2, GrowthRows DEF FileType
  <2> DEFINE derived == [rows |-> file.rows, stamp |-> stamp]
  <2>5. growth' = {derived}
    BY <2>1, <2>3, <2>4
  <2>6. derived \in FileType /\ derived.rows = file.rows
    BY <2>2 DEF FileType
  <2> HIDE DEF derived
  <2>7. /\ pc' = "growth_signature" /\ pc = "growth"
        /\ UNCHANGED <<evidence, context, full, fullSignature, growthSignature>>
        /\ UNCHANGED <<readable, reused, classified>>
    OBVIOUS
  <2>8. InputsOK' /\ FilesOK' /\ PlanOK' /\ TagsTrue' /\ LinksTrue'
    BY <2>5, <2>6, <2>7
       DEF GeoInv, InputsOK, FilesOK, PlanOK, TagsTrue, LinksTrue, Recomputed
  <2>9. FullSound' /\ FullSigned'
    BY <2>7 DEF GeoInv, FullSound, FullSigned, Current, ValidSignature
  <2>10. GrowthSound'
    BY <2>2, <2>5, <2>6, <2>7 DEF GrowthSound
  <2> QED  BY <2>7, <2>8, <2>9, <2>10 DEF GeoInv, PlanSound, Tagging, EndAccepted
<1>11. CASE SignGrowth
  <2> USE <1>11 DEF SignGrowth
  <2>1. PICK derived \in FileType :
          growth = {derived} /\ \A file \in full : derived.rows = file.rows
    BY DEF GeoInv, GrowthSound
  <2>2. PICK s \in ValidSignature(full, fullSignature) : TRUE
    BY DEF GeoInv, FullSigned
  <2>3. full = {s.checksum} /\ s.checksum \in FileType
    BY <2>2, ValidIsBound DEF GeoInv, FilesOK
  <2> DEFINE link == [full |-> s.checksum, context |-> context]
             signature == [checksum |-> derived, generation |-> {link}]
  <2>4. DifferentialGeneration = {link}
    BY <2>2, <2>3, ValidIsBound DEF DifferentialGeneration
  <2>5. growthSignature' = {signature}
    BY <2>1, <2>4
  <2>6. link \in LinkType /\ link.full = s.checksum
    BY <2>3 DEF LinkType, GeoInv, InputsOK
  <2> HIDE DEF link
  <2>7. /\ signature \in [checksum : FileType, generation : SUBSET LinkType]
        /\ signature.checksum = derived /\ signature.generation = {link}
    BY <2>1, <2>6
  <2> HIDE DEF signature
  <2>8. /\ pc' = "finished" /\ pc = "growth_signature"
        /\ UNCHANGED <<evidence, context, full, fullSignature, growth>>
        /\ UNCHANGED <<readable, reused, classified>>
    OBVIOUS
  <2>9. InputsOK' /\ FilesOK' /\ PlanOK' /\ TagsTrue'
    BY <2>5, <2>7, <2>8 DEF GeoInv, InputsOK, FilesOK, PlanOK, TagsTrue, Recomputed
  <2>10. LinksTrue'
    BY <2>1, <2>3, <2>5, <2>6, <2>7 DEF LinksTrue
  <2>11. FullSound' /\ FullSigned'
    BY <2>8 DEF GeoInv, FullSound, FullSigned, Current, ValidSignature
  <2>12. DifferentialGeneration' = {link}
    BY <2>4, <2>8 DEF DifferentialGeneration, ValidSignature
  <2>13. EndAccepted'
    BY <2>1, <2>5, <2>7, <2>8, <2>12 DEF EndAccepted, Accepted, ValidSignature
  <2> QED  BY <2>8, <2>9, <2>10, <2>11, <2>13 DEF GeoInv, PlanSound, Tagging, GrowthSound
\* The pool's steps leave the stage alone.
<1>12. CASE MapRuns \/ UNCHANGED geoVars
  <2>1. UNCHANGED <<inputVars, fileVars, buildVars, pc>>
    BY <1>12 DEF MapRuns, geoVars
  <2>2. (InputsOK /\ FilesOK /\ PlanOK)' /\ TagsTrue' /\ LinksTrue'
    BY <2>1 DEF GeoInv, InputsOK, FilesOK, PlanOK, TagsTrue, LinksTrue, Recomputed
  <2>3. PlanSound'
    BY <2>1 DEF GeoInv, PlanSound, CachedFires, PriorRows, PriorIsTagged,
                ValidSignature, Current
  <2>4. FullSound' /\ Tagging' /\ FullSigned' /\ GrowthSound'
    BY <2>1 DEF GeoInv, FullSound, Tagging, FullSigned, GrowthSound, ValidSignature,
                Current
  <2>5. EndAccepted'
    BY <2>1 DEF GeoInv, EndAccepted, Accepted, ValidSignature, DifferentialGeneration
  <2> QED
    BY <2>2, <2>3, <2>4, <2>5 DEF GeoInv
<1> QED
  BY <1>1, <1>2, <1>3, <1>4, <1>5, <1>6, <1>7, <1>8, <1>9, <1>10, <1>11, <1>12
     DEF GeographyNext

THEOREM GeographyInvariant == GeographySpec => [](GeoInv /\ WorkersInv)
<1>1. GeographySpec => []WorkersInv
  BY StageRunsPool, WorkersInvariant, PTL
<1> QED  BY <1>1, InitGeoInv, GeoStepInv, PTL DEF GeographySpec

\* Whatever was interrupted, reused or left unclassified before, a tag is true of
\* the full rows it authenticates and an accepted pair belongs together.
THEOREM PairsAreHonest == GeographySpec => []PairHonest
<1>1. GeoInv => PairHonest
  <2> SUFFICES ASSUME GeoInv PROVE PairHonest
    OBVIOUS
  <2>1. \A s \in ValidSignature(full, fullSignature) : \A tag \in s.generation :
          s.checksum.rows = Recomputed(tag)
    BY ValidIsBound DEF GeoInv, TagsTrue
  <2>2. ASSUME Accepted, NEW file \in full, NEW derived \in growth
        PROVE  derived.rows = file.rows
    <3>1. PICK s \in ValidSignature(growth, growthSignature) :
            s.generation # {} /\ s.generation = DifferentialGeneration
      BY <2>2 DEF Accepted
    <3>2. PICK link \in s.generation : link \in DifferentialGeneration
      BY <3>1
    <3>3. PICK t \in ValidSignature(full, fullSignature) : link.full = t.checksum
      BY <3>2 DEF DifferentialGeneration
    <3>4. file = link.full
      BY <2>2, <3>3, ValidIsBound
    <3>5. derived = s.checksum /\ s \in growthSignature
      BY <2>2, <3>1 DEF ValidSignature
    <3> QED  BY <3>2, <3>4, <3>5 DEF GeoInv, LinksTrue
  <2> QED  BY <2>1, <2>2 DEF PairHonest
<1> QED  BY <1>1, GeographyInvariant, PTL

\* A stage that ends without an error leaves an accepted pair of the current inputs,
\* with every classification that could be made.
THEOREM FinishedStagesAreCurrent == GeographySpec => []FinishedStageIsCurrent
<1>1. GeoInv => FinishedStageIsCurrent
  BY DEF GeoInv, FinishedStageIsCurrent, FullSound, EndAccepted
<1> QED  BY <1>1, GeographyInvariant, PTL
=============================================================================
