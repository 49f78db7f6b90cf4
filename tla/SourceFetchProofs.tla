------------------------- MODULE SourceFetchProofs -------------------------
(***************************************************************************)
(* Proofs about SourceFetch, for any features, overlap and number of       *)
(* edits: a current-state file equals the history it is named for, and the *)
(* history only ever gains one snapshot of news.                           *)
(*                                                                         *)
(* The invariant is about every state file, not only the newest: the file  *)
(* for serial s holds what the first s snapshots say, whichever of them    *)
(* an interrupted update left behind.  MergeUpTo is the step: the latest   *)
(* rows of the first n snapshots are those of the first n - 1, superseded  *)
(* by the n-th.                                                            *)
(***************************************************************************)
EXTENDS SourceFetch, SequenceTheorems, Induction

Table == UNION {[D -> Rows] : D \in SUBSET Feature}
SnapshotType == [stamp : Nat, rows : Table]

\* What the first n snapshots say.
StoredUpTo(n) == Latest([i \in 1..n |-> snapshots[i].rows])

LayerOK == layer \in [Feature -> Rows \cup {Absent}] /\ clock \in 1..MaxEdits

ControlOK == pc \in Steps /\ outcome \in Outcomes /\ full \in BOOLEAN

ObservedOK == observed \in 0..clock /\ (pc # "idle" => observed # 0)

TablesOK == existing \in Table /\ found \in Table /\ candidates \in SUBSET Feature

HistoryOK == snapshots \in Seq(SnapshotType)

StampsOK == \A i \in DOMAIN snapshots : snapshots[i].stamp \in 1..clock

\* Every state file equals the history up to its serial.
CachesHonest == \A s \in DOMAIN caches : s \in 1..Newest /\ caches[s] = StoredUpTo(s)

\* What the fetch compares the layer with is the history.
ReadHonest == pc \in {"changed", "ids", "flips", "features", "publish"} => existing = Stored

NewsReady ==
  pc = "publish" =>
    DOMAIN found # {} /\ \A f \in DOMAIN found : f \in DOMAIN existing => existing[f] # found[f]

UpdateReady ==
  /\ pc = "cache" => Newest >= 1 /\ snapshots[Newest].rows = found
  /\ pc = "prune" => Newest \in DOMAIN caches

FetchInv == /\ LayerOK /\ ControlOK /\ ObservedOK /\ TablesOK /\ HistoryOK /\ StampsOK
            /\ CachesHonest /\ ReadHonest /\ NewsReady /\ UpdateReady

-----------------------------------------------------------------------------
(* The latest rows of a growing history. *)

Holding(tables, f) == {i \in DOMAIN tables : f \in DOMAIN tables[i]}

LEMMA LatestDomain ==
  \A tables : /\ DOMAIN Latest(tables) = {f \in Feature : Holding(tables, f) # {}}
              /\ \A f \in DOMAIN Latest(tables) :
                   Latest(tables)[f] = tables[Max(Holding(tables, f))][f]
BY DEF Latest, Holding

\* A bounded nonempty set of numbers has a greatest element.
LEMMA Greatest ==
  \A m, S : m \in Nat /\ S \subseteq Nat /\ S # {} /\ (\A i \in S : i <= m) =>
    Max(S) \in S /\ \A y \in S : y <= Max(S)
<1> TAKE m, S
<1> HAVE m \in Nat /\ S \subseteq Nat /\ S # {} /\ \A i \in S : i <= m
<1> DEFINE D == {m - i : i \in S}
<1>0. \A i \in S : m - i \in Nat /\ m - i \in D
  OBVIOUS
<1>1. D \subseteq Nat /\ D # {}
  BY <1>0
<1>2. PICK d \in D : \A y \in D : d <= y
  BY <1>1, Least
<1>3. PICK i \in S : d = m - i
  OBVIOUS
<1>4. \A j \in S : i >= j
  BY <1>0, <1>2, <1>3
<1> DEFINE M == Max(S)
<1>6. M \in S /\ \A y \in S : M >= y
  BY <1>4, Zenon DEF Max
<1> QED  BY <1>6

LEMMA MaxIs ==
  \A S \in SUBSET Nat, m \in Nat : m \in S /\ (\A x \in S : x <= m) => Max(S) = m
<1> SUFFICES ASSUME NEW S \in SUBSET Nat, NEW m \in Nat, m \in S, \A x \in S : x <= m
             PROVE  Max(S) = m
  OBVIOUS
<1>1. \A x \in S : (\A y \in S : x >= y) => x = m
  OBVIOUS
<1>2. m \in S /\ \A y \in S : m >= y
  OBVIOUS
<1> QED  BY <1>1, <1>2 DEF Max

\* A table superseded by another, row by row.
LEMMA LatestOfTwo ==
  \A a, b :
    /\ DOMAIN Latest(<<a, b>>) = {f \in Feature : f \in DOMAIN a \/ f \in DOMAIN b}
    /\ \A f \in DOMAIN Latest(<<a, b>>) :
         Latest(<<a, b>>)[f] = IF f \in DOMAIN b THEN b[f] ELSE a[f]
<1> SUFFICES ASSUME NEW a, NEW b
             PROVE  /\ DOMAIN Latest(<<a, b>>) =
                         {f \in Feature : f \in DOMAIN a \/ f \in DOMAIN b}
                    /\ \A f \in DOMAIN Latest(<<a, b>>) :
                         Latest(<<a, b>>)[f] = IF f \in DOMAIN b THEN b[f] ELSE a[f]
  OBVIOUS
<1> DEFINE T == <<a, b>>
<1>1. DOMAIN T = {1, 2} /\ T[1] = a /\ T[2] = b
  OBVIOUS
<1> HIDE DEF T
<1>2. \A f : Holding(T, f) = {i \in {1, 2} : f \in DOMAIN T[i]}
  BY <1>1 DEF Holding
<1>3. \A f : f \in DOMAIN b => Max(Holding(T, f)) = 2
  BY <1>1, <1>2, MaxIs
<1>4. \A f : f \in DOMAIN a /\ f \notin DOMAIN b => Max(Holding(T, f)) = 1
  BY <1>1, <1>2, MaxIs
<1>5. \A f : Holding(T, f) # {} <=> f \in DOMAIN a \/ f \in DOMAIN b
  BY <1>1, <1>2
<1>6. DOMAIN Latest(T) = {f \in Feature : f \in DOMAIN a \/ f \in DOMAIN b}
  BY <1>5, LatestDomain
<1>7. \A f \in DOMAIN Latest(T) : Latest(T)[f] = IF f \in DOMAIN b THEN b[f] ELSE a[f]
  BY <1>1, <1>3, <1>4, <1>6, LatestDomain
<1> QED  BY <1>6, <1>7 DEF T

LEMMA LatestIsFunction ==
  \A tables : Latest(tables) = [f \in DOMAIN Latest(tables) |-> Latest(tables)[f]]
BY DEF Latest

\* The n-th table supersedes what the ones before it say; merging it into what
\* already includes it changes nothing.
LEMMA MergeLast ==
  \A n, m, s, t :
    /\ n \in Nat /\ n >= 1 /\ m \in {n - 1, n}
    /\ DOMAIN s = 1..n /\ DOMAIN t = 1..m /\ \A i \in 1..m : t[i] = s[i]
    => Latest(<<Latest(t), s[n]>>) = Latest(s)
<1> TAKE n, m, s, t
<1> HAVE /\ n \in Nat /\ n >= 1 /\ m \in {n - 1, n}
         /\ DOMAIN s = 1..n /\ DOMAIN t = 1..m /\ \A i \in 1..m : t[i] = s[i]
<1>0. m \in Nat /\ n \in 1..n /\ \A i \in 1..m : i \in 1..n
  OBVIOUS
<1>1. \A f : Holding(s, f) \subseteq Nat /\ (\A i \in Holding(s, f) : i <= n)
  BY DEF Holding
<1>2. \A f : Holding(t, f) \subseteq Nat /\ (\A i \in Holding(t, f) : i <= m)
  BY <1>0 DEF Holding
<1>3. \A f : f \in DOMAIN s[n] => Holding(s, f) # {} /\ Max(Holding(s, f)) = n
  <2> TAKE f
  <2> HAVE f \in DOMAIN s[n]
  <2>1. n \in Holding(s, f)
    BY <1>0 DEF Holding
  <2> QED  BY <1>1, <2>1, MaxIs
<1>4. \A f : f \notin DOMAIN s[n] => Holding(s, f) = Holding(t, f)
  <2> TAKE f
  <2> HAVE f \notin DOMAIN s[n]
  <2>1. \A i : i \in 1..n /\ i # n => i \in 1..m
    OBVIOUS
  <2>2. \A i : i \in Holding(s, f) => i \in Holding(t, f)
    BY <2>1 DEF Holding
  <2>3. \A i : i \in Holding(t, f) => i \in Holding(s, f)
    BY <1>0 DEF Holding
  <2> QED  BY <2>2, <2>3
<1>5. \A f : Holding(t, f) # {} => Max(Holding(t, f)) \in 1..m
  <2> TAKE f
  <2> HAVE Holding(t, f) # {}
  <2>1. Max(Holding(t, f)) \in Holding(t, f)
    BY <1>0, <1>2, Greatest
  <2> QED  BY <2>1 DEF Holding
<1>6. \A f : Holding(t, f) # {} => Holding(s, f) # {}
  BY <1>3, <1>4
<1> DEFINE merged == Latest(<<Latest(t), s[n]>>)
<1>7. DOMAIN merged = {f \in Feature : f \in DOMAIN Latest(t) \/ f \in DOMAIN s[n]}
  <2> DEFINE a == Latest(t)
             b == s[n]
  <2>1. DOMAIN Latest(<<a, b>>) = {f \in Feature : f \in DOMAIN a \/ f \in DOMAIN b}
    <3> HIDE DEF a, b
    <3> QED  BY LatestOfTwo, Zenon
  <2> QED  BY <2>1
<1>8. \A f \in Feature : f \in DOMAIN merged <=> Holding(s, f) # {}
  <2> TAKE f \in Feature
  <2>1. f \in DOMAIN Latest(t) <=> Holding(t, f) # {}
    BY LatestDomain
  <2> QED  BY <1>3, <1>4, <1>6, <1>7, <2>1, Zenon
<1>9. DOMAIN merged = DOMAIN Latest(s)
  BY <1>7, <1>8, LatestDomain
<1>10. \A f \in DOMAIN merged : merged[f] = Latest(s)[f]
  <2> TAKE f \in DOMAIN merged
  <2>1. merged[f] = IF f \in DOMAIN s[n] THEN s[n][f] ELSE Latest(t)[f]
    BY LatestOfTwo
  <2>2. Latest(s)[f] = s[Max(Holding(s, f))][f]
    BY <1>9, LatestDomain
  <2>3. CASE f \in DOMAIN s[n]
    BY <1>3, <2>1, <2>2, <2>3
  <2>4. CASE f \notin DOMAIN s[n]
    <3>1. f \in DOMAIN Latest(t)
      BY <1>7, <2>4
    <3>2. Holding(t, f) # {} /\ Latest(t)[f] = t[Max(Holding(t, f))][f]
      BY <3>1, LatestDomain
    <3>3. Latest(t)[f] = s[Max(Holding(t, f))][f]
      BY <1>5, <3>2
    <3> QED  BY <1>4, <2>1, <2>2, <2>4, <3>3
  <2> QED  BY <2>3, <2>4
<1> QED
  BY <1>9, <1>10, LatestIsFunction, Zenon

\* The state file's update: what a file for serial m says, superseded by the newest
\* snapshot, is what all the snapshots say.
LEMMA MergeUpTo ==
  HistoryOK => \A n, m :
    n \in 1..Newest /\ m \in {n - 1, n} =>
      Latest(<<StoredUpTo(m), snapshots[n].rows>>) = StoredUpTo(n)
<1> SUFFICES ASSUME HistoryOK, NEW n, NEW m, n \in 1..Newest, m \in {n - 1, n}
             PROVE  Latest(<<StoredUpTo(m), snapshots[n].rows>>) = StoredUpTo(n)
  BY Zenon
<1> DEFINE S == [i \in 1..n |-> snapshots[i].rows]
           T == [i \in 1..m |-> snapshots[i].rows]
<1>1. n \in Nat /\ n >= 1
  BY DEF HistoryOK, Newest
<1>2. DOMAIN S = 1..n /\ DOMAIN T = 1..m /\ S[n] = snapshots[n].rows
  BY <1>1
<1>3. \A i \in 1..m : T[i] = S[i]
  BY <1>1
<1> HIDE DEF S, T
<1>4. Latest(<<Latest(T), S[n]>>) = Latest(S)
  BY <1>1, <1>2, <1>3, MergeLast
<1> QED
  BY <1>2, <1>4, Zenon DEF StoredUpTo, S, T

LEMMA StoredIsAll ==
  HistoryOK => /\ DOMAIN snapshots = 1..Newest /\ Newest \in Nat
               /\ StoredUpTo(Newest) = Stored
<1> SUFFICES ASSUME HistoryOK
             PROVE  /\ DOMAIN snapshots = 1..Newest /\ Newest \in Nat
                    /\ StoredUpTo(Newest) = Stored
  OBVIOUS
<1>1. DOMAIN snapshots = 1..Newest /\ Newest \in Nat
  BY DEF HistoryOK, Newest
<1> QED  BY <1>1, Zenon DEF StoredUpTo, Stored

\* Merging well-formed tables gives one.
LEMMA LatestIsTable ==
  \A n, s : n \in Nat /\ DOMAIN s = 1..n /\ (\A i \in 1..n : s[i] \in Table)
            => Latest(s) \in Table
<1> TAKE n, s
<1> HAVE n \in Nat /\ DOMAIN s = 1..n /\ \A i \in 1..n : s[i] \in Table
<1> DEFINE L == Latest(s)
<1>1. \A f \in DOMAIN L : L[f] \in Rows
  <2> TAKE f \in DOMAIN L
  <2>1. Holding(s, f) # {} /\ L[f] = s[Max(Holding(s, f))][f]
    BY LatestDomain
  <2>2. Holding(s, f) \subseteq Nat /\ \A i \in Holding(s, f) : i <= n
    BY DEF Holding
  <2>3. Max(Holding(s, f)) \in Holding(s, f)
    BY <2>1, <2>2, Greatest
  <2> DEFINE i == Max(Holding(s, f))
  <2>4. i \in 1..n /\ f \in DOMAIN s[i]
    BY <2>3 DEF Holding
  <2> HIDE DEF i
  <2>5. s[i] \in Table
    BY <2>4
  <2>6. s[i][f] \in Rows
    BY <2>4, <2>5 DEF Table
  <2> QED  BY <2>1, <2>6 DEF i
<1>2. DOMAIN L \subseteq Feature
  BY LatestDomain
<1>3. L = [f \in DOMAIN L |-> L[f]]
  BY LatestIsFunction, Zenon
<1> HIDE DEF L
<1>4. L \in [DOMAIN L -> Rows]
  BY <1>1, <1>3
<1>5. L \in Table
  BY <1>2, <1>4, Zenon DEF Table
<1> QED  BY <1>5 DEF L

LEMMA StoredIsTable ==
  HistoryOK => \A n \in 0..Newest : StoredUpTo(n) \in Table
<1> SUFFICES ASSUME HistoryOK, NEW n \in 0..Newest PROVE StoredUpTo(n) \in Table
  OBVIOUS
<1> DEFINE S == [i \in 1..n |-> snapshots[i].rows]
<1>1. n \in Nat /\ \A i \in 1..n : i \in 1..Len(snapshots)
  BY DEF HistoryOK, Newest
<1>2. \A i \in 1..n : snapshots[i] \in SnapshotType
  BY <1>1 DEF HistoryOK
<1>3. DOMAIN S = 1..n /\ \A i \in 1..n : S[i] \in Table
  BY <1>2 DEF SnapshotType
<1> HIDE DEF S
<1>4. Latest(S) \in Table
  BY <1>1, <1>3, LatestIsTable
<1> QED  BY <1>4 DEF StoredUpTo, S

LEMMA NoRowsIsTable == NoRows \in Table
<1>1. NoRows \in [{} -> Rows]
  BY DEF NoRows
<1> QED  BY <1>1 DEF Table

-----------------------------------------------------------------------------
(* The invariant. *)

LEMMA FetchInit == Init => FetchInv
<1> SUFFICES ASSUME Init PROVE FetchInv
  OBVIOUS
<1> USE DEF Init
<1>1. LayerOK
  <2>1. FirstRow \in Rows
    BY BoundsAssumption DEF FirstRow, Rows
  <2>2. layer \in [Feature -> Rows \cup {Absent}]
    BY <2>1
  <2> QED  BY <2>2, BoundsAssumption DEF LayerOK
<1>2. ControlOK
  BY DEF ControlOK, Steps, Outcomes
<1>3. ObservedOK
  BY DEF ObservedOK
<1>4. TablesOK
  BY NoRowsIsTable DEF TablesOK
<1>5. HistoryOK /\ StampsOK
  BY DEF HistoryOK, StampsOK
<1>6. CachesHonest
  BY DEF CachesHonest, NoRows
<1>7. ReadHonest /\ NewsReady /\ UpdateReady
  BY DEF ReadHonest, NewsReady, UpdateReady
<1> QED  BY <1>1, <1>2, <1>3, <1>4, <1>5, <1>6, <1>7, Zenon DEF FetchInv

\* What depends on the files alone, while they do not change.
LEMMA StoreKept ==
  CachesHonest /\ HistoryOK /\ UNCHANGED store
    => CachesHonest' /\ HistoryOK' /\ Stored' = Stored /\ Newest' = Newest
BY DEF CachesHonest, HistoryOK, store, Stored, Newest, StoredUpTo

\* A return, from wherever it happens.
LEMMA ReturnKeeps ==
  \A how \in Outcomes : FetchInv /\ Return(how) /\ UNCHANGED <<provider, store>> => FetchInv'
<1> SUFFICES ASSUME FetchInv, NEW how \in Outcomes, Return(how), UNCHANGED <<provider, store>>
             PROVE  FetchInv'
  BY Zenon
<1> USE DEF FetchInv
<1>1. CachesHonest' /\ HistoryOK'
  BY StoreKept
<1>2. LayerOK'
  BY DEF LayerOK, provider
<1>3. ControlOK' /\ ReadHonest' /\ NewsReady' /\ UpdateReady'
  BY DEF ControlOK, Return, Steps, Outcomes, ReadHonest, NewsReady, UpdateReady
<1>4. ObservedOK'
  BY DEF ObservedOK, Return, LayerOK, provider
<1>5. TablesOK'
  BY NoRowsIsTable DEF TablesOK, Return
<1>6. StampsOK'
  BY DEF StampsOK, store, provider
<1> QED  BY <1>1, <1>2, <1>3, <1>4, <1>5, <1>6

LEMMA EditKeeps == \A f \in Feature : FetchInv /\ Edit(f) => FetchInv'
<1> SUFFICES ASSUME FetchInv, NEW f \in Feature, Edit(f) PROVE FetchInv'
  BY Zenon
<1> USE DEF FetchInv
<1>1. CachesHonest' /\ HistoryOK' /\ Stored' = Stored /\ Newest' = Newest
  BY StoreKept DEF Edit
<1>2. clock' = clock + 1 /\ clock' \in 1..MaxEdits /\ clock \in 1..MaxEdits
  BY BoundsAssumption DEF Edit, LayerOK
<1>3. layer' \in [Feature -> Rows \cup {Absent}]
  <2>1. CASE layer' = [layer EXCEPT ![f] = Absent]
    BY <2>1 DEF LayerOK
  <2>2. CASE \E modified \in ChangeTimes(f), active \in BOOLEAN :
               layer' = [layer EXCEPT ![f] =
                           [at |-> clock + 1, modified |-> modified, active |-> active]]
    <3>1. PICK modified \in ChangeTimes(f), active \in BOOLEAN :
               layer' = [layer EXCEPT ![f] =
                           [at |-> clock + 1, modified |-> modified, active |-> active]]
      BY <2>2
    <3>2. clock + 1 \in 1..MaxEdits /\ 0 \in 0..MaxEdits /\ 1 \in 0..MaxEdits
      BY <1>2, BoundsAssumption
    <3>3. layer[f] # Absent => layer[f].modified \in 0..MaxEdits
      BY DEF LayerOK, Rows
    <3>4. modified \in 0..MaxEdits
      BY <3>2, <3>3, BoundsAssumption DEF ChangeTimes
    <3>5. [at |-> clock + 1, modified |-> modified, active |-> active] \in Rows
      BY <3>2, <3>4 DEF Rows
    <3> QED  BY <3>1, <3>5 DEF LayerOK
  <2> QED  BY <2>1, <2>2 DEF Edit
<1>4. LayerOK'
  BY <1>2, <1>3 DEF LayerOK
<1>5. ControlOK' /\ TablesOK' /\ NewsReady'
  BY DEF Edit, locals, ControlOK, TablesOK, NewsReady
<1>6. ObservedOK'
  BY <1>2 DEF Edit, locals, ObservedOK
<1>7. StampsOK'
  BY <1>2 DEF StampsOK, Edit, store
<1>8. ReadHonest' /\ UpdateReady'
  BY <1>1 DEF ReadHonest, UpdateReady, Edit, locals, store
<1> QED  BY <1>1, <1>4, <1>5, <1>6, <1>7, <1>8

LEMMA ObserveKeeps == FetchInv /\ Observe => FetchInv'
<1> SUFFICES ASSUME FetchInv, Observe PROVE FetchInv'
  OBVIOUS
<1> USE DEF FetchInv
<1>1. CachesHonest' /\ HistoryOK'
  BY StoreKept DEF Observe
<1>2. LayerOK' /\ ReadHonest' /\ NewsReady' /\ UpdateReady'
  BY DEF Observe, LayerOK, provider, ReadHonest, NewsReady, UpdateReady
<1>3. ControlOK'
  BY DEF Observe, ControlOK, Steps, Outcomes
<1>4. ObservedOK'
  BY DEF Observe, ObservedOK, LayerOK, provider
<1>5. TablesOK' /\ StampsOK'
  BY DEF Observe, TablesOK, StampsOK, provider, store
<1> QED  BY <1>1, <1>2, <1>3, <1>4, <1>5

\* A table a state file for one of these serials offers.
LEMMA CachedIsHistory ==
  CachesHonest => \A serials, t : t \in CachedAt(serials) =>
    \E s \in serials : s \in DOMAIN caches /\ s \in 1..Newest /\ t = StoredUpTo(s)
BY DEF CachedAt, CachesHonest

LEMMA ReadStoredKeeps == FetchInv /\ ReadStored => FetchInv'
<1> SUFFICES ASSUME FetchInv, ReadStored PROVE FetchInv'
  OBVIOUS
<1> USE DEF FetchInv
<1>1. CachesHonest' /\ HistoryOK' /\ Stored' = Stored
  BY StoreKept DEF ReadStored
<1>2. existing' = Stored
  BY CachedIsHistory, StoredIsAll DEF ReadStored, CurrentFeatures
<1>3. Stored \in Table
  BY StoredIsAll, StoredIsTable
<1>4. ReadHonest' /\ NewsReady' /\ UpdateReady'
  BY <1>1, <1>2 DEF ReadHonest, NewsReady, UpdateReady, ReadStored
<1>5. ControlOK'
  BY DEF ReadStored, ControlOK, Steps
<1>6. LayerOK' /\ ObservedOK'
  BY DEF ReadStored, LayerOK, ObservedOK, provider
<1>7. TablesOK'
  BY <1>2, <1>3 DEF ReadStored, TablesOK
<1>8. StampsOK'
  BY DEF ReadStored, StampsOK, provider, store
<1> QED  BY <1>1, <1>4, <1>5, <1>6, <1>7, <1>8

\* The queries that only collect ids.
LEMMA QueriesKeep == FetchInv /\ (QueryChanged \/ QueryIds) => FetchInv'
<1> SUFFICES ASSUME FetchInv, QueryChanged \/ QueryIds PROVE FetchInv'
  OBVIOUS
<1> USE DEF FetchInv
<1>1. /\ UNCHANGED <<provider, store, full, observed, existing, found, outcome>>
      /\ pc \in {"changed", "ids"} /\ pc' \in {"ids", "flips"}
  BY DEF QueryChanged, QueryIds
<1>2. CachesHonest' /\ HistoryOK' /\ Stored' = Stored
  BY <1>1, StoreKept
<1>3. candidates' \in SUBSET Feature
  BY DEF QueryChanged, QueryIds, TablesOK, Live
<1>4. ReadHonest' /\ NewsReady' /\ UpdateReady'
  BY <1>1, <1>2 DEF ReadHonest, NewsReady, UpdateReady
<1>5. ControlOK'
  BY <1>1 DEF ControlOK, Steps
<1>6. LayerOK' /\ ObservedOK'
  BY <1>1 DEF LayerOK, ObservedOK, provider
<1>7. TablesOK'
  BY <1>1, <1>3 DEF TablesOK
<1>8. StampsOK'
  BY <1>1 DEF StampsOK, provider, store
<1> QED  BY <1>2, <1>4, <1>5, <1>6, <1>7, <1>8

LEMMA QueryFlippedKeeps == FetchInv /\ QueryFlipped => FetchInv'
<1> SUFFICES ASSUME FetchInv, QueryFlipped PROVE FetchInv'
  OBVIOUS
<1>1. UNCHANGED <<provider, store>>
  BY DEF QueryFlipped
<1>2. CASE Return("completed")
  BY <1>1, <1>2, ReturnKeeps DEF Outcomes
<1>3. CASE /\ pc = "flips" /\ pc' = "features" /\ candidates' = candidates \cup Flipped
           /\ UNCHANGED <<full, observed, existing, found, outcome>>
  <2> USE DEF FetchInv
  <2>1. CachesHonest' /\ HistoryOK' /\ Stored' = Stored
    BY <1>1, StoreKept
  <2>2. candidates' \in SUBSET Feature
    BY <1>3 DEF TablesOK, Flipped, Live
  <2>3. ReadHonest' /\ NewsReady' /\ UpdateReady'
    BY <1>3, <2>1 DEF ReadHonest, NewsReady, UpdateReady
  <2>4. ControlOK'
    BY <1>3 DEF ControlOK, Steps
  <2>5. LayerOK' /\ ObservedOK'
    BY <1>1, <1>3 DEF LayerOK, ObservedOK, provider
  <2>6. TablesOK'
    BY <1>3, <2>2 DEF TablesOK
  <2>7. StampsOK'
    BY <1>1 DEF StampsOK, provider, store
  <2> QED  BY <2>1, <2>3, <2>4, <2>5, <2>6, <2>7
<1> QED  BY <1>2, <1>3 DEF QueryFlipped

LEMMA QueryFeaturesKeeps == FetchInv /\ QueryFeatures => FetchInv'
<1> SUFFICES ASSUME FetchInv, QueryFeatures PROVE FetchInv'
  OBVIOUS
<1>1. UNCHANGED <<provider, store>> /\ pc = "features"
  BY DEF QueryFeatures
<1>2. CASE Return("completed") \/ Return("failed")
  BY <1>1, <1>2, ReturnKeeps DEF Outcomes
<1> DEFINE N == News(Answered)
<1>3. CASE /\ N # {} /\ found' = [f \in N |-> layer[f]] /\ pc' = "publish"
           /\ UNCHANGED <<full, observed, existing, candidates, outcome>>
  <2> USE DEF FetchInv
  <2>1. CachesHonest' /\ HistoryOK' /\ Stored' = Stored
    BY <1>1, StoreKept
  <2>2. \A f \in N : /\ f \in Feature /\ layer[f] # Absent
                     /\ f \in DOMAIN existing => existing[f] # layer[f]
    BY DEF News, Answered, Live
  <2> HIDE DEF N
  <2>3. found' \in [N -> Rows] /\ N \in SUBSET Feature
    BY <1>3, <2>2 DEF LayerOK
  <2>4. found' \in Table
    BY <2>3 DEF Table
  <2>5. NewsReady'
    BY <1>3, <2>2 DEF NewsReady
  <2>6. ReadHonest' /\ UpdateReady'
    BY <1>1, <1>3, <2>1 DEF ReadHonest, UpdateReady
  <2>7. ControlOK'
    BY <1>3 DEF ControlOK, Steps
  <2>8. LayerOK' /\ ObservedOK'
    BY <1>1, <1>3 DEF LayerOK, ObservedOK, provider
  <2>9. TablesOK'
    BY <1>3, <2>4 DEF TablesOK
  <2>10. StampsOK'
    BY <1>1 DEF StampsOK, provider, store
  <2> QED  BY <2>1, <2>5, <2>6, <2>7, <2>8, <2>9, <2>10
<1> QED  BY <1>2, <1>3 DEF QueryFeatures

\* A new snapshot changes what none of the earlier ones say.
LEMMA AppendKeeps ==
  HistoryOK /\ Snapshot \in SnapshotType /\ snapshots' = Append(snapshots, Snapshot)
    => /\ HistoryOK' /\ Newest' = Newest + 1 /\ snapshots'[Newest'] = Snapshot
       /\ \A n \in 1..Newest : snapshots'[n] = snapshots[n] /\ StoredUpTo(n)' = StoredUpTo(n)
<1> SUFFICES ASSUME HistoryOK, Snapshot \in SnapshotType,
                    snapshots' = Append(snapshots, Snapshot)
             PROVE  /\ HistoryOK' /\ Newest' = Newest + 1 /\ snapshots'[Newest'] = Snapshot
                    /\ \A n \in 1..Newest : /\ snapshots'[n] = snapshots[n]
                                            /\ StoredUpTo(n)' = StoredUpTo(n)
  OBVIOUS
<1>1. HistoryOK'
  BY DEF HistoryOK
<1>2. Newest \in Nat /\ Newest' = Newest + 1 /\ snapshots'[Newest'] = Snapshot
  BY DEF HistoryOK, Newest
<1>3. \A n \in 1..Newest : snapshots'[n] = snapshots[n]
  BY DEF HistoryOK, Newest
<1>4. \A n \in 1..Newest : StoredUpTo(n)' = StoredUpTo(n)
  <2> TAKE n \in 1..Newest
  <2>1. \A i \in 1..n : i \in 1..Newest
    BY <1>2
  <2>2. [i \in 1..n |-> snapshots'[i].rows] = [i \in 1..n |-> snapshots[i].rows]
    BY <1>3, <2>1
  <2> QED  BY <2>2 DEF StoredUpTo
<1> QED  BY <1>1, <1>2, <1>3, <1>4

LEMMA PublishKeeps == FetchInv /\ Publish => FetchInv'
<1> SUFFICES ASSUME FetchInv, Publish PROVE FetchInv'
  OBVIOUS
<1> USE DEF FetchInv
<1>1. /\ UNCHANGED <<layer, clock, caches, full, observed, existing, candidates, found, outcome>>
      /\ pc = "publish" /\ pc' = "cache" /\ snapshots' = Append(snapshots, Snapshot)
  BY DEF Publish, provider, locals
<1>2. clock \in 1..MaxEdits /\ clock \in Nat /\ observed \in 1..clock
  BY <1>1, BoundsAssumption DEF LayerOK, ObservedOK
<1>3. Snapshot \in SnapshotType /\ Snapshot.rows = found /\ Snapshot.stamp = observed
  BY <1>2 DEF Snapshot, SnapshotType, TablesOK
<1>4. /\ HistoryOK' /\ Newest' = Newest + 1 /\ snapshots'[Newest'] = Snapshot
      /\ \A n \in 1..Newest : snapshots'[n] = snapshots[n] /\ StoredUpTo(n)' = StoredUpTo(n)
  BY <1>1, <1>3, AppendKeeps
<1>5. Newest \in Nat /\ DOMAIN snapshots = 1..Newest
  BY StoredIsAll
<1>6. CachesHonest'
  <2>1. \A s \in DOMAIN caches : s \in 1..Newest' /\ caches[s] = StoredUpTo(s)'
    BY <1>4, <1>5 DEF CachesHonest
  <2> QED  BY <1>1, <2>1 DEF CachesHonest
<1>7. StampsOK'
  <2>1. DOMAIN snapshots' = 1..Newest'
    BY <1>4 DEF HistoryOK, Newest
  <2>2. \A i \in 1..Newest' : i \in 1..Newest \/ i = Newest'
    BY <1>4, <1>5
  <2>3. \A i \in 1..Newest : snapshots'[i].stamp \in 1..clock
    BY <1>4, <1>5 DEF StampsOK
  <2>4. snapshots'[Newest'].stamp \in 1..clock
    BY <1>2, <1>3, <1>4
  <2> QED  BY <1>1, <2>1, <2>2, <2>3, <2>4 DEF StampsOK
<1>8. ReadHonest' /\ NewsReady'
  BY <1>1 DEF ReadHonest, NewsReady
<1>9. UpdateReady'
  BY <1>1, <1>3, <1>4, <1>5 DEF UpdateReady
<1>10. ControlOK'
  BY <1>1 DEF ControlOK, Steps
<1>11. LayerOK' /\ ObservedOK' /\ TablesOK'
  BY <1>1 DEF LayerOK, ObservedOK, TablesOK
<1> QED  BY <1>4, <1>6, <1>7, <1>8, <1>9, <1>10, <1>11

\* The file the update writes equals the whole history, whichever table it starts from.
LEMMA UpdateIsHistory ==
  FetchInv /\ pc = "cache" => \A base \in CacheBase : Latest(<<base, found>>) = StoredUpTo(Newest)
<1> SUFFICES ASSUME FetchInv, pc = "cache", NEW base \in CacheBase
             PROVE  Latest(<<base, found>>) = StoredUpTo(Newest)
  OBVIOUS
<1> USE DEF FetchInv
<1>1. Newest >= 1 /\ snapshots[Newest].rows = found /\ Newest \in Nat
      /\ StoredUpTo(Newest) = Stored
  BY StoredIsAll DEF UpdateReady
<1>2. Newest \in 1..Newest
  BY <1>1
<1>3. \E m \in {Newest - 1, Newest} : base = StoredUpTo(m)
  <2>1. CASE base \in CachedAt({Newest - 1, Newest})
    BY <2>1, CachedIsHistory
  <2>2. CASE base = Stored
    BY <1>1, <2>2
  <2> QED  BY <2>1, <2>2 DEF CacheBase
<1> QED  BY <1>1, <1>2, <1>3, MergeUpTo

LEMMA WriteCurrentStateKeeps == FetchInv /\ WriteCurrentState => FetchInv'
<1> SUFFICES ASSUME FetchInv, WriteCurrentState PROVE FetchInv'
  OBVIOUS
<1>1. PICK base \in CacheBase :
        caches' = [s \in DOMAIN caches \cup {Newest} |->
                     IF s = Newest THEN Latest(<<base, found>>) ELSE caches[s]]
  BY DEF WriteCurrentState
<1>2. /\ UNCHANGED <<layer, clock, snapshots, full, observed, existing, candidates, found,
                     outcome>>
      /\ pc = "cache" /\ pc' = "prune"
  BY DEF WriteCurrentState, provider, locals
<1>3. Latest(<<base, found>>) = StoredUpTo(Newest)
  BY <1>2, UpdateIsHistory
<1> USE DEF FetchInv
<1>4. Newest \in 1..Newest
  BY <1>2, StoredIsAll DEF UpdateReady
<1>5. HistoryOK' /\ Stored' = Stored /\ Newest' = Newest /\ \A n : StoredUpTo(n)' = StoredUpTo(n)
  BY <1>2 DEF HistoryOK, Stored, Newest, StoredUpTo
<1>6. CachesHonest'
  <2>1. DOMAIN caches' = DOMAIN caches \cup {Newest}
    BY <1>1
  <2>2. \A s \in DOMAIN caches' : s \in 1..Newest /\ caches'[s] = StoredUpTo(s)
    <3> TAKE s \in DOMAIN caches'
    <3>1. CASE s = Newest
      BY <1>1, <1>3, <1>4, <2>1, <3>1
    <3>2. CASE s # Newest
      <4>1. s \in DOMAIN caches /\ caches'[s] = caches[s]
        BY <1>1, <2>1, <3>2
      <4> QED  BY <4>1 DEF CachesHonest
    <3> QED  BY <3>1, <3>2
  <2> QED  BY <1>5, <2>2 DEF CachesHonest
<1>7. UpdateReady'
  BY <1>1, <1>2, <1>5 DEF UpdateReady
<1>8. ReadHonest' /\ NewsReady'
  BY <1>2 DEF ReadHonest, NewsReady
<1>9. ControlOK'
  BY <1>2 DEF ControlOK, Steps
<1>10. LayerOK' /\ ObservedOK' /\ TablesOK' /\ StampsOK'
  BY <1>2 DEF LayerOK, ObservedOK, TablesOK, StampsOK
<1> QED  BY <1>5, <1>6, <1>7, <1>8, <1>9, <1>10

LEMMA PruneCachesKeeps == FetchInv /\ PruneCaches => FetchInv'
<1> SUFFICES ASSUME FetchInv, PruneCaches PROVE FetchInv'
  OBVIOUS
<1> USE DEF FetchInv
<1>1. UNCHANGED <<layer, clock, snapshots>> /\ pc = "prune" /\ Return("completed")
  BY DEF PruneCaches, provider
<1>2. HistoryOK' /\ Newest' = Newest /\ \A n : StoredUpTo(n)' = StoredUpTo(n)
  BY <1>1 DEF HistoryOK, Newest, StoredUpTo
<1>3. CachesHonest'
  <2>1. DOMAIN caches' = {Newest} /\ caches'[Newest] = caches[Newest]
    BY DEF PruneCaches
  <2>2. Newest \in DOMAIN caches
    BY <1>1 DEF UpdateReady
  <2> QED  BY <1>2, <2>1, <2>2 DEF CachesHonest
<1>4. ControlOK' /\ ReadHonest' /\ NewsReady' /\ UpdateReady'
  BY <1>1 DEF ControlOK, Return, Steps, Outcomes, ReadHonest, NewsReady, UpdateReady
<1>5. LayerOK' /\ StampsOK'
  BY <1>1 DEF LayerOK, StampsOK
<1>6. ObservedOK'
  BY <1>1 DEF ObservedOK, Return, LayerOK
<1>7. TablesOK'
  BY <1>1, NoRowsIsTable DEF TablesOK, Return
<1> QED  BY <1>2, <1>3, <1>4, <1>5, <1>6, <1>7

LEMMA FetchStep == FetchInv /\ [Next]_vars => FetchInv'
<1> SUFFICES ASSUME FetchInv, [Next]_vars PROVE FetchInv'
  OBVIOUS
<1>1. CASE Skip \/ QueryFails \/ CacheFails \/ Crash
  BY <1>1, ReturnKeeps DEF Skip, QueryFails, CacheFails, Crash, Outcomes
<1>2. CASE Observe
  BY <1>2, ObserveKeeps
<1>3. CASE ReadStored
  BY <1>3, ReadStoredKeeps
<1>4. CASE QueryChanged \/ QueryIds
  BY <1>4, QueriesKeep
<1>5. CASE QueryFlipped
  BY <1>5, QueryFlippedKeeps
<1>6. CASE QueryFeatures
  BY <1>6, QueryFeaturesKeeps
<1>7. CASE Publish
  BY <1>7, PublishKeeps
<1>8. CASE WriteCurrentState
  BY <1>8, WriteCurrentStateKeeps
<1>9. CASE PruneCaches
  BY <1>9, PruneCachesKeeps
<1>10. CASE \E f \in Feature : Edit(f)
  BY <1>10, EditKeeps, Zenon
<1>11. CASE UNCHANGED vars
  <2> USE <1>11 DEF vars, provider, store, locals, FetchInv
  <2>1. CachesHonest' /\ HistoryOK' /\ Stored' = Stored /\ Newest' = Newest
    BY StoreKept
  <2>2. LayerOK' /\ ObservedOK' /\ TablesOK' /\ StampsOK' /\ NewsReady'
    BY DEF LayerOK, ObservedOK, TablesOK, StampsOK, NewsReady
  <2>3. ControlOK'
    BY DEF ControlOK
  <2>4. ReadHonest' /\ UpdateReady'
    BY <2>1 DEF ReadHonest, UpdateReady
  <2> QED  BY <2>1, <2>2, <2>3, <2>4
<1> QED
  BY <1>1, <1>2, <1>3, <1>4, <1>5, <1>6, <1>7, <1>8, <1>9, <1>10, <1>11, Zenon DEF Next, Fetch

\* Nothing a fetch, an edit or a crash does leaves a state file that disagrees with
\* the snapshots up to its serial (write_current_state, read_current_features).
THEOREM FetchInvariant == Spec => []FetchInv
<1> QED  BY FetchInit, FetchStep, PTL DEF Spec

-----------------------------------------------------------------------------
(* The properties. *)

\* Every variable keeps its type: what is stored or cached is a table of rows the
\* layer held, with a time the layer had.
THEOREM TypesHold == Spec => []TypeOK
<1>1. FetchInv => TypeOK
  <2> SUFFICES ASSUME FetchInv PROVE TypeOK
    OBVIOUS
  <2> USE DEF FetchInv
  <2>1. \A t \in Table : IsTable(t)
    BY DEF Table, IsTable
  <2>2. IsTable(existing) /\ IsTable(found) /\ candidates \in SUBSET Feature
    BY <2>1 DEF TablesOK
  <2>3. \A i \in DOMAIN snapshots : snapshots[i].stamp \in 1..clock /\ IsTable(snapshots[i].rows)
    <3> TAKE i \in DOMAIN snapshots
    <3>1. snapshots[i] \in SnapshotType
      BY DEF HistoryOK
    <3> QED  BY <2>1, <3>1 DEF StampsOK, SnapshotType
  <2>4. \A s \in DOMAIN caches : s \in Nat \ {0} /\ IsTable(caches[s])
    <3> TAKE s \in DOMAIN caches
    <3>1. s \in 1..Newest /\ caches[s] = StoredUpTo(s) /\ Newest \in Nat
      BY StoredIsAll DEF CachesHonest
    <3>2. s \in 0..Newest /\ s \in Nat \ {0}
      BY <3>1
    <3> QED  BY <2>1, <3>1, <3>2, StoredIsTable
  <2>5. layer \in [Feature -> Rows \cup {Absent}] /\ clock \in 1..MaxEdits /\ observed \in 0..clock
    BY DEF LayerOK, ObservedOK
  <2>6. pc \in Steps /\ outcome \in Outcomes /\ full \in BOOLEAN
    BY DEF ControlOK
  <2> QED  BY <2>2, <2>3, <2>4, <2>5, <2>6, Zenon DEF TypeOK
<1> QED  BY <1>1, FetchInvariant, PTL

\* Between fetches, reading the state file named for the newest snapshot equals
\* reading every snapshot (read_current_features), for any number of features, edits,
\* failed updates and crashes.
THEOREM CachesMatchHistory == Spec => []CacheMatchesHistory
<1>1. FetchInv => CacheMatchesHistory
  BY StoredIsAll DEF FetchInv, CachesHonest, CacheMatchesHistory
<1> QED  BY <1>1, FetchInvariant, PTL

\* No step rewrites or removes a published snapshot, and the one it adds records only
\* what the history did not already say (next_serial_number,
\* drop_features_already_present).
THEOREM HistoryGrows == Spec => HistoryGrowsByNews
<1> DEFINE Grows == \/ snapshots' = snapshots
                    \/ /\ snapshots' = Append(snapshots, Snapshot)
                       /\ found # NoRows /\ Novel(found)
<1>1. FetchInv /\ [Next]_vars => [Grows]_vars
  <2> SUFFICES ASSUME FetchInv, Next PROVE Grows
    OBVIOUS
  <2>1. CASE Publish
    <3>1. found # NoRows
      BY <2>1 DEF FetchInv, NewsReady, Publish, NoRows
    <3>2. Novel(found)
      BY <2>1 DEF FetchInv, NewsReady, ReadHonest, Publish, Novel
    <3> QED  BY <2>1, <3>1, <3>2 DEF Publish
  <2>2. CASE ~ Publish
    BY <2>2 DEF Next, Fetch, Observe, Skip, ReadStored, QueryChanged, QueryIds, QueryFlipped,
                QueryFeatures, QueryFails, WriteCurrentState, PruneCaches, CacheFails, Crash,
                Edit, store
  <2> QED  BY <2>1, <2>2
<1> QED  BY <1>1, FetchInvariant, PTL DEF Spec, HistoryGrowsByNews
=============================================================================
