------------------------------ MODULE Induction -----------------------------
(***************************************************************************)
(* Induction stated about sets: the set of the cases that hold takes the   *)
(* place of the predicate, so that the principles can be cited like any    *)
(* other fact.                                                             *)
(***************************************************************************)
EXTENDS Integers, FiniteSetTheorems, SequenceTheorems, WellFoundedInduction, TLAPS

\* A nonempty set of natural numbers has a least element.
LEMMA Least ==
  \A S : S \subseteq Nat /\ S # {} => \E x \in S : \A y \in S : x <= y
<1> DEFINE R == {ss \in Nat \X Nat : ss[1] < ss[2]}
<1>1. IsWellFoundedOn(R, Nat)
  BY NatLessThanWellFounded, Zenon DEF OpToRel
<1>2. \A x, y \in Nat : y < x => <<y, x>> \in R
  OBVIOUS
<1> HIDE DEF R
<1> SUFFICES ASSUME NEW S, S \subseteq Nat, S # {}
             PROVE  \E x \in S : \A y \in S : x <= y
  OBVIOUS
<1>3. PICK x \in S : \A y \in S : ~ (<<y, x>> \in R)
  BY <1>1, WFMin, Zenon
<1>4. \A y \in S : x <= y
  <2> TAKE y \in S
  <2>1. x \in Nat /\ y \in Nat
    OBVIOUS
  <2>2. ~ (y < x)
    BY <1>2, <1>3, <2>1, Zenon
  <2> QED  BY <2>1, <2>2
<1> QED
  BY <1>4

\* A set of numbers that holds n whenever it holds every smaller number is Nat.
LEMMA NaturalInduction ==
  \A Good : (\A n \in Nat : (\A m \in 0 .. n - 1 : m \in Good) => n \in Good)
              => Nat \subseteq Good
<1> SUFFICES ASSUME NEW Good, ~ Nat \subseteq Good,
                    \A n \in Nat : (\A m \in 0 .. n - 1 : m \in Good) => n \in Good
             PROVE  FALSE
  OBVIOUS
<1> DEFINE Bad == {n \in Nat : n \notin Good}
<1>1. Bad \subseteq Nat /\ Bad # {}
  OBVIOUS
<1> HIDE DEF Bad
<1>2. PICK n \in Bad : \A m \in Bad : n <= m
  BY <1>1, Least
<1> USE DEF Bad
<1> QED
  BY <1>2

\* What holds of the empty sequence and survives an append holds of them all.
LEMMA SequenceInduction ==
  ASSUME NEW S, NEW Good, << >> \in Good,
         \A s \in Seq(S), e \in S : s \in Good => Append(s, e) \in Good
  PROVE  Seq(S) \subseteq Good
<1> DEFINE Lengths == {n \in Nat : \A s \in Seq(S) : Len(s) = n => s \in Good}
<1>1. ASSUME NEW n \in Nat, \A m \in 0 .. n - 1 : m \in Lengths
      PROVE  n \in Lengths
  <2> SUFFICES ASSUME NEW s \in Seq(S), Len(s) = n PROVE s \in Good
    OBVIOUS
  <2>1. CASE s # << >>
    <3>1. PICK t \in Seq(S), e \in S : s = Append(t, e)
      BY <2>1, SequenceEmptyOrAppend
    <3>2. Len(t) \in Nat /\ Len(s) = Len(t) + 1
      BY <3>1, AppendProperties, LenProperties
    <3>3. Len(t) \in 0 .. n - 1
      BY <3>2
    <3> QED
      BY <1>1, <3>1, <3>3
  <2> QED
    BY <2>1
<1> HIDE DEF Lengths
<1>2. Nat \subseteq Lengths
  BY <1>1, NaturalInduction
<1> USE DEF Lengths
<1>3. \A s \in Seq(S) : Len(s) \in Nat
  BY LenProperties
<1> QED
  BY <1>2, <1>3

\* The same for the subsets of a finite set and their proper subsets.
LEMMA SubsetInduction ==
  ASSUME NEW X, IsFiniteSet(X), NEW Good,
         \A T \in SUBSET X :
           (\A U \in SUBSET T : U # T => U \in Good) => T \in Good
  PROVE  SUBSET X \subseteq Good
<1> DEFINE Bad   == {T \in SUBSET X : T \notin Good}
           Sizes == {Cardinality(T) : T \in Bad}
<1> SUFFICES ASSUME Bad # {} PROVE FALSE
  OBVIOUS
<1>1. \A T \in SUBSET X : IsFiniteSet(T) /\ Cardinality(T) \in Nat
  BY FS_Subset, FS_CardinalityType
<1>2. Sizes \subseteq Nat /\ Sizes # {}
  BY <1>1
<1>3. PICK size \in Sizes : \A other \in Sizes : size <= other
  <2> HIDE DEF Sizes
  <2> QED  BY <1>2, Least
<1>4. PICK T \in Bad : Cardinality(T) = size
  BY <1>3
<1>5. PICK U \in SUBSET T : U # T /\ U \notin Good
  BY <1>4
<1>6. Cardinality(U) < Cardinality(T)
  <2>1. IsFiniteSet(T) /\ Cardinality(T) \in Nat /\ Cardinality(U) \in Nat
    BY <1>1, <1>4, <1>5
  <2>2. Cardinality(U) <= Cardinality(T) /\ Cardinality(T) # Cardinality(U)
    BY <2>1, <1>5, FS_Subset
  <2> QED  BY <2>1, <2>2
<1>7. Cardinality(U) \in Sizes
  BY <1>4, <1>5
<1>8. size <= Cardinality(U) /\ Cardinality(U) \in Nat /\ size \in Nat
  BY <1>2, <1>3, <1>7
<1> QED
  BY <1>4, <1>6, <1>8
=============================================================================
