----------------------------- MODULE Induction ------------------------------
(***************************************************************************)
(* Induction over the natural numbers in terms of sets, for the proofs     *)
(* that have to follow a recursive function or to find the nearest, the    *)
(* first or the last of something.                                         *)
(***************************************************************************)
EXTENDS Integers, FiniteSetTheorems, WellFoundedInduction, TLAPS

\* A non-empty set of natural numbers has a least element.
LEMMA LeastElement ==
    ASSUME NEW T \in SUBSET Nat, T # {}
    PROVE  \E x \in T : \A y \in T : x <= y
<1> DEFINE Below(n) == {m \in T : m <= n}
           D == {Below(n) : n \in T}
<1>1. D \subseteq FiniteSubsetsOf(Nat)
  <2> SUFFICES ASSUME NEW n \in T PROVE IsFiniteSet(Below(n))
    BY DEF FiniteSubsetsOf
  <2>1. IsFiniteSet(0 .. n)
    BY FS_Interval
  <2>2. \A m \in T : m <= n => m \in 0 .. n
    OBVIOUS
  <2>3. Below(n) \subseteq 0 .. n
    BY <2>2
  <2> QED
    BY <2>1, <2>3, FS_Subset
<1>2. PICK B \in D : \A C \in D : ~ (<<C, B>> \in StrictSubsetOrdering(Nat))
  <2>1. D # {}
    OBVIOUS
  <2> HIDE DEF D
  <2> QED
    BY <1>1, <2>1, FS_StrictSubsetOrderingWellFounded, WFMin
<1>3. PICK n \in T : B = Below(n)
  OBVIOUS
<1>4. ASSUME NEW y \in T PROVE n <= y
  <2>1. SUFFICES ASSUME y < n PROVE FALSE
    OBVIOUS
  <2>2. Below(y) \subseteq Below(n) /\ Below(y) # Below(n)
    <3>1. n \in Below(n) /\ n \notin Below(y)
      BY <2>1
    <3>2. ASSUME NEW m \in T, m <= y PROVE m <= n
      BY <2>1, <3>2
    <3> QED
      BY <3>1, <3>2
  <2>3. Below(y) \in SUBSET Nat /\ Below(n) \in SUBSET Nat
    OBVIOUS
  <2>4. <<Below(y), B>> \in StrictSubsetOrdering(Nat)
    <3> HIDE DEF Below
    <3> QED
      BY <1>3, <2>2, <2>3 DEF StrictSubsetOrdering
  <2> QED
    BY <1>2, <2>4
<1> QED
  BY <1>4

\* A set that has 0, and the successor of each of its elements up to n, has all of 0 .. n.
LEMMA UpTo ==
    ASSUME NEW n \in Nat, NEW S, 0 \in S,
           \A k \in 0 .. n - 1 : k \in S => k + 1 \in S
    PROVE  \A k \in 0 .. n : k \in S
<1> DEFINE T == {k \in 0 .. n : k \notin S}
<1>1. SUFFICES ASSUME T # {} PROVE FALSE
  OBVIOUS
<1>2. T \in SUBSET Nat
  OBVIOUS
<1>3. PICK x \in T : \A y \in T : x <= y
  <2> HIDE DEF T
  <2> QED
    BY <1>1, <1>2, LeastElement
<1>4. x \in 1 .. n /\ x \notin S
  OBVIOUS
<1>5. x - 1 \in 0 .. n - 1 /\ ~ (x <= x - 1)
  BY <1>4
<1>6. x - 1 \in S
  BY <1>3, <1>5
<1>7. (x - 1) + 1 = x
  BY <1>4
<1> QED
  BY <1>4, <1>5, <1>6, <1>7

\* A set of integers that are at most n has a greatest element.
LEMMA GreatestElement ==
    ASSUME NEW n \in Int, NEW T \in SUBSET Int, T # {}, \A x \in T : x <= n
    PROVE  \E x \in T : \A y \in T : y <= x
<1> DEFINE D == {n - x : x \in T}
<1>1. D \in SUBSET Nat /\ D # {}
  <2>1. \A x \in T : x \in Int /\ x <= n /\ n - x \in Nat
    OBVIOUS
  <2>2. D \in SUBSET Nat
    BY <2>1
  <2>3. D # {}
    OBVIOUS
  <2> QED
    BY <2>2, <2>3
<1>2. PICK d \in D : \A e \in D : d <= e
  <2> HIDE DEF D
  <2> QED
    BY <1>1, LeastElement
<1>3. PICK x \in T : d = n - x
  OBVIOUS
<1>4. ASSUME NEW y \in T PROVE y <= x
  <2>1. n - x <= n - y
    BY <1>2, <1>3
  <2>2. x \in Int /\ y \in Int
    OBVIOUS
  <2> QED
    BY <2>1, <2>2
<1> QED
  BY <1>4

=============================================================================
