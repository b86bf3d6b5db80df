----------------------------- MODULE FiniteFacts -----------------------------
(***************************************************************************)
(* Facts about numbers and finite sets that the proofs of several modules   *)
(* need: least and greatest elements, induction, and ranks.  Each is stated *)
(* for sets, not for predicates.                                            *)
(***************************************************************************)
EXTENDS Integers, FiniteSetsExt, FiniteSetTheorems, FunctionTheorems, WellFoundedInduction, TLAPS

\* A set of natural numbers has a least element.
LEMMA LeastNumber ==
  ASSUME NEW S \in SUBSET Nat, S # {}
  PROVE  \E m \in S : \A n \in S : m <= n
<1> DEFINE less == {p \in Nat \X Nat : p[1] < p[2]}
<1>1. IsWellFoundedOn(less, Nat)
  BY NatLessThanWellFounded DEF OpToRel
<1>2. \E m \in S : \A n \in S : <<n, m>> \notin less
  BY <1>1, WFMin
<1>3. PICK m \in S : \A n \in S : <<n, m>> \notin less
  BY <1>2
<1>4. ASSUME NEW n \in S PROVE m <= n
  <2>1. <<n, m>> \notin less /\ n \in Nat /\ m \in Nat
    BY <1>3
  <2>2. ~(n < m)
    BY <2>1
  <2>. QED
    BY <2>1, <2>2
<1>. QED
  BY <1>3, <1>4

\* Induction: a set of numbers with 0 and the successor of each is all of them.
LEMMA EveryNumber ==
  ASSUME NEW S \in SUBSET Nat, 0 \in S, \A n \in S : n + 1 \in S
  PROVE  S = Nat
<1> SUFFICES ASSUME Nat \ S # {} PROVE FALSE
  OBVIOUS
<1>1. PICK m \in Nat \ S : \A n \in Nat \ S : m <= n
  BY LeastNumber
<1>2. m # 0 /\ m - 1 \in Nat /\ m - 1 \in S
  BY <1>1
<1>. QED
  BY <1>2

\* Induction over finite sets: a family of finite sets that has the empty set, and
\* with a set each set of one element more, has all.
LEMMA EveryFiniteSet ==
  ASSUME NEW U, IsFiniteSet(U), NEW F \in SUBSET SUBSET U, {} \in F,
         \A A \in SUBSET U : A # {} /\ (\A x \in A : A \ {x} \in F) => A \in F
  PROVE  F = SUBSET U
<1> SUFFICES ASSUME (SUBSET U) \ F # {} PROVE FALSE
  OBVIOUS
<1>1. IsWellFoundedOn(StrictSubsetOrdering(U), SUBSET U)
  <2>1. IsWellFoundedOn(StrictSubsetOrdering(U), FiniteSubsetsOf(U))
    BY FS_StrictSubsetOrderingWellFounded
  <2>2. FiniteSubsetsOf(U) = SUBSET U
    BY FS_FiniteSubsetsOfFinite
  <2>. QED
    BY <2>1, <2>2
<1> DEFINE T == (SUBSET U) \ F
<1>2. PICK A \in T : \A B \in T : <<B, A>> \notin StrictSubsetOrdering(U)
  <2>1. T \subseteq SUBSET U /\ T # {}
    OBVIOUS
  <2> HIDE DEF T
  <2>2. \E A \in T : \A B \in T : ~(<<B, A>> \in StrictSubsetOrdering(U))
    BY <1>1, <2>1, WFMin
  <2>. QED
    BY <2>2
<1>3. ASSUME NEW x \in A PROVE A \ {x} \in F
  <2> DEFINE B == A \ {x}
  <2>1. B \in SUBSET U /\ B \subseteq A /\ B # A
    OBVIOUS
  <2> HIDE DEF B
  <2>2. <<B, A>> \in StrictSubsetOrdering(U)
    BY <2>1 DEF StrictSubsetOrdering
  <2>. QED
    BY <1>2, <2>1, <2>2 DEF B
<1>. QED
  BY <1>2, <1>3

\* A finite set of integers that is not empty has a greatest element: Max's value.
LEMMA Greatest ==
  ASSUME NEW S \in SUBSET Int, IsFiniteSet(S), S # {}
  PROVE  Max(S) \in S /\ \A x \in S : x <= Max(S)
<1> DEFINE F == {A \in SUBSET S : A # {} => \E m \in A : \A x \in A : x <= m}
<1>1. {} \in F
  OBVIOUS
<1>2. ASSUME NEW A \in SUBSET S, A # {}, \A x \in A : A \ {x} \in F
      PROVE  A \in F
  <2>1. PICK a \in A : TRUE
    BY <1>2
  <2>2. CASE A = {a}
    BY <2>2
  <2>3. CASE A # {a}
    <3>1. A \ {a} # {} /\ A \ {a} \in F
      BY <1>2, <2>3
    <3>2. PICK m \in A \ {a} : \A x \in A \ {a} : x <= m
      BY <3>1
    <3>3. \A x \in A : x <= IF a <= m THEN m ELSE a
      BY <3>2
    <3>. QED
      BY <3>2, <3>3
  <2>. QED
    BY <2>2, <2>3
<1>3. F = SUBSET S
  <2>1. F \in SUBSET SUBSET S
    OBVIOUS
  <2> HIDE DEF F
  <2>. QED
    BY <1>1, <1>2, <2>1, EveryFiniteSet
<1>4. \E m \in S : \A x \in S : m >= x
  BY <1>3
<1>. QED
  BY <1>4 DEF Max

\* The elements of a finite set of integers are ranked 1, 2, ...: for each number
\* up to its size one element has as many elements up to it.
LEMMA Ranked ==
  ASSUME NEW S \in SUBSET Int, IsFiniteSet(S), NEW n \in 1..Cardinality(S)
  PROVE  \E k \in S : Cardinality({j \in S : j <= k}) = n
<1> DEFINE F == {A \in SUBSET S : \A i \in 1..Cardinality(A) :
                                    \E k \in A : Cardinality({j \in A : j <= k}) = i}
<1>0. \A A \in SUBSET S : IsFiniteSet(A) /\ Cardinality(A) \in Nat
  BY FS_Subset, FS_CardinalityType
<1>1. {} \in F
  BY FS_EmptySet
<1>2. ASSUME NEW A \in SUBSET S, A # {}, \A x \in A : A \ {x} \in F
      PROVE  A \in F
  <2>1. PICK m \in A : \A x \in A : x <= m
    BY <1>0, <1>2, Greatest
  <2>2. Cardinality(A \ {m}) = Cardinality(A) - 1
    BY <1>0, FS_RemoveElement
  <2>3. ASSUME NEW i \in 1..Cardinality(A)
        PROVE  \E k \in A : Cardinality({j \in A : j <= k}) = i
    <3>1. CASE i = Cardinality(A)
      <4>1. {j \in A : j <= m} = A
        BY <2>1
      <4>. QED
        BY <3>1, <4>1
    <3>2. CASE i # Cardinality(A)
      <4>0. A \ {m} \in F
        <5> HIDE DEF F
        <5>. QED
          BY <1>2
      <4>1. i \in 1..Cardinality(A \ {m})
        <5> HIDE DEF F
        <5>1. Cardinality(A) \in Nat
          BY <1>0
        <5>. QED
          BY <2>2, <3>2, <5>1
      <4>2. PICK k \in A \ {m} : Cardinality({j \in A \ {m} : j <= k}) = i
        BY <4>0, <4>1
      <4>3. {j \in A \ {m} : j <= k} = {j \in A : j <= k}
        BY <2>1
      <4>. QED
        BY <4>2, <4>3
    <3>. QED
      BY <3>1, <3>2
  <2>. QED
    BY <2>3
<1>3. F = SUBSET S
  <2>1. F \in SUBSET SUBSET S
    OBVIOUS
  <2> HIDE DEF F
  <2>. QED
    BY <1>1, <1>2, <2>1, EveryFiniteSet
<1>. QED
  BY <1>3

\* The values a function has on a finite set are finitely many.
LEMMA FiniteImage ==
  ASSUME NEW f, NEW S, IsFiniteSet(S)
  PROVE  IsFiniteSet({f[x] : x \in S})
<1> DEFINE g == [x \in S |-> f[x]]
           T == {f[x] : x \in S}
<1>1. g \in Surjection(S, T)
  BY DEF Surjection
<1> HIDE DEF g, T
<1>2. IsFiniteSet(T)
  BY <1>1, FS_Surjection
<1>. QED
  BY <1>2 DEF T

\* A function one-to-one on a finite set has as many values there.
LEMMA AsMany ==
  ASSUME NEW f, NEW S, IsFiniteSet(S), \A x, y \in S : f[x] = f[y] => x = y
  PROVE  Cardinality({f[x] : x \in S}) = Cardinality(S)
<1> DEFINE g == [x \in S |-> f[x]]
           T == {f[x] : x \in S}
<1>1. g \in Surjection(S, T) /\ g \in Injection(S, T)
  BY DEF Surjection, Injection, IsInjective
<1> HIDE DEF g, T
<1>2. Cardinality(T) = Cardinality(S)
  BY <1>1, FS_Surjection
<1>. QED
  BY <1>2 DEF T

\* The greatest of the values of a function on part of a sequence, and 0.
LEMMA GreatestValue ==
  ASSUME NEW n \in Nat, NEW D \in SUBSET (1..n), NEW f, \A i \in D : f[i] \in Nat
  PROVE  LET S == {0} \cup {f[i] : i \in D}
         IN  Max(S) \in Nat /\ \A i \in D : f[i] <= Max(S)
<1> DEFINE V == {f[i] : i \in D}  S == {0} \cup V
<1>1. IsFiniteSet(D)
  <2>1. IsFiniteSet(1..n)
    BY FS_Interval
  <2>. QED
    BY <2>1, FS_Subset
<1>2. IsFiniteSet(V)
  BY <1>1, FiniteImage
<1>3. IsFiniteSet(S)
  <2> HIDE DEF V
  <2>1. IsFiniteSet(V \cup {0})
    BY <1>2, FS_AddElement
  <2>2. S = V \cup {0}
    OBVIOUS
  <2>. QED
    BY <2>1, <2>2
<1>4. S \in SUBSET Nat /\ S \in SUBSET Int /\ S # {} /\ \A i \in D : f[i] \in S
  OBVIOUS
<1> HIDE DEF S
<1>5. Max(S) \in S /\ \A x \in S : x <= Max(S)
  BY <1>3, <1>4, Greatest
<1>6. Max(S) \in Nat
  BY <1>4, <1>5
<1>7. \A i \in D : f[i] <= Max(S)
  BY <1>4, <1>5
<1>. QED
  BY <1>6, <1>7 DEF S, V
=============================================================================
