-------------------------------- MODULE Sums --------------------------------
(***************************************************************************)
(* Lemmas about the sums the models take over finite sets.  A fold of the  *)
(* community modules adds the terms up one chosen element after the other; *)
(* what it comes to is shown by the least number of terms for which it     *)
(* would not.                                                              *)
(***************************************************************************)
EXTENDS Integers, FiniteSets, Functions, FiniteSetTheorems, WellFoundedInduction, TLAPS

\* A non-empty set of natural numbers has a least element.
LEMMA LeastNatural ==
    ASSUME NEW T \in SUBSET Nat, T # {}
    PROVE  \E k \in T : \A j \in T : k <= j
<1>1. PICK k \in T : \A j \in T : ~ (<<j, k>> \in OpToRel(<, Nat))
  BY NatLessThanWellFounded, WFMin
<1>2. \A j \in T : <<j, k>> \in OpToRel(<, Nat) <=> j < k
  BY DEF OpToRel
<1>3. \A j \in T : ~ (j < k)
  BY <1>1, <1>2, Zenon
<1> QED
  BY <1>3

\* A finite set of whole numbers that has a member has a greatest one.
LEMMA GreatestOfFinite ==
    ASSUME NEW S, S \subseteq Int, S # {}, IsFiniteSet(S)
    PROVE  \E top \in S : \A r \in S : top >= r
<1> DEFINE Open(T) == T # {} /\ ~ \E top \in T : \A r \in T : top >= r
           Wrong == {k \in Nat : \E T \in SUBSET S : Cardinality(T) = k /\ Open(T)}
<1>1. \A T \in SUBSET S : IsFiniteSet(T) /\ Cardinality(T) \in Nat
  BY FS_Subset, FS_CardinalityType
<1>2. Wrong = {}
  <2> SUFFICES ASSUME Wrong # {} PROVE FALSE
    OBVIOUS
  <2>1. PICK k \in Wrong : \A j \in Wrong : k <= j
    <3> HIDE DEF Wrong
    <3>1. Wrong \in SUBSET Nat
      BY DEF Wrong
    <3> QED BY <3>1, LeastNatural
  <2>2. PICK T \in SUBSET S : Cardinality(T) = k /\ Open(T)
    <3> HIDE DEF Open
    <3> QED OBVIOUS
  <2>3. PICK x \in T : TRUE
    BY <2>2
  <2>4. T \ {x} \in SUBSET S /\ Cardinality(T \ {x}) = k - 1 /\ k \in Nat /\ k - 1 \in Nat
    <3>1. T \ {x} \in SUBSET S
      BY <2>2
    <3>2. Cardinality(T \ {x}) = Cardinality(T) - 1
      BY <1>1, <2>2, <2>3, FS_RemoveElement
    <3>3. Cardinality(T \ {x}) \in Nat /\ Cardinality(T) \in Nat
      BY <1>1, <2>2, <3>1
    <3> QED BY <2>2, <3>1, <3>2, <3>3
  <2>5. ~ Open(T \ {x})
    <3>1. k - 1 \notin Wrong
      <4> HIDE DEF Wrong
      <4> QED BY <2>1, <2>4
    <3> HIDE DEF Open
    <3> QED BY <2>4, <3>1
  <2>6. x \in Int /\ T \subseteq Int
    BY <2>2, <2>3
  <2>7. CASE T \ {x} = {}
    BY <2>2, <2>3, <2>6, <2>7
  <2>8. CASE T \ {x} # {}
    <3>1. PICK top \in T \ {x} : \A r \in T \ {x} : top >= r
      BY <2>5, <2>8
    <3>2. \A r \in T : r = x \/ top >= r
      BY <3>1
    <3>3. top \in Int /\ top \in T
      BY <2>6, <3>1
    <3>4. CASE top >= x
      BY <2>2, <3>2, <3>3, <3>4
    <3>5. CASE x >= top
      <4>1. \A r \in T : x >= r
        BY <2>6, <3>2, <3>3, <3>5
      <4> QED BY <2>2, <2>3, <4>1
    <3> QED BY <2>6, <3>3, <3>4, <3>5
  <2> QED BY <2>7, <2>8
<1>3. Cardinality(S) \in Nat /\ S \in SUBSET S
  BY <1>1
<1>4. ~ Open(S)
  <2> HIDE DEF Open
  <2> QED BY <1>2, <1>3
<1> QED
  BY <1>4

\* The images of a finite set are finite.
LEMMA ImageIsFinite ==
    ASSUME NEW S, IsFiniteSet(S), NEW f
    PROVE  IsFiniteSet({f[x] : x \in S})
<1> DEFINE T == {f[x] : x \in S}
           g == [x \in S |-> f[x]]
<1>1. g \in [S -> T] /\ \A t \in T : \E x \in S : g[x] = t
  OBVIOUS
<1>2. g \in Surjection(S, T)
  BY <1>1 DEF Surjection
<1> QED
  <2> HIDE DEF g, T
  <2>1. IsFiniteSet(T)
    BY <1>2, FS_Surjection
  <2> QED BY <2>1 DEF T

\* What a fold computes on its way: the sum of v over each of the sets.
Pick(T) == CHOOSE x \in T : TRUE
SumsUp(sums, v, sets) ==
    sums = [T \in sets |-> IF T = {} THEN 0 ELSE v[Pick(T)] + sums[T \ {Pick(T)}]]

\* There is such a function for a finite set: a least size without one would
\* follow from the one before it.
LEMMA SumsExist ==
    ASSUME NEW S, IsFiniteSet(S), NEW v
    PROVE  \E sums : SumsUp(sums, v, SUBSET S)
<1> DEFINE Upto(k) == {T \in SUBSET S : Cardinality(T) <= k}
           Open == {k \in Nat : \A sums : ~ SumsUp(sums, v, Upto(k))}
<1>1. \A T \in SUBSET S : IsFiniteSet(T) /\ Cardinality(T) \in Nat
  BY FS_Subset, FS_CardinalityType
<1>2. \A T : T # {} => Pick(T) \in T
  BY DEF Pick
<1>3. ASSUME NEW k \in Nat, NEW below, SumsUp(below, v, Upto(k))
      PROVE  \E sums : SumsUp(sums, v, Upto(k + 1))
  <2> DEFINE up == [T \in Upto(k + 1) |-> IF T = {} THEN 0
                                          ELSE v[Pick(T)] + below[T \ {Pick(T)}]]
  <2>1. ASSUME NEW T \in Upto(k + 1), T # {}
        PROVE  T \ {Pick(T)} \in Upto(k) /\ T \ {Pick(T)} \in Upto(k + 1)
    <3>1. Cardinality(T \ {Pick(T)}) = Cardinality(T) - 1
      BY <1>1, <1>2, <2>1, FS_RemoveElement
    <3>2. T \ {Pick(T)} \in SUBSET S /\ Cardinality(T) \in Nat /\ Cardinality(T) <= k + 1
      BY <1>1
    <3> QED BY <3>1, <3>2
  <2>2. ASSUME NEW T \in Upto(k)
        PROVE  up[T] = below[T]
    <3>1. T \in Upto(k + 1)
      BY <1>1
    <3>2. up[T] = IF T = {} THEN 0 ELSE v[Pick(T)] + below[T \ {Pick(T)}]
      BY <3>1
    <3>3. below[T] = IF T = {} THEN 0 ELSE v[Pick(T)] + below[T \ {Pick(T)}]
      <4> HIDE DEF Upto
      <4> QED BY <1>3, <2>2 DEF SumsUp
    <3> QED BY <3>2, <3>3
  <2>3. \A T \in Upto(k + 1) : T # {} => up[T \ {Pick(T)}] = below[T \ {Pick(T)}]
    <3> HIDE DEF up, Upto
    <3> QED BY <2>1, <2>2
  <2>4. up = [T \in Upto(k + 1) |-> IF T = {} THEN 0 ELSE v[Pick(T)] + up[T \ {Pick(T)}]]
    <3> HIDE DEF Upto
    <3> QED BY <2>3
  <2> QED
    <3> HIDE DEF up, Upto
    <3> QED BY <2>4 DEF SumsUp
<1>4. \E sums : SumsUp(sums, v, Upto(0))
  <2> DEFINE zero == [T \in Upto(0) |-> 0]
  <2>1. \A T \in Upto(0) : T = {}
    BY <1>1, FS_EmptySet
  <2>2. zero = [T \in Upto(0) |-> IF T = {} THEN 0 ELSE v[Pick(T)] + zero[T \ {Pick(T)}]]
    <3> HIDE DEF Upto
    <3> QED BY <2>1
  <2> QED
    <3> HIDE DEF zero, Upto
    <3> QED BY <2>2 DEF SumsUp
<1>5. Open = {}
  <2> SUFFICES ASSUME Open # {} PROVE FALSE
    OBVIOUS
  <2>1. PICK k \in Open : \A j \in Open : k <= j
    <3> HIDE DEF Open
    <3>1. Open \in SUBSET Nat
      BY DEF Open
    <3> QED BY <3>1, LeastNatural
  <2>2. k \in Nat /\ k # 0 /\ \A sums : ~ SumsUp(sums, v, Upto(k))
    <3> HIDE DEF Upto
    <3> QED BY <1>4
  <2>3. k - 1 \in Nat /\ k - 1 \notin Open
    <3> HIDE DEF Open
    <3> QED BY <2>1, <2>2
  <2>4. PICK below : SumsUp(below, v, Upto(k - 1))
    <3> HIDE DEF Upto
    <3> QED BY <2>3
  <2>5. \E sums : SumsUp(sums, v, Upto((k - 1) + 1))
    <3> HIDE DEF Upto
    <3> QED BY <1>3, <2>3, <2>4
  <2>6. (k - 1) + 1 = k
    BY <2>2
  <2> QED
    <3> HIDE DEF Upto
    <3> QED BY <2>2, <2>5, <2>6
<1>6. Upto(Cardinality(S)) = SUBSET S /\ Cardinality(S) \in Nat
  BY FS_Subset, FS_CardinalityType
<1>7. \E sums : SumsUp(sums, v, Upto(Cardinality(S)))
  <2> HIDE DEF Upto
  <2> QED BY <1>5, <1>6
<1> QED
  <2> HIDE DEF Upto
  <2> QED BY <1>6, <1>7

\* A sum of whole terms is whole, and of terms below a bound below their
\* number times the bound.
LEMMA SumBound ==
    ASSUME NEW S, IsFiniteSet(S), NEW v, NEW bound \in Int,
           \A x \in S : v[x] \in Int /\ v[x] <= bound, NEW sums, SumsUp(sums, v, SUBSET S)
    PROVE  sums[S] \in Int /\ sums[S] <= Cardinality(S) * bound
<1> DEFINE Fits(T) == sums[T] \in Int /\ sums[T] <= Cardinality(T) * bound
           Wrong == {k \in Nat : \E T \in SUBSET S : Cardinality(T) = k /\ ~ Fits(T)}
<1>1. \A T \in SUBSET S : IsFiniteSet(T) /\ Cardinality(T) \in Nat
  BY FS_Subset, FS_CardinalityType
<1>2. ASSUME NEW T \in SUBSET S, T # {}
      PROVE  LET x == Pick(T)
             IN  /\ x \in T /\ T \ {x} \in SUBSET S
                 /\ Cardinality(T \ {x}) = Cardinality(T) - 1
                 /\ sums[T] = v[x] + sums[T \ {x}]
  <2>1. Pick(T) \in T /\ T \ {Pick(T)} \in SUBSET S
    BY <1>2 DEF Pick
  <2>2. Cardinality(T \ {Pick(T)}) = Cardinality(T) - 1
    BY <1>1, <2>1, FS_RemoveElement
  <2>3. sums[T] = v[Pick(T)] + sums[T \ {Pick(T)}]
    BY <1>2 DEF SumsUp
  <2> QED BY <2>1, <2>2, <2>3
<1>3. Wrong = {}
  <2> SUFFICES ASSUME Wrong # {} PROVE FALSE
    OBVIOUS
  <2>1. PICK k \in Wrong : \A j \in Wrong : k <= j
    <3> HIDE DEF Wrong
    <3>1. Wrong \in SUBSET Nat
      BY DEF Wrong
    <3> QED BY <3>1, LeastNatural
  <2>2. PICK T \in SUBSET S : Cardinality(T) = k /\ ~ Fits(T)
    <3> HIDE DEF Fits
    <3> QED OBVIOUS
  <2>3. CASE T = {}
    <3>1. sums[T] = 0 /\ Cardinality(T) = 0
      BY <2>3, FS_EmptySet DEF SumsUp
    <3> QED BY <2>2, <3>1
  <2>4. CASE T # {}
    <3> DEFINE x == Pick(T)
               rest == T \ {x}
    <3>1. /\ x \in S /\ rest \in SUBSET S /\ Cardinality(rest) = k - 1
          /\ sums[T] = v[x] + sums[rest]
      BY <1>2, <2>2, <2>4
    <3>2. k - 1 \in Nat /\ k - 1 \notin Wrong
      <4>1. k \in Nat /\ k - 1 \in Nat
        BY <1>1, <3>1
      <4> HIDE DEF Wrong
      <4> QED BY <2>1, <4>1
    <3>3. Fits(rest)
      <4> HIDE DEF Fits, rest
      <4> QED BY <3>1, <3>2
    <3>4. v[x] \in Int /\ v[x] <= bound
      BY <3>1
    <3>5. (k - 1) * bound + bound = k * bound /\ (k - 1) * bound \in Int
      BY <3>2, SMT
    <3> HIDE DEF x, rest
    <3>6. sums[T] \in Int /\ sums[T] <= (k - 1) * bound + bound
      BY <3>1, <3>3, <3>4, <3>5
    <3>7. sums[T] \in Int /\ sums[T] <= Cardinality(T) * bound
      BY <2>2, <3>5, <3>6
    <3> QED BY <2>2, <3>7
  <2> QED BY <2>3, <2>4
<1>4. Cardinality(S) \in Nat /\ S \in SUBSET S
  BY <1>1
<1>5. Fits(S)
  <2> HIDE DEF Fits
  <2> QED BY <1>3, <1>4
<1> QED
  BY <1>5

=============================================================================
