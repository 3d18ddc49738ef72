------------------------------ MODULE SetProofs ------------------------------
(***************************************************************************)
(* Lemmas several proofs need: smallest and largest members of sets of      *)
(* numbers, and the sums of a function on a finite set, as the folds of the  *)
(* library compute them.                                                    *)
(***************************************************************************)
EXTENDS Integers, FiniteSets, FiniteSetsExt, Functions, FiniteSetTheorems, WellFoundedInduction, TLAPS

---------------------------------------------------------------------------
(* Numbers.                                                                 *)

SmallerThan == {pair \in Nat \X Nat : pair[1] < pair[2]}

\* A set of natural numbers with a member has a smallest one.
LEMMA SmallestMember ==
  ASSUME NEW T, T \subseteq Nat, T # {} PROVE \E n \in T : \A m \in T : n <= m
<1>1. IsWellFoundedOn(SmallerThan, Nat) BY NatLessThanWellFounded DEF OpToRel, SmallerThan
<1>2. PICK n \in T : \A m \in T : ~(<<m, n>> \in SmallerThan) BY <1>1, WFMin
<1>3. ASSUME NEW m \in T PROVE n <= m
  <2>1. m \in Nat /\ n \in Nat OBVIOUS
  <2>2. ~(m < n) BY <1>2, <2>1 DEF SmallerThan
  <2> QED BY <2>1, <2>2
<1> QED BY <1>3

\* A set of integers that has a member and a bound has a largest one.
LEMMA LargestInteger ==
  ASSUME NEW T, T \subseteq Int, NEW least \in T, NEW most \in Int, \A n \in T : n <= most
  PROVE  Max(T) \in T /\ \A n \in T : n <= Max(T)
<1> DEFINE Bounds == {u \in Nat : \A n \in T : n <= least + u}
<1>1. most - least \in Bounds OBVIOUS
<1>2. PICK u \in Bounds : \A v \in Bounds : u <= v BY <1>1, SmallestMember
<1>3. least + u \in T
  <2>1. SUFFICES ASSUME least + u \notin T PROVE FALSE OBVIOUS
  <2>2. u # 0 BY <2>1
  <2>3. \A n \in T : n <= least + (u - 1) BY <2>1
  <2>4. u - 1 \in Bounds BY <2>2, <2>3
  <2> QED BY <1>2, <2>4
<1>4. \A n \in T : least + u >= n OBVIOUS
<1>5. \E x \in T : \A y \in T : x >= y BY <1>3, <1>4
<1>6. Max(T) \in T /\ \A y \in T : Max(T) >= y BY <1>5, Zenon DEF Max
<1> QED BY <1>6

\* So has a set of natural numbers.
LEMMA LargestMember ==
  ASSUME NEW T, T \subseteq Nat, T # {}, NEW most \in Nat, \A n \in T : n <= most
  PROVE  Max(T) \in T /\ \A n \in T : n <= Max(T)
<1>1. PICK least \in T : TRUE OBVIOUS
<1>2. T \subseteq Int /\ most \in Int OBVIOUS
<1> QED BY <1>1, <1>2, LargestInteger

---------------------------------------------------------------------------
(* Sums.                                                                    *)

\* The library sums f over a set by taking out one element after the other.
Pick(T) == CHOOSE x \in T : TRUE
SumStep(f, sum, T) == IF T = {} THEN 0 ELSE f[Pick(T)] + sum[T \ {Pick(T)}]
Sums(f, S) == CHOOSE sum : sum = [T \in SUBSET S |-> SumStep(f, sum, T)]

\* There is one element to pick from a set that is not empty.
LEMMA PickIsMember == ASSUME NEW T, T # {} PROVE Pick(T) \in T
BY Zenon DEF Pick

\* Subsets of a finite set shrink when an element is taken out.
LEMMA Shrinks ==
  ASSUME NEW S, IsFiniteSet(S), NEW T \in SUBSET S
  PROVE  /\ IsFiniteSet(T) /\ Cardinality(T) \in Nat
         /\ Cardinality(T) = 0 <=> T = {}
         /\ \A x \in T : Cardinality(T \ {x}) \in Nat /\ Cardinality(T \ {x}) = Cardinality(T) - 1
<1>1. IsFiniteSet(T) BY FS_Subset
<1>2. Cardinality(T) \in Nat BY <1>1, FS_CardinalityType
<1>3. Cardinality(T) = 0 <=> T = {} BY <1>1, FS_EmptySet
<1>4. ASSUME NEW x \in T PROVE Cardinality(T \ {x}) \in Nat /\ Cardinality(T \ {x}) = Cardinality(T) - 1
  <2>1. IsFiniteSet(T \ {x}) /\ Cardinality(T \ {x}) = Cardinality(T) - 1 BY <1>1, FS_RemoveElement
  <2> QED BY <2>1, FS_CardinalityType
<1> QED BY <1>1, <1>2, <1>3, <1>4

\* Of some subsets of a finite set, one is smallest: none of them is it less an element.
LEMMA SmallestSubset ==
  ASSUME NEW S, IsFiniteSet(S), NEW Some, Some \subseteq SUBSET S, Some # {}
  PROVE  \E T \in Some : \A x \in T : T \ {x} \notin Some
<1> DEFINE sizes == {k \in Nat : \E T \in Some : Cardinality(T) = k}
<1>1. sizes # {} BY Shrinks
<1>2. PICK k \in sizes : \A j \in sizes : k <= j BY <1>1, SmallestMember
<1>3. PICK T \in Some : Cardinality(T) = k OBVIOUS
<1>4. ASSUME NEW x \in T, T \ {x} \in Some PROVE FALSE
  <2>1. Cardinality(T \ {x}) \in Nat /\ Cardinality(T \ {x}) = k - 1 BY <1>3, Shrinks
  <2>2. Cardinality(T \ {x}) \in sizes BY <1>4, <2>1
  <2>3. k <= Cardinality(T \ {x}) /\ k \in Nat BY <1>2, <2>2
  <2> QED BY <2>1, <2>3
<1> QED BY <1>4

\* The recursion has a solution, so the sums are one.
LEMMA SumsRecursion ==
  ASSUME NEW S, IsFiniteSet(S), NEW f, \A x \in S : f[x] \in Int
  PROVE  /\ Sums(f, S) \in [SUBSET S -> Int]
         /\ \A T \in SUBSET S : Sums(f, S)[T] = SumStep(f, Sums(f, S), T)
<1> DEFINE UpTo(n) == \E sum \in [SUBSET S -> Int] :
                        \A T \in SUBSET S : Cardinality(T) <= n => sum[T] = SumStep(f, sum, T)
           Missing == {n \in Nat : ~UpTo(n)}
<1>1. ASSUME NEW sum \in [SUBSET S -> Int], NEW T \in SUBSET S PROVE SumStep(f, sum, T) \in Int
  <2>1. CASE T = {} BY <2>1 DEF SumStep
  <2>2. CASE T # {}
    <3>1. Pick(T) \in T BY <2>2, PickIsMember
    <3>2. f[Pick(T)] \in Int /\ sum[T \ {Pick(T)}] \in Int BY <3>1
    <3> QED BY <2>2, <3>2 DEF SumStep
  <2> QED BY <2>1, <2>2
<1>2. Missing = {}
  <2>1. SUFFICES ASSUME Missing # {} PROVE FALSE OBVIOUS
  <2>2. PICK n \in Missing : \A m \in Missing : n <= m BY <2>1, SmallestMember
  <2>3. UpTo(n)
    <3>1. CASE n = 0
      <4> DEFINE none == [T \in SUBSET S |-> 0]
      <4>1. \A T \in SUBSET S : Cardinality(T) <= n => T = {} BY <3>1, Shrinks
      <4>2. none \in [SUBSET S -> Int] /\ \A T \in SUBSET S : Cardinality(T) <= n => none[T] = SumStep(f, none, T)
        BY <4>1 DEF SumStep
      <4> QED BY <4>2
    <3>2. CASE n # 0
      <4>1. n - 1 \in Nat /\ UpTo(n - 1)
        <5>1. n - 1 \in Nat /\ ~(n <= n - 1) BY <3>2
        <5>2. n - 1 \notin Missing BY <2>2, <5>1
        <5> QED BY <5>1, <5>2
      <4>2. PICK sum \in [SUBSET S -> Int] : \A T \in SUBSET S : Cardinality(T) <= n - 1 => sum[T] = SumStep(f, sum, T)
        BY <4>1
      <4> DEFINE more == [T \in SUBSET S |-> SumStep(f, sum, T)]
      <4>3. more \in [SUBSET S -> Int] BY <1>1
      <4>4. ASSUME NEW T \in SUBSET S, Cardinality(T) <= n PROVE more[T] = SumStep(f, more, T)
        <5>1. CASE T = {} BY <5>1 DEF SumStep
        <5>2. CASE T # {}
          <6> DEFINE R == T \ {Pick(T)}
          <6>1. Pick(T) \in T BY <5>2, PickIsMember
          <6>2. R \in SUBSET S /\ Cardinality(R) <= n - 1 BY <4>4, <6>1, Shrinks
          <6>3. sum[R] = SumStep(f, sum, R) BY <4>2, <6>2
          <6>4. more[R] = sum[R] BY <6>2, <6>3
          <6>5. SumStep(f, more, T) = SumStep(f, sum, T) BY <5>2, <6>4 DEF SumStep
          <6> QED BY <6>5
        <5> QED BY <5>1, <5>2
      <4> QED BY <4>3, <4>4
    <3> QED BY <3>1, <3>2
  <2> QED BY <2>3
<1>3. UpTo(Cardinality(S))
  <2>1. Cardinality(S) \in Nat BY FS_CardinalityType
  <2> QED BY <1>2, <2>1
<1>4. PICK sum \in [SUBSET S -> Int] :
        \A T \in SUBSET S : Cardinality(T) <= Cardinality(S) => sum[T] = SumStep(f, sum, T)
  BY <1>3
<1>5. \A T \in SUBSET S : Cardinality(T) <= Cardinality(S) BY FS_Subset
<1>6. sum = [T \in SUBSET S |-> SumStep(f, sum, T)] BY <1>4, <1>5
<1>7. Sums(f, S) = [T \in SUBSET S |-> SumStep(f, Sums(f, S), T)] BY <1>6, Zenon DEF Sums
<1> DEFINE total == Sums(f, S)
<1>8. DOMAIN total = SUBSET S /\ \A T \in SUBSET S : total[T] = SumStep(f, total, T)
  <2> HIDE DEF total
  <2>1. total = [T \in SUBSET S |-> SumStep(f, total, T)] BY <1>7 DEF total
  <2> QED BY <2>1
<1> HIDE DEF total
<1>9. \A T \in SUBSET S : total[T] \in Int
  <2> DEFINE bad == {T \in SUBSET S : total[T] \notin Int}
  <2>1. SUFFICES ASSUME bad # {} PROVE FALSE OBVIOUS
  <2>2. PICK T \in bad : \A x \in T : T \ {x} \notin bad BY <2>1, SmallestSubset
  <2>3. T # {}
    <3>1. T = {} => total[T] = 0 BY <1>8 DEF SumStep
    <3> QED BY <3>1
  <2>4. Pick(T) \in T /\ total[T] = f[Pick(T)] + total[T \ {Pick(T)}] BY <1>8, <2>3, PickIsMember DEF SumStep
  <2>5. total[T \ {Pick(T)}] \in Int BY <2>2, <2>4
  <2> QED BY <2>4, <2>5
<1>10. total \in [SUBSET S -> Int]
  <2>1. total = [T \in SUBSET S |-> total[T]] BY <1>7, <1>8 DEF total
  <2> QED BY <1>9, <2>1
<1> QED BY <1>8, <1>10 DEF total

\* The order does not matter: any element may be taken out first.
LEMMA SumsAnyOrder ==
  ASSUME NEW S, IsFiniteSet(S), NEW f, \A x \in S : f[x] \in Int, NEW U \in SUBSET S, NEW u \in U
  PROVE  Sums(f, S)[U] = f[u] + Sums(f, S)[U \ {u}]
<1> DEFINE sum == Sums(f, S)
           odd == {T \in SUBSET S : \E x \in T : sum[T] # f[x] + sum[T \ {x}]}
<1>1. sum \in [SUBSET S -> Int] /\ \A T \in SUBSET S : sum[T] = SumStep(f, sum, T) BY SumsRecursion
<1> HIDE DEF sum
<1>2. SUFFICES ASSUME odd # {} PROVE FALSE BY DEF sum
<1>3. PICK T \in odd : \A x \in T : T \ {x} \notin odd BY <1>2, SmallestSubset
<1>4. PICK x \in T : sum[T] # f[x] + sum[T \ {x}] OBVIOUS
<1> DEFINE p == Pick(T)
<1>5. p \in T /\ sum[T] = f[p] + sum[T \ {p}] BY <1>1, PickIsMember DEF SumStep
<1>6. p # x BY <1>4, <1>5
<1>7. sum[T \ {p}] = f[x] + sum[(T \ {p}) \ {x}] BY <1>3, <1>5, <1>6
<1>8. sum[T \ {x}] = f[p] + sum[(T \ {x}) \ {p}] BY <1>3, <1>5, <1>6
<1>9. (T \ {p}) \ {x} = (T \ {x}) \ {p} OBVIOUS
<1>10. f[p] \in Int /\ f[x] \in Int /\ sum[(T \ {x}) \ {p}] \in Int BY <1>1, <1>5
<1>11. sum[T] = f[p] + (f[x] + sum[(T \ {x}) \ {p}]) BY <1>5, <1>7, <1>9
<1>12. f[x] + sum[T \ {x}] = f[x] + (f[p] + sum[(T \ {x}) \ {p}]) BY <1>8
<1>13. f[p] + (f[x] + sum[(T \ {x}) \ {p}]) = f[x] + (f[p] + sum[(T \ {x}) \ {p}])
  <2> DEFINE a == f[p]
             b == f[x]
             c == sum[(T \ {x}) \ {p}]
  <2>1. a \in Int /\ b \in Int /\ c \in Int BY <1>10
  <2> HIDE DEF a, b, c
  <2>2. a + (b + c) = b + (a + c) BY <2>1
  <2> QED BY <2>2 DEF a, b, c
<1> QED BY <1>4, <1>11, <1>12, <1>13

\* Functions that agree on a set have the same sum there.
LEMMA SumsAgree ==
  ASSUME NEW S, IsFiniteSet(S), NEW f, \A x \in S : f[x] \in Int,
         NEW R, IsFiniteSet(R), NEW g, \A x \in R : g[x] \in Int,
         NEW U \in (SUBSET S) \cap (SUBSET R), \A x \in U : f[x] = g[x]
  PROVE  Sums(f, S)[U] = Sums(g, R)[U]
<1> DEFINE sum == Sums(f, S)
           other == Sums(g, R)
           odd == {T \in SUBSET U : sum[T] # other[T]}
<1>1. sum \in [SUBSET S -> Int] /\ \A T \in SUBSET S : sum[T] = SumStep(f, sum, T) BY SumsRecursion
<1>2. other \in [SUBSET R -> Int] /\ \A T \in SUBSET R : other[T] = SumStep(g, other, T) BY SumsRecursion
<1>3. IsFiniteSet(U) BY FS_Subset
<1> HIDE DEF sum, other
<1>4. SUFFICES ASSUME odd # {} PROVE FALSE BY DEF sum, other
<1>5. PICK T \in odd : \A x \in T : T \ {x} \notin odd BY <1>3, <1>4, SmallestSubset
<1>6. T \in SUBSET S /\ T \in SUBSET R /\ sum[T] # other[T] OBVIOUS
<1>7. T # {}
  <2>1. T = {} => sum[T] = 0 /\ other[T] = 0 BY <1>1, <1>2 DEF SumStep
  <2> QED BY <1>6, <2>1
<1>8. Pick(T) \in T /\ sum[T] = f[Pick(T)] + sum[T \ {Pick(T)}] /\ other[T] = g[Pick(T)] + other[T \ {Pick(T)}]
  BY <1>1, <1>2, <1>6, <1>7, PickIsMember DEF SumStep
<1>9. sum[T \ {Pick(T)}] = other[T \ {Pick(T)}] BY <1>5, <1>8
<1> QED BY <1>6, <1>8, <1>9

\* What is added to one value is added to the sum.
LEMMA SumsAdd ==
  ASSUME NEW S, IsFiniteSet(S), NEW f \in [S -> Int], NEW m \in S, NEW more \in Int
  PROVE  Sums([f EXCEPT ![m] = @ + more], S)[S] = Sums(f, S)[S] + more
<1> DEFINE g == [f EXCEPT ![m] = @ + more]
<1>1. g \in [S -> Int] /\ g[m] = f[m] + more /\ \A x \in S \ {m} : f[x] = g[x] OBVIOUS
<1> HIDE DEF g
<1>2. Sums(f, S)[S] = f[m] + Sums(f, S)[S \ {m}] BY SumsAnyOrder, SMTT(40)
<1>3. Sums(g, S)[S] = g[m] + Sums(g, S)[S \ {m}] BY <1>1, SumsAnyOrder
<1>4. Sums(f, S)[S \ {m}] = Sums(g, S)[S \ {m}] BY <1>1, SumsAgree
<1>5. Sums(f, S)[S \ {m}] \in Int /\ f[m] \in Int
  <2>1. Sums(f, S) \in [SUBSET S -> Int] BY SumsRecursion
  <2> QED BY <2>1
<1>6. Sums(g, S)[S] = Sums(f, S)[S] + more BY <1>1, <1>2, <1>3, <1>4, <1>5
<1> QED BY <1>6 DEF g

\* Nothing makes nothing, and no value below zero no sum below zero.
LEMMA SumsOfNat ==
  ASSUME NEW S, IsFiniteSet(S), NEW f \in [S -> Nat]
  PROVE  Sums(f, S)[S] \in Nat /\ ((\A x \in S : f[x] = 0) => Sums(f, S)[S] = 0)
<1> DEFINE sum == Sums(f, S)
           odd == {T \in SUBSET S : sum[T] \notin Nat \/ ((\A x \in S : f[x] = 0) /\ sum[T] # 0)}
<1>1. f \in [S -> Int] OBVIOUS
<1>2. sum \in [SUBSET S -> Int] /\ \A T \in SUBSET S : sum[T] = SumStep(f, sum, T) BY <1>1, SumsRecursion
<1> HIDE DEF sum
<1>3. SUFFICES ASSUME odd # {} PROVE FALSE BY DEF sum
<1>4. PICK T \in odd : \A x \in T : T \ {x} \notin odd BY <1>3, SmallestSubset
<1>5. T # {}
  <2>1. T = {} => sum[T] = 0 BY <1>2 DEF SumStep
  <2> QED BY <2>1
<1>6. Pick(T) \in T /\ sum[T] = f[Pick(T)] + sum[T \ {Pick(T)}] BY <1>2, <1>5, PickIsMember DEF SumStep
<1>7. T \ {Pick(T)} \in SUBSET S /\ T \ {Pick(T)} \notin odd BY <1>4, <1>6
<1>8. sum[T \ {Pick(T)}] \in Nat /\ ((\A x \in S : f[x] = 0) => sum[T \ {Pick(T)}] = 0) BY <1>7
<1>9. f[Pick(T)] \in Nat BY <1>6
<1>10. sum[T] \in Nat /\ ((\A x \in S : f[x] = 0) => sum[T] = 0) BY <1>6, <1>8, <1>9
<1> QED BY <1>10

\* What a fold over a function adds up is such a sum.
LEMMA FoldIsSum ==
  ASSUME NEW f, NEW S PROVE FoldFunctionOnSet(LAMBDA x, y : x + y, 0, f, S) = Sums(f, S)[S]
BY Zenon DEF FoldFunctionOnSet, MapThenFoldSet, Sums, SumStep, Pick

=============================================================================
