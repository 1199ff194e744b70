------------------------------- MODULE SetProofs -------------------------------
(***************************************************************************)
(* What Min, Max, MapThenSumSet and MapThenFoldSet come to.  The community  *)
(* module defines sums and folds by a recursive function on the subsets;    *)
(* that this function exists for a finite set, and every fact about it, is  *)
(* shown by looking at a smallest set that would be an exception, or, the   *)
(* other way round, by SetInduction.                                        *)
(***************************************************************************)
EXTENDS Integers, FiniteSets, FiniteSetsExt, FiniteSetTheorems, TLAPS

-------------------------------------------------------------------------------
(* The smallest and the largest of a few.                                   *)

(* The smaller and the larger of two integers.                               *)
LEMMA MinMaxOfTwo ==
  ASSUME NEW a \in Int, NEW b \in Int
  PROVE  /\ Min({a, b}) = IF a <= b THEN a ELSE b
         /\ Max({a, b}) = IF a >= b THEN a ELSE b
<1>1. PICK m \in {a, b} : \A y \in {a, b} : m <= y
  <2>1. CASE a <= b  BY <2>1
  <2>2. CASE ~(a <= b)  BY <2>2
  <2>3. QED  BY <2>1, <2>2
<1>2. PICK n \in {a, b} : \A y \in {a, b} : n >= y
  <2>1. CASE a >= b  BY <2>1
  <2>2. CASE ~(a >= b)  BY <2>2
  <2>3. QED  BY <2>1, <2>2
<1>3. Min({a, b}) \in {a, b} /\ \A y \in {a, b} : Min({a, b}) <= y
  BY <1>1 DEF Min
<1>4. Max({a, b}) \in {a, b} /\ \A y \in {a, b} : Max({a, b}) >= y
  BY <1>2 DEF Max
<1>5. QED  BY <1>3, <1>4

(* Sets that are listed are finite.                                         *)
LEMMA FewAreFinite ==
  ASSUME NEW a, NEW b, NEW c, NEW d
  PROVE  IsFiniteSet({a, b}) /\ IsFiniteSet({a, b, c, d})
<1>1. {a, b} = {a} \cup {b} /\ {a, b, c, d} = {a, b} \cup {c, d} /\ {c, d} = {c} \cup {d}
  OBVIOUS
<1>2. IsFiniteSet({a}) /\ IsFiniteSet({b}) /\ IsFiniteSet({c}) /\ IsFiniteSet({d})
  BY FS_Singleton
<1>3. IsFiniteSet({a} \cup {b}) /\ IsFiniteSet({c} \cup {d})
  BY <1>2, FS_Union
<1>4. IsFiniteSet({a, b} \cup {c, d})
  BY <1>1, <1>3, FS_Union
<1>5. QED
  BY <1>1, <1>3, <1>4

(* A set with one element more has one more at most.                         *)
LEMMA OneMore ==
  ASSUME NEW S, IsFiniteSet(S), NEW x, NEW T, T \subseteq S \cup {x}
  PROVE  Cardinality(T) \in Nat /\ Cardinality(T) <= Cardinality(S) + 1
<1>1. IsFiniteSet(S \cup {x}) /\ Cardinality(S \cup {x}) <= Cardinality(S) + 1
  <2>1. CASE x \in S
    <3>1. S \cup {x} = S /\ Cardinality(S) \in Nat  BY <2>1, FS_CardinalityType
    <3>2. Cardinality(S) <= Cardinality(S) + 1  BY <3>1
    <3>3. QED  BY <3>1, <3>2
  <2>2. CASE x \notin S
    <3>1. /\ IsFiniteSet(S \cup {x}) /\ Cardinality(S \cup {x}) = Cardinality(S) + 1
          /\ Cardinality(S) \in Nat
      BY <2>2, FS_AddElement, FS_CardinalityType
    <3>2. Cardinality(S) + 1 <= Cardinality(S) + 1  BY <3>1
    <3>3. QED  BY <3>1, <3>2
  <2>3. QED  BY <2>1, <2>2
<1>2. Cardinality(T) \in Nat /\ Cardinality(T) <= Cardinality(S \cup {x})
  BY <1>1, FS_Subset, FS_CardinalityType
<1>3. Cardinality(S) \in Nat /\ Cardinality(S \cup {x}) \in Nat
  BY <1>1, FS_CardinalityType
<1>4. QED  BY <1>1, <1>2, <1>3

(* Among subsets of a finite set one is a smallest.                         *)
LEMMA SmallestSet ==
  ASSUME NEW S, IsFiniteSet(S), NEW T, T \subseteq SUBSET S, T # {}
  PROVE  \E X \in T : \A Y \in T : Y \subseteq X => Y = X
<1> DEFINE R == StrictSubsetOrdering(S)
<1>1. FiniteSubsetsOf(S) = SUBSET S
  BY FS_FiniteSubsetsOfFinite
<1>2. IsWellFoundedOn(R, SUBSET S)
  BY <1>1, FS_StrictSubsetOrderingWellFounded
<1>3. PICK X \in T : \A Y \in T : ~(<<Y, X>> \in R)
  <2> HIDE DEF R
  <2> QED
    BY <1>2, WFMin
<1>4. ASSUME NEW Y \in T, Y \subseteq X, Y # X
      PROVE  FALSE
  <2>1. <<Y, X>> \in (SUBSET S) \X (SUBSET S)
    OBVIOUS
  <2>2. <<Y, X>> \in R
    BY <1>4, <2>1 DEF StrictSubsetOrdering
  <2> QED
    BY <2>2, <1>3
<1> QED
  BY <1>4

(* The smallest of a finite set of numbers.                                 *)
LEMMA MinOfSet ==
  ASSUME NEW S, IsFiniteSet(S)
  PROVE  S \subseteq Int /\ S # {} => Min(S) \in S /\ \A y \in S : Min(S) <= y
<1> DEFINE Least(s) == \E m \in s : \A y \in s : m <= y
           T == {s \in SUBSET S : s \subseteq Int /\ s # {} /\ ~Least(s)}
<1>1. SUFFICES ASSUME T # {} PROVE FALSE
  <2>1. S \notin T /\ S \subseteq Int /\ S # {} => Least(S)
    OBVIOUS
  <2> QED
    BY <2>1 DEF Min
<1>2. PICK X \in T : \A Y \in T : Y \subseteq X => Y = X
  <2>1. T \subseteq SUBSET S
    OBVIOUS
  <2> HIDE DEF T
  <2> QED
    BY <1>1, <2>1, SmallestSet
<1>3. X \subseteq S /\ X \subseteq Int /\ X # {} /\ ~Least(X)
  OBVIOUS
<1>4. PICK f \in X : TRUE
  BY <1>3
<1> DEFINE Y == X \ {f}
<1>5. \E y \in X : ~(f <= y)
  BY <1>3, <1>4
<1>6. PICK m \in Y : \A y \in Y : m <= y
  <2>1. Y \subseteq X /\ Y # X /\ Y \subseteq S
    BY <1>3, <1>4
  <2>2. Y # {}
    BY <1>3, <1>5
  <2>3. Y \notin T
    BY <1>2, <2>1
  <2>4. Least(Y)
    BY <2>1, <2>2, <2>3
  <2> QED
    BY <2>4
<1>7. m \in Int /\ f \in Int /\ m \in X
  BY <1>3, <1>4, <1>6
<1>8. CASE m <= f
  <2>1. \A y \in X : m <= y
    BY <1>6, <1>8
  <2> QED
    BY <1>3, <1>7, <2>1
<1>9. CASE ~(m <= f)
  <2>1. \A y \in X : y \in Int /\ (y = f \/ m <= y)
    BY <1>3, <1>6
  <2>2. \A y \in X : f <= y
    BY <1>7, <1>9, <2>1
  <2> QED
    BY <1>4, <1>5, <2>2
<1> QED
  BY <1>8, <1>9

(* What holds of a set whenever it holds of its proper subsets holds of all. *)
LEMMA SetInduction ==
  ASSUME NEW S, IsFiniteSet(S), NEW T,
         \A s \in SUBSET S : (\A t \in SUBSET s : t # s => t \in T) => s \in T
  PROVE  S \in T
<1> DEFINE U == {s \in SUBSET S : s \notin T}
<1>1. SUFFICES ASSUME U # {} PROVE FALSE
  OBVIOUS
<1>2. PICK X \in U : \A Y \in U : Y \subseteq X => Y = X
  <2>1. U \subseteq SUBSET S
    OBVIOUS
  <2> HIDE DEF U
  <2> QED
    BY <1>1, <2>1, SmallestSet
<1>3. \A t \in SUBSET X : t # X => t \in T
  BY <1>2
<1> QED
  BY <1>2, <1>3

(* The largest of a finite set of numbers.                                  *)
LEMMA MaxOfSet ==
  ASSUME NEW S, IsFiniteSet(S), S \subseteq Int, S # {}
  PROVE  Max(S) \in S /\ \A y \in S : Max(S) >= y
<1> DEFINE Largest(s) == s # {} => \E m \in s : \A y \in s : m >= y
           T == {s \in SUBSET S : Largest(s)}
<1>1. ASSUME NEW s \in SUBSET S, \A t \in SUBSET s : t # s => t \in T
      PROVE  Largest(s)
  <2>1. SUFFICES ASSUME s # {} PROVE \E m \in s : \A y \in s : m >= y
    OBVIOUS
  <2>2. PICK x \in s : TRUE  BY <2>1
  <2> DEFINE t == s \ {x}
  <2>3. Largest(t)
    <3>1. t \in SUBSET s /\ t # s  BY <2>2
    <3>2. t \in T  BY <1>1, <3>1
    <3>3. QED  BY <3>2
  <2>4. x \in Int /\ \A y \in s : y \in Int /\ (y = x \/ y \in t)  OBVIOUS
  <2>5. CASE t = {}
    BY <2>4, <2>5
  <2>6. CASE t # {}
    <3>1. PICK m \in t : \A y \in t : m >= y  BY <2>3, <2>6
    <3>2. m \in s /\ m \in Int  OBVIOUS
    <3> HIDE DEF t
    <3>3. CASE m >= x
      <4>1. \A y \in s : m >= y  BY <2>4, <3>1, <3>3
      <4>2. QED  BY <3>2, <4>1
    <3>4. CASE ~(m >= x)
      <4>1. \A y \in s : x >= y
        <5>1. SUFFICES ASSUME NEW y \in s PROVE x >= y  OBVIOUS
        <5>2. y \in Int /\ (y = x \/ m >= y)  BY <2>4, <3>1
        <5>3. QED  BY <2>4, <3>2, <3>4, <5>2
      <4>2. QED  BY <4>1
    <3>5. QED  BY <3>3, <3>4
  <2>7. QED  BY <2>5, <2>6
<1>2. \A s \in SUBSET S : (\A t \in SUBSET s : t # s => t \in T) => s \in T
  BY <1>1
<1>3. S \in T
  <2> HIDE DEF T
  <2>1. QED  BY <1>2, SetInduction
<1>4. \E m \in S : \A y \in S : m >= y
  BY <1>3
<1>5. QED  BY <1>4 DEF Max

-------------------------------------------------------------------------------
(* Sums.                                                                    *)

(* The sum of r[x] over the x of S.                                         *)
SumOf(r, S) == MapThenSumSet(LAMBDA x : r[x], S)

(* The element a sum takes out of s first, and what it makes of the rest.   *)
FirstOf(s) == CHOOSE x \in s : TRUE
RestOf(s) == s \ {FirstOf(s)}
StepOf(r, g, s) == IF s = {} THEN 0 ELSE r[FirstOf(s)] + g[RestOf(s)]
IsSum(r, g, S) == g = [s \in SUBSET S |-> StepOf(r, g, s)]

(* Some g that computes the sums over the subsets of S.                     *)
Summer(r, S) == CHOOSE g : IsSum(r, g, S)

-------------------------------------------------------------------------------
(* The definition unfolded.                                                 *)

(* The sum is the value of a function that computes sums.                   *)
LEMMA SumIsSummer ==
  ASSUME NEW r, NEW S
  PROVE  SumOf(r, S) = Summer(r, S)[S]
BY DEF SumOf, MapThenSumSet, MapThenFoldSet, Summer, IsSum, StepOf, FirstOf, RestOf

(* What is taken out first is in the set, and the rest is less.             *)
LEMMA FirstRest ==
  ASSUME NEW s, s # {}
  PROVE  /\ FirstOf(s) \in s
         /\ RestOf(s) \subseteq s /\ RestOf(s) # s /\ FirstOf(s) \notin RestOf(s)
         /\ s = RestOf(s) \cup {FirstOf(s)}
BY DEF FirstOf, RestOf

-------------------------------------------------------------------------------
(* The recursive function exists.                                           *)

(* Functions that compute sums agree where both do.                         *)
LEMMA SumsAgree ==
  ASSUME NEW r, NEW A, NEW B, NEW g, NEW h, IsSum(r, g, A), IsSum(r, h, B),
         NEW S, IsFiniteSet(S), S \subseteq A, S \subseteq B
  PROVE  g[S] = h[S]
<1> DEFINE T == {s \in SUBSET S : g[s] # h[s]}
<1>1. SUFFICES ASSUME T # {} PROVE FALSE
  OBVIOUS
<1>2. PICK X \in T : \A Y \in T : Y \subseteq X => Y = X
  <2>1. T \subseteq SUBSET S
    OBVIOUS
  <2> HIDE DEF T
  <2> QED
    BY <1>1, <2>1, SmallestSet
<1>3. X \in SUBSET A /\ X \in SUBSET B /\ g[X] # h[X]
  OBVIOUS
<1>4. g[X] = StepOf(r, g, X) /\ h[X] = StepOf(r, h, X)
  BY <1>3 DEF IsSum
<1>5. X # {}
  BY <1>3, <1>4 DEF StepOf
<1>6. g[RestOf(X)] # h[RestOf(X)]
  BY <1>3, <1>4 DEF StepOf
<1>7. RestOf(X) \in T /\ RestOf(X) \subseteq X /\ RestOf(X) # X
  BY <1>5, <1>6, FirstRest
<1> QED
  BY <1>2, <1>7

(* There is a function that computes the sums over the subsets.             *)
LEMMA SummerExists ==
  ASSUME NEW r, NEW S, IsFiniteSet(S)
  PROVE  IsSum(r, Summer(r, S), S)
<1> DEFINE T == {s \in SUBSET S : ~IsSum(r, Summer(r, s), s)}
<1>1. SUFFICES ASSUME T # {} PROVE FALSE
  OBVIOUS
<1>2. PICK X \in T : \A Y \in T : Y \subseteq X => Y = X
  <2>1. T \subseteq SUBSET S
    OBVIOUS
  <2> HIDE DEF T
  <2> QED
    BY <1>1, <2>1, SmallestSet
<1> DEFINE h == [Y \in SUBSET X |-> Summer(r, Y)[Y]]
           g == [s \in SUBSET X |-> StepOf(r, h, s)]
<1>3. ASSUME NEW Y, Y \subseteq X, Y # X
      PROVE  IsSum(r, Summer(r, Y), Y) /\ IsFiniteSet(Y)
  BY <1>2, <1>3, FS_Subset
<1>4. ASSUME NEW Y, Y \subseteq X, Y # X
      PROVE  g[Y] = h[Y]
  <2>1. h[Y] = StepOf(r, Summer(r, Y), Y)
    BY <1>3, <1>4 DEF IsSum
  <2>2. CASE Y = {}
    BY <2>1, <2>2, <1>4 DEF StepOf
  <2>3. CASE Y # {}
    <3>1. RestOf(Y) \subseteq Y /\ RestOf(Y) # Y
      BY <2>3, FirstRest
    <3>2. Summer(r, Y)[RestOf(Y)] = Summer(r, RestOf(Y))[RestOf(Y)]
      <4>1. /\ IsSum(r, Summer(r, Y), Y)
            /\ IsSum(r, Summer(r, RestOf(Y)), RestOf(Y)) /\ IsFiniteSet(RestOf(Y))
        BY <1>3, <1>4, <3>1
      <4> QED
        BY <4>1, <3>1, SumsAgree
    <3>3. h[RestOf(Y)] = Summer(r, Y)[RestOf(Y)]
      BY <3>1, <3>2, <1>4
    <3> HIDE DEF h
    <3> QED
      BY <2>1, <2>3, <3>3, <1>4 DEF StepOf
  <2> QED
    BY <2>2, <2>3
<1>5. ASSUME NEW s \in SUBSET X
      PROVE  g[s] = StepOf(r, g, s)
  <2>1. CASE s = {}
    BY <2>1 DEF StepOf
  <2>2. CASE s # {}
    <3>1. RestOf(s) \subseteq X /\ RestOf(s) # X
      BY <2>2, FirstRest
    <3>2. g[RestOf(s)] = h[RestOf(s)]
      BY <3>1, <1>4
    <3> QED
      BY <2>2, <3>2 DEF StepOf
  <2> QED
    BY <2>1, <2>2
<1>6. IsSum(r, g, X)
  <2>1. g = [s \in SUBSET X |-> g[s]]
    OBVIOUS
  <2> HIDE DEF g
  <2> QED
    BY <1>5, <2>1 DEF IsSum
<1>7. IsSum(r, Summer(r, X), X)
  <2> HIDE DEF g
  <2> QED
    BY <1>6 DEF Summer
<1> QED
  BY <1>2, <1>7

-------------------------------------------------------------------------------
(* What a sum comes to.                                                     *)

(* The sum over no elements is 0, any other takes out the first.             *)
LEMMA SumStep ==
  ASSUME NEW r, NEW S, IsFiniteSet(S)
  PROVE  /\ SumOf(r, {}) = 0
         /\ S # {} => SumOf(r, S) = r[FirstOf(S)] + SumOf(r, RestOf(S))
<1>1. SumOf(r, {}) = 0
  <2>1. IsSum(r, Summer(r, {}), {})
    BY FS_EmptySet, SummerExists
  <2> QED
    BY <2>1, SumIsSummer DEF IsSum, StepOf
<1>2. ASSUME S # {}
      PROVE  SumOf(r, S) = r[FirstOf(S)] + SumOf(r, RestOf(S))
  <2>1. RestOf(S) \subseteq S /\ IsFiniteSet(RestOf(S))
    BY <1>2, FirstRest, FS_Subset
  <2>2. IsSum(r, Summer(r, S), S) /\ IsSum(r, Summer(r, RestOf(S)), RestOf(S))
    BY <2>1, SummerExists
  <2>3. Summer(r, S)[RestOf(S)] = Summer(r, RestOf(S))[RestOf(S)]
    BY <2>1, <2>2, SumsAgree
  <2>4. Summer(r, S)[S] = StepOf(r, Summer(r, S), S)
    BY <2>2 DEF IsSum
  <2> QED
    BY <1>2, <2>3, <2>4, SumIsSummer DEF StepOf
<1> QED
  BY <1>1, <1>2

(* A sum of natural numbers is one.                                         *)
LEMMA SumType ==
  ASSUME NEW r, NEW S, IsFiniteSet(S), \A x \in S : r[x] \in Nat
  PROVE  SumOf(r, S) \in Nat
<1> DEFINE T == {s \in SUBSET S : SumOf(r, s) \notin Nat}
<1>1. SUFFICES ASSUME T # {} PROVE FALSE
  OBVIOUS
<1>2. PICK X \in T : \A Y \in T : Y \subseteq X => Y = X
  <2>1. T \subseteq SUBSET S
    OBVIOUS
  <2> HIDE DEF T
  <2> QED
    BY <1>1, <2>1, SmallestSet
<1>3. IsFiniteSet(X) /\ X \subseteq S
  BY FS_Subset
<1>4. X # {}
  <2>1. SumOf(r, {}) = 0 /\ SumOf(r, X) \notin Nat
    BY <1>3, SumStep
  <2> QED
    BY <2>1
<1>5. FirstOf(X) \in X /\ RestOf(X) \subseteq X /\ RestOf(X) # X
  BY <1>4, FirstRest
<1>6. SumOf(r, RestOf(X)) \in Nat
  BY <1>2, <1>5
<1>7. SumOf(r, X) = r[FirstOf(X)] + SumOf(r, RestOf(X)) /\ r[FirstOf(X)] \in Nat
  BY <1>3, <1>4, <1>5, SumStep
<1>8. SumOf(r, X) \in Nat
  BY <1>6, <1>7
<1> QED
  BY <1>8

(* Any element may be taken out first.                                      *)
LEMMA SumRemove ==
  ASSUME NEW r, NEW S, IsFiniteSet(S), \A x \in S : r[x] \in Nat, NEW a \in S
  PROVE  SumOf(r, S) = r[a] + SumOf(r, S \ {a})
<1> DEFINE Holds(s, x) == SumOf(r, s) = r[x] + SumOf(r, s \ {x})
           T == {s \in SUBSET S : \E x \in s : ~Holds(s, x)}
<1>1. SUFFICES ASSUME T # {} PROVE FALSE
  OBVIOUS
<1>2. PICK X \in T : \A Y \in T : Y \subseteq X => Y = X
  <2>1. T \subseteq SUBSET S
    OBVIOUS
  <2> HIDE DEF T
  <2> QED
    BY <1>1, <2>1, SmallestSet
<1>3. PICK b \in X : ~Holds(X, b)
  OBVIOUS
<1>4. IsFiniteSet(X) /\ X \subseteq S /\ X # {}
  BY FS_Subset
<1> DEFINE f == FirstOf(X)
           Z == X \ {b}
<1>5. f \in X /\ RestOf(X) \subseteq X /\ RestOf(X) # X
  BY <1>4, FirstRest
<1>6. SumOf(r, X) = r[f] + SumOf(r, RestOf(X))
  BY <1>4, SumStep
<1>7. f # b
  BY <1>3, <1>6 DEF RestOf
<1>8. ASSUME NEW Y, Y \subseteq X, Y # X, NEW x \in Y
      PROVE  Holds(Y, x)
  BY <1>2, <1>4, <1>8
<1>9. Holds(RestOf(X), b)
  BY <1>5, <1>7, <1>8 DEF RestOf
<1>10. Holds(Z, f)
  BY <1>5, <1>7, <1>8
<1>11. RestOf(X) \ {b} = Z \ {f}
  BY DEF RestOf
<1>12. /\ r[f] \in Nat /\ r[b] \in Nat
       /\ SumOf(r, Z \ {f}) \in Nat
  <2>1. Z \ {f} \subseteq S /\ IsFiniteSet(Z \ {f})
    BY <1>4, FS_Subset
  <2> QED
    BY <1>4, <1>5, <2>1, SumType
<1>13. SumOf(r, X) = r[f] + (r[b] + SumOf(r, Z \ {f})) /\ SumOf(r, Z) = r[f] + SumOf(r, Z \ {f})
  BY <1>6, <1>9, <1>10, <1>11
<1>14. Holds(X, b)
  BY <1>12, <1>13
<1> QED
  BY <1>3, <1>14

(* What is not summed does not matter.                                      *)
LEMMA SumSame ==
  ASSUME NEW r, NEW q, NEW S, IsFiniteSet(S), \A x \in S : r[x] = q[x]
  PROVE  SumOf(r, S) = SumOf(q, S)
<1> DEFINE T == {s \in SUBSET S : SumOf(r, s) # SumOf(q, s)}
<1>1. SUFFICES ASSUME T # {} PROVE FALSE
  OBVIOUS
<1>2. PICK X \in T : \A Y \in T : Y \subseteq X => Y = X
  <2>1. T \subseteq SUBSET S
    OBVIOUS
  <2> HIDE DEF T
  <2> QED
    BY <1>1, <2>1, SmallestSet
<1>3. IsFiniteSet(X) /\ X \subseteq S
  BY FS_Subset
<1>4. X # {}
  BY <1>3, SumStep
<1>5. FirstOf(X) \in X /\ RestOf(X) \subseteq X /\ RestOf(X) # X
  BY <1>4, FirstRest
<1>6. SumOf(r, RestOf(X)) = SumOf(q, RestOf(X))
  BY <1>2, <1>5
<1>7. SumOf(r, X) = SumOf(q, X)
  BY <1>3, <1>4, <1>5, <1>6, SumStep
<1> QED
  BY <1>7

(* Changing the value of one element changes the sum by as much.            *)
LEMMA SumChange ==
  ASSUME NEW r, NEW q, NEW S, IsFiniteSet(S), NEW a \in S,
         \A x \in S : r[x] \in Nat, q[a] \in Nat, \A x \in S \ {a} : q[x] = r[x]
  PROVE  /\ SumOf(q, S) + r[a] = SumOf(r, S) + q[a]
         /\ SumOf(r, S) \in Nat /\ SumOf(q, S) \in Nat
<1> DEFINE Z == S \ {a}
<1>1. IsFiniteSet(Z)
  BY FS_Subset
<1>2. SumOf(q, Z) = SumOf(r, Z) /\ SumOf(r, Z) \in Nat
  BY <1>1, SumSame, SumType
<1>3. SumOf(r, S) = r[a] + SumOf(r, Z) /\ SumOf(q, S) = q[a] + SumOf(q, Z)
  BY SumRemove
<1>4. SumOf(r, S) \in Nat /\ SumOf(q, S) \in Nat
  BY SumType
<1> QED
  BY <1>2, <1>3, <1>4

(* The sum over one element at most is not above a bound of it.              *)
LEMMA SumOfOne ==
  ASSUME NEW r, NEW S, IsFiniteSet(S), Cardinality(S) <= 1, \A x \in S : r[x] \in Nat,
         NEW b \in Nat, \A x \in S : r[x] <= b
  PROVE  SumOf(r, S) <= b
<1>1. CASE S = {}
  BY <1>1, SumStep
<1>2. CASE S # {}
  <2>1. FirstOf(S) \in S
    BY <1>2, FirstRest
  <2>2. RestOf(S) = {} /\ SumOf(r, {}) = 0
    <3>1. Cardinality(RestOf(S)) = Cardinality(S) - 1 /\ IsFiniteSet(RestOf(S))
      BY <2>1, FS_RemoveElement DEF RestOf
    <3>2. Cardinality(S) \in Nat /\ Cardinality(RestOf(S)) \in Nat
      BY <3>1, FS_CardinalityType
    <3>3. Cardinality(RestOf(S)) = 0
      BY <3>1, <3>2
    <3> QED
      BY <3>1, <3>3, FS_EmptySet, SumStep
  <2>3. SumOf(r, S) = r[FirstOf(S)] + 0
    BY <1>2, <2>2, SumStep
  <2> QED
    BY <2>1, <2>3
<1> QED
  BY <1>1, <1>2

(* Zeros sum up to zero.                                                    *)
LEMMA SumOfZeros ==
  ASSUME NEW r, NEW S, IsFiniteSet(S), \A x \in S : r[x] = 0
  PROVE  SumOf(r, S) = 0
<1> DEFINE T == {s \in SUBSET S : SumOf(r, s) # 0}
<1>1. SUFFICES ASSUME T # {} PROVE FALSE
  OBVIOUS
<1>2. PICK X \in T : \A Y \in T : Y \subseteq X => Y = X
  <2>1. T \subseteq SUBSET S
    OBVIOUS
  <2> HIDE DEF T
  <2> QED
    BY <1>1, <2>1, SmallestSet
<1>3. IsFiniteSet(X) /\ X \subseteq S
  BY FS_Subset
<1>4. X # {}
  BY <1>3, SumStep
<1>5. FirstOf(X) \in X /\ RestOf(X) \subseteq X /\ RestOf(X) # X
  BY <1>4, FirstRest
<1>6. SumOf(r, RestOf(X)) = 0 /\ r[FirstOf(X)] = 0
  BY <1>2, <1>3, <1>5
<1>7. SumOf(r, X) = r[FirstOf(X)] + SumOf(r, RestOf(X))
  BY <1>3, <1>4, SumStep
<1>8. SumOf(r, X) = 0
  BY <1>6, <1>7
<1> QED
  BY <1>8

(* What is zero need not be summed.                                         *)
LEMMA SumSupport ==
  ASSUME NEW r, NEW S, IsFiniteSet(S), \A x \in S : r[x] \in Nat
  PROVE  SumOf(r, {x \in S : r[x] > 0}) = SumOf(r, S)
<1> DEFINE Live(s) == {x \in s : r[x] > 0}
           T == {s \in SUBSET S : SumOf(r, Live(s)) # SumOf(r, s)}
<1>1. SUFFICES ASSUME T # {} PROVE FALSE
  OBVIOUS
<1>2. PICK X \in T : \A Y \in T : Y \subseteq X => Y = X
  <2>1. T \subseteq SUBSET S
    OBVIOUS
  <2> HIDE DEF T
  <2> QED
    BY <1>1, <2>1, SmallestSet
<1>3. IsFiniteSet(X) /\ X \subseteq S /\ IsFiniteSet(Live(X))
  BY FS_Subset
<1>4. X # {}
  <2>1. X = {} => Live(X) = X
    OBVIOUS
  <2>2. SumOf(r, Live(X)) # SumOf(r, X)
    OBVIOUS
  <2> QED
    BY <2>1, <2>2
<1> DEFINE f == FirstOf(X)
<1>5. f \in X /\ RestOf(X) \subseteq X /\ RestOf(X) # X /\ RestOf(X) = X \ {f}
  BY <1>4, FirstRest DEF RestOf
<1>6. SumOf(r, Live(RestOf(X))) = SumOf(r, RestOf(X))
  BY <1>2, <1>5
<1>7. SumOf(r, X) = r[f] + SumOf(r, RestOf(X)) /\ r[f] \in Nat
  BY <1>3, <1>4, <1>5, SumStep
<1>8. SumOf(r, RestOf(X)) \in Nat
  <2>1. IsFiniteSet(RestOf(X))
    BY <1>3, <1>5, FS_Subset
  <2> QED
    BY <1>3, <1>5, <2>1, SumType
<1>9. CASE r[f] > 0
  <2>1. f \in Live(X) /\ Live(X) \ {f} = Live(RestOf(X))
    BY <1>5, <1>9
  <2>2. \A x \in Live(X) : r[x] \in Nat
    BY <1>3
  <2> HIDE DEF Live
  <2>3. SumOf(r, Live(X)) = r[f] + SumOf(r, Live(RestOf(X)))
    BY <1>3, <2>1, <2>2, SumRemove
  <2>4. SumOf(r, Live(X)) = SumOf(r, X)
    BY <1>6, <1>7, <2>3
  <2> QED
    BY <2>4 DEF Live
<1>10. CASE ~(r[f] > 0)
  <2>1. Live(X) = Live(RestOf(X))
    BY <1>5, <1>10
  <2>2. r[f] = 0
    BY <1>7, <1>10
  <2> HIDE DEF Live
  <2>3. SumOf(r, Live(X)) = SumOf(r, X)
    BY <1>6, <1>7, <1>8, <2>1, <2>2
  <2> QED
    BY <2>3 DEF Live
<1> QED
  BY <1>9, <1>10
-------------------------------------------------------------------------------
(* Folds: MapThenFoldSet takes one element after the other out of a set, as *)
(* ch chooses them, and step says what each makes of what the rest came to. *)

FoldStep(step, base, ch, g, s) == IF s = {} THEN base ELSE step[<<ch[s], g[s \ {ch[s]}]>>]
IsFold(step, base, ch, g, S) == g = [s \in SUBSET S |-> FoldStep(step, base, ch, g, s)]
Folder(step, base, ch, S) == CHOOSE g : IsFold(step, base, ch, g, S)

(* Folds agree where both are defined.                                      *)
LEMMA FoldsAgree ==
  ASSUME NEW step, NEW base, NEW ch, NEW A, NEW B, NEW g, NEW h,
         IsFold(step, base, ch, g, A), IsFold(step, base, ch, h, B),
         NEW S, IsFiniteSet(S), S \subseteq A, S \subseteq B,
         \A s \in SUBSET S : s # {} => ch[s] \in s
  PROVE  g[S] = h[S]
<1> DEFINE T == {s \in SUBSET S : g[s] = h[s]}
<1>1. ASSUME NEW s \in SUBSET S, \A t \in SUBSET s : t # s => t \in T
      PROVE  g[s] = h[s]
  <2>1. g[s] = FoldStep(step, base, ch, g, s) /\ h[s] = FoldStep(step, base, ch, h, s)
    BY DEF IsFold
  <2>2. CASE s = {}
    BY <2>1, <2>2 DEF FoldStep
  <2>3. CASE s # {}
    <3>1. ch[s] \in s
      BY <2>3
    <3>2. s \ {ch[s]} \in SUBSET s /\ s \ {ch[s]} # s
      BY <3>1
    <3>3. g[s \ {ch[s]}] = h[s \ {ch[s]}]
      BY <1>1, <3>2
    <3> QED
      BY <2>1, <2>3, <3>3 DEF FoldStep
  <2> QED
    BY <2>2, <2>3
<1>2. \A s \in SUBSET S : (\A t \in SUBSET s : t # s => t \in T) => s \in T
  BY <1>1
<1>3. S \in T
  <2> HIDE DEF T
  <2> QED
    BY <1>2, SetInduction
<1> QED
  BY <1>3

(* The recursive function of a fold exists.                                 *)
LEMMA FolderExists ==
  ASSUME NEW step, NEW base, NEW ch, NEW S, IsFiniteSet(S),
         \A s \in SUBSET S : s # {} => ch[s] \in s
  PROVE  IsFold(step, base, ch, Folder(step, base, ch, S), S)
<1> DEFINE F(s) == Folder(step, base, ch, s)
           Good(s) == IsFold(step, base, ch, F(s), s)
           T == {s \in SUBSET S : Good(s)}
<1>1. ASSUME NEW X \in SUBSET S, \A t \in SUBSET X : t # X => t \in T
      PROVE  Good(X)
  <2> DEFINE h == [Y \in SUBSET X |-> F(Y)[Y]]
             g == [s \in SUBSET X |-> FoldStep(step, base, ch, h, s)]
  <2>1. ASSUME NEW Y \in SUBSET X, Y # X
        PROVE  Good(Y) /\ IsFiniteSet(Y)
    BY <1>1, <2>1, FS_Subset
  <2>2. ASSUME NEW Y \in SUBSET X, Y # X
        PROVE  g[Y] = h[Y]
    <3>1. Good(Y) /\ IsFiniteSet(Y)
      BY <2>1, <2>2
    <3>2. h[Y] = FoldStep(step, base, ch, F(Y), Y)
      BY <3>1 DEF IsFold
    <3>3. CASE Y = {}
      BY <3>2, <3>3 DEF FoldStep
    <3>4. CASE Y # {}
      <4> DEFINE Z == Y \ {ch[Y]}
      <4>1. ch[Y] \in Y
        BY <3>4
      <4>2. Z \subseteq Y /\ Z # Y /\ Z \in SUBSET X /\ Z # X
        BY <4>1, <2>2
      <4>3. Good(Z) /\ IsFiniteSet(Z)
        BY <4>2, <2>1
      <4>4. F(Y)[Z] = F(Z)[Z]
        <5>1. IsFold(step, base, ch, F(Y), Y) /\ IsFold(step, base, ch, F(Z), Z)
          BY <3>1, <4>3
        <5>2. \A s \in SUBSET Z : s # {} => ch[s] \in s
          OBVIOUS
        <5>3. Z \subseteq Y /\ Z \subseteq Z /\ IsFiniteSet(Z)
          BY <4>2, <4>3
        <5> HIDE DEF F, Z
        <5> QED
          BY <5>1, <5>2, <5>3, FoldsAgree
      <4>5. h[Z] = F(Z)[Z]
        BY <4>2
      <4> HIDE DEF h, F
      <4> QED
        BY <3>2, <3>4, <4>4, <4>5, <2>2 DEF FoldStep
    <3> QED
      BY <3>3, <3>4
  <2>3. ASSUME NEW s \in SUBSET X
        PROVE  g[s] = FoldStep(step, base, ch, g, s)
    <3>1. CASE s = {}
      BY <3>1 DEF FoldStep
    <3>2. CASE s # {}
      <4>1. ch[s] \in s
        BY <3>2
      <4>2. s \ {ch[s]} \in SUBSET X /\ s \ {ch[s]} # X
        BY <4>1
      <4>3. g[s \ {ch[s]}] = h[s \ {ch[s]}]
        BY <4>2, <2>2
      <4> QED
        BY <3>2, <4>3 DEF FoldStep
    <3> QED
      BY <3>1, <3>2
  <2>4. IsFold(step, base, ch, g, X)
    <3>1. g = [s \in SUBSET X |-> g[s]]
      OBVIOUS
    <3> HIDE DEF g
    <3> QED
      BY <2>3, <3>1 DEF IsFold
  <2> HIDE DEF g
  <2> QED
    BY <2>4 DEF Folder
<1>2. \A s \in SUBSET S : (\A t \in SUBSET s : t # s => t \in T) => s \in T
  BY <1>1
<1>3. S \in T
  <2> HIDE DEF T
  <2> QED
    BY <1>2, SetInduction
<1> QED
  BY <1>3

(* There is a function with values in V that computes the fold.             *)
HasFold(S, V, base, step, ch) ==
  \E g \in [SUBSET S -> V] :
     \A s \in SUBSET S : g[s] = IF s = {} THEN base ELSE step[<<ch[s], g[s \ {ch[s]}]>>]

(* A step that leads from V to V has a fold with values in V.               *)
LEMMA FoldExists ==
  ASSUME NEW S, IsFiniteSet(S), NEW V, NEW base \in V, NEW step \in [S \X V -> V],
         NEW ch, \A s \in SUBSET S : s # {} => ch[s] \in s
  PROVE  HasFold(S, V, base, step, ch)
<1> DEFINE g == Folder(step, base, ch, S)
           T == {s \in SUBSET S : \A t \in SUBSET s : g[t] \in V}
<1>1. IsFold(step, base, ch, g, S)
  BY FolderExists
<1> HIDE DEF g
<1>2. \A s \in SUBSET S : g[s] = IF s = {} THEN base ELSE step[<<ch[s], g[s \ {ch[s]}]>>]
  BY <1>1 DEF IsFold, FoldStep
<1>3. ASSUME NEW s \in SUBSET S, \A t \in SUBSET s : t # s => t \in T
      PROVE  \A t \in SUBSET s : g[t] \in V
  <2>1. g[s] \in V
    <3>1. CASE s = {}
      BY <3>1, <1>2
    <3>2. CASE s # {}
      <4>1. ch[s] \in s
        BY <3>2
      <4>2. s \ {ch[s]} \in SUBSET s /\ s \ {ch[s]} # s
        BY <4>1
      <4>3. g[s \ {ch[s]}] \in V
        <5>1. s \ {ch[s]} \in T
          BY <1>3, <4>2
        <5>2. \A t \in SUBSET (s \ {ch[s]}) : g[t] \in V
          BY <5>1
        <5> QED
          BY <5>2
      <4>4. step[<<ch[s], g[s \ {ch[s]}]>>] \in V
        BY <4>1, <4>3
      <4> QED
        BY <3>2, <4>4, <1>2
    <3> QED
      BY <3>1, <3>2
  <2> QED
    BY <2>1, <1>3
<1>4. \A s \in SUBSET S : (\A t \in SUBSET s : t # s => t \in T) => s \in T
  BY <1>3
<1>5. S \in T
  <2> HIDE DEF T
  <2> QED
    BY <1>4, SetInduction
<1>6. g = [s \in SUBSET S |-> g[s]]
  BY <1>1 DEF IsFold
<1>7. g \in [SUBSET S -> V]
  BY <1>5, <1>6
<1> QED
  BY <1>2, <1>7 DEF HasFold

-------------------------------------------------------------------------------
(* Sums of integers.                                                        *)

(* A sum of integers is one.                                                *)
LEMMA SumInt ==
  ASSUME NEW r, NEW S, IsFiniteSet(S), \A x \in S : r[x] \in Int
  PROVE  SumOf(r, S) \in Int
<1> DEFINE T == {s \in SUBSET S : SumOf(r, s) \in Int}
<1>1. ASSUME NEW s \in SUBSET S, \A t \in SUBSET s : t # s => t \in T
      PROVE  SumOf(r, s) \in Int
  <2>1. IsFiniteSet(s)
    BY FS_Subset
  <2>2. CASE s = {}
    <3>1. SumOf(r, s) = 0
      BY <2>1, <2>2, SumStep
    <3> QED
      BY <3>1
  <2>3. CASE s # {}
    <3>1. FirstOf(s) \in s /\ RestOf(s) \in SUBSET s /\ RestOf(s) # s
      BY <2>3, FirstRest
    <3>2. SumOf(r, RestOf(s)) \in Int /\ r[FirstOf(s)] \in Int
      BY <1>1, <3>1
    <3>3. SumOf(r, s) = r[FirstOf(s)] + SumOf(r, RestOf(s))
      BY <2>1, <2>3, SumStep
    <3> QED
      BY <3>2, <3>3
  <2> QED
    BY <2>2, <2>3
<1>2. \A s \in SUBSET S : (\A t \in SUBSET s : t # s => t \in T) => s \in T
  BY <1>1
<1>3. S \in T
  <2> HIDE DEF T
  <2> QED
    BY <1>2, SetInduction
<1> QED
  BY <1>3

(* Any element may be taken out first.                                      *)
LEMMA SumTakeOut ==
  ASSUME NEW r, NEW S, IsFiniteSet(S), \A x \in S : r[x] \in Int, NEW a \in S
  PROVE  SumOf(r, S) = r[a] + SumOf(r, S \ {a})
<1> DEFINE Holds(s, x) == SumOf(r, s) = r[x] + SumOf(r, s \ {x})
           T == {s \in SUBSET S : \A x \in s : Holds(s, x)}
<1>1. ASSUME NEW s \in SUBSET S, \A t \in SUBSET s : t # s => t \in T, NEW b \in s
      PROVE  Holds(s, b)
  <2> DEFINE f == FirstOf(s)
  <2>1. IsFiniteSet(s) /\ s # {}
    BY FS_Subset
  <2>2. f \in s /\ RestOf(s) = s \ {f} /\ RestOf(s) # s
    BY <2>1, FirstRest DEF RestOf
  <2>3. SumOf(r, s) = r[f] + SumOf(r, s \ {f})
    BY <2>1, <2>2, SumStep
  <2> HIDE DEF f
  <2>4. CASE b = f
    BY <2>3, <2>4
  <2>5. CASE b # f
    <3>1. s \ {f} \in T /\ s \ {b} \in T
      <4>1. s \ {f} \in SUBSET s /\ s \ {f} # s /\ s \ {b} \in SUBSET s /\ s \ {b} # s
        BY <2>2
      <4> HIDE DEF T
      <4> QED
        BY <1>1, <4>1
    <3>2. b \in s \ {f} /\ f \in s \ {b} /\ (s \ {f}) \ {b} = (s \ {b}) \ {f}
      BY <2>2, <2>5
    <3>3. Holds(s \ {f}, b) /\ Holds(s \ {b}, f)
      BY <3>1, <3>2
    <3>4. r[f] \in Int /\ r[b] \in Int /\ SumOf(r, (s \ {b}) \ {f}) \in Int
      <4>1. IsFiniteSet((s \ {b}) \ {f}) /\ \A x \in (s \ {b}) \ {f} : r[x] \in Int
        BY <2>1, FS_Subset
      <4>2. SumOf(r, (s \ {b}) \ {f}) \in Int
        BY <4>1, SumInt
      <4> QED
        BY <2>2, <4>2
    <3>5. SumOf(r, s) = r[f] + (r[b] + SumOf(r, (s \ {b}) \ {f}))
      BY <2>3, <3>2, <3>3
    <3>6. SumOf(r, s \ {b}) = r[f] + SumOf(r, (s \ {b}) \ {f})
      BY <3>3
    <3> QED
      BY <3>4, <3>5, <3>6
  <2> QED
    BY <2>4, <2>5
<1>2. \A s \in SUBSET S : (\A t \in SUBSET s : t # s => t \in T) => s \in T
  <2> HIDE DEF Holds
  <2> QED
    BY <1>1
<1>3. S \in T
  <2> HIDE DEF T
  <2> QED
    BY <1>2, SetInduction
<1> QED
  BY <1>3

(* One element more.                                                        *)
LEMMA SumPutIn ==
  ASSUME NEW r, NEW S, IsFiniteSet(S), NEW a, a \notin S, \A x \in S \cup {a} : r[x] \in Int
  PROVE  /\ SumOf(r, S \cup {a}) = r[a] + SumOf(r, S)
         /\ IsFiniteSet(S \cup {a})
<1>1. IsFiniteSet(S \cup {a})
  BY FS_AddElement
<1>2. (S \cup {a}) \ {a} = S
  OBVIOUS
<1>3. SumOf(r, S \cup {a}) = r[a] + SumOf(r, (S \cup {a}) \ {a})
  BY <1>1, SumTakeOut
<1> QED
  BY <1>1, <1>2, <1>3

(* A part, and what is left.                                                *)
LEMMA SumSplit ==
  ASSUME NEW r, NEW S, IsFiniteSet(S), \A x \in S : r[x] \in Int, NEW P, P \subseteq S
  PROVE  /\ SumOf(r, S) = SumOf(r, P) + SumOf(r, S \ P)
         /\ SumOf(r, P) \in Int /\ SumOf(r, S \ P) \in Int
<1> DEFINE Q == S \ P
           T == {s \in SUBSET P : SumOf(r, s \cup Q) = SumOf(r, s) + SumOf(r, Q)}
<1>1. IsFiniteSet(P) /\ IsFiniteSet(Q)
  BY FS_Subset
<1>2. SumOf(r, Q) \in Int /\ SumOf(r, P) \in Int
  <2>1. \A x \in Q : r[x] \in Int
    OBVIOUS
  <2>2. \A x \in P : r[x] \in Int
    OBVIOUS
  <2> HIDE DEF Q
  <2> QED
    BY <1>1, <2>1, <2>2, SumInt
<1>3. ASSUME NEW s \in SUBSET P, \A t \in SUBSET s : t # s => t \in T
      PROVE  SumOf(r, s \cup Q) = SumOf(r, s) + SumOf(r, Q)
  <2>1. IsFiniteSet(s) /\ IsFiniteSet(s \cup Q)
    BY <1>1, FS_Subset, FS_Union
  <2>2. CASE s = {}
    <3>1. SumOf(r, s) = 0 /\ s \cup Q = Q
      BY <2>1, <2>2, SumStep
    <3> HIDE DEF Q, T
    <3> QED
      BY <1>2, <3>1
  <2>3. CASE s # {}
    <3> DEFINE f == FirstOf(s)
               t == s \ {f}
    <3>1. f \in s /\ t \in SUBSET s /\ t # s /\ f \in s \cup Q /\ (s \cup Q) \ {f} = t \cup Q
      BY <2>3, FirstRest
    <3> HIDE DEF f
    <3>2. SumOf(r, t \cup Q) = SumOf(r, t) + SumOf(r, Q)
      <4>1. t \in T
        <5> HIDE DEF T, t
        <5> QED
          BY <1>3, <3>1
      <4> QED
        BY <4>1
    <3>3. SumOf(r, s) = r[f] + SumOf(r, t)
      <4>1. \A x \in s : r[x] \in Int
        OBVIOUS
      <4> QED
        BY <2>1, <3>1, <4>1, SumTakeOut
    <3>4. SumOf(r, s \cup Q) = r[f] + SumOf(r, t \cup Q)
      <4>1. \A x \in s \cup Q : r[x] \in Int
        OBVIOUS
      <4> HIDE DEF t
      <4> QED
        BY <2>1, <3>1, <4>1, SumTakeOut
    <3>5. r[f] \in Int /\ SumOf(r, t) \in Int
      <4>1. IsFiniteSet(t) /\ \A x \in t : r[x] \in Int
        BY <2>1, FS_Subset
      <4>2. SumOf(r, t) \in Int
        <5> HIDE DEF t
        <5> QED
          BY <4>1, SumInt
      <4> QED
        BY <3>1, <4>2
    <3> HIDE DEF t, Q
    <3> QED
      BY <1>2, <3>2, <3>3, <3>4, <3>5
  <2> QED
    BY <2>2, <2>3
<1>4. \A s \in SUBSET P : (\A t \in SUBSET s : t # s => t \in T) => s \in T
  <2> HIDE DEF Q
  <2> QED
    BY <1>3
<1>5. P \in T
  <2> HIDE DEF T
  <2> QED
    BY <1>1, <1>4, SetInduction
<1>6. P \cup Q = S
  OBVIOUS
<1> HIDE DEF Q
<1>7. SumOf(r, S) = SumOf(r, P) + SumOf(r, Q)
  BY <1>5, <1>6
<1> QED
  BY <1>2, <1>7 DEF Q

(* What each element is replaced by counts in its place.                     *)
LEMMA SumImage ==
  ASSUME NEW r, NEW q, NEW f, NEW S, IsFiniteSet(S),
         \A x, y \in S : f[x] = f[y] => x = y, \A x \in S : r[x] \in Int /\ q[f[x]] = r[x]
  PROVE  /\ SumOf(q, {f[x] : x \in S}) = SumOf(r, S)
         /\ IsFiniteSet({f[x] : x \in S})
<1> DEFINE Im(s) == {f[x] : x \in s}
           Good(s) == IsFiniteSet(Im(s)) /\ SumOf(q, Im(s)) = SumOf(r, s)
           T == {s \in SUBSET S : Good(s)}
<1>1. ASSUME NEW s \in SUBSET S, \A t \in SUBSET s : t # s => t \in T
      PROVE  Good(s)
  <2>1. IsFiniteSet(s)
    BY FS_Subset
  <2>2. CASE s = {}
    <3>1. Im(s) = {}
      BY <2>2
    <3>2. IsFiniteSet({}) /\ SumOf(q, {}) = 0 /\ SumOf(r, {}) = 0
      BY FS_EmptySet, SumStep
    <3> QED
      BY <2>2, <3>1, <3>2
  <2>3. CASE s # {}
    <3> DEFINE a == FirstOf(s)
               t == s \ {a}
    <3>1. a \in s /\ t \in SUBSET s /\ t # s
      BY <2>3, FirstRest
    <3> HIDE DEF a
    <3>2. Good(t)
      <4>1. t \in T
        <5> HIDE DEF T, t
        <5> QED
          BY <1>1, <3>1
      <4> HIDE DEF Good, t
      <4> QED
        BY <4>1
    <3>3. Im(s) = Im(t) \cup {f[a]} /\ f[a] \notin Im(t)
      BY <3>1
    <3>4. \A y \in Im(t) \cup {f[a]} : q[y] \in Int
      BY <3>1
    <3>5. SumOf(q, Im(t) \cup {f[a]}) = q[f[a]] + SumOf(q, Im(t)) /\ IsFiniteSet(Im(t) \cup {f[a]})
      <4> HIDE DEF Im, t
      <4> QED
        BY <3>2, <3>3, <3>4, SumPutIn DEF Good
    <3>6. SumOf(r, s) = r[a] + SumOf(r, t)
      <4>1. \A x \in s : r[x] \in Int
        OBVIOUS
      <4> QED
        BY <2>1, <3>1, <4>1, SumTakeOut
    <3>7. q[f[a]] = r[a]
      BY <3>1
    <3> HIDE DEF t, Im
    <3> QED
      BY <3>2, <3>3, <3>5, <3>6, <3>7 DEF Good
  <2> QED
    BY <2>2, <2>3
<1>2. \A s \in SUBSET S : (\A t \in SUBSET s : t # s => t \in T) => s \in T
  <2> HIDE DEF Good
  <2> QED
    BY <1>1
<1>3. S \in T
  <2> HIDE DEF T
  <2> QED
    BY <1>2, SetInduction
<1> QED
  BY <1>3

(* A function that sums the way MapThenSumSet does comes to SumOf.           *)
LEMMA SumUnfolded ==
  ASSUME NEW r, NEW S, IsFiniteSet(S), NEW g,
         \A s \in SUBSET S : g[s] = IF s = {} THEN 0 ELSE r[FirstOf(s)] + g[s \ {FirstOf(s)}],
         g = [s \in SUBSET S |-> g[s]]
  PROVE  g[S] = SumOf(r, S)
<1>1. IsSum(r, g, S)
  BY DEF IsSum, StepOf, RestOf
<1>2. IsSum(r, Summer(r, S), S)
  BY SummerExists
<1>3. g[S] = Summer(r, S)[S]
  BY <1>1, <1>2, SumsAgree
<1> QED
  BY <1>3, SumIsSummer

(* Values may be summed by a function that has them.                        *)
LEMMA ValuesSum ==
  ASSUME NEW S, IsFiniteSet(S), NEW r, \A p \in S : r[p] = p.value
  PROVE  MapThenSumSet(LAMBDA p : p.value, S) = SumOf(r, S)
<1> DEFINE Eq(g) == g = [s \in SUBSET S |-> IF s = {} THEN 0
                                          ELSE FirstOf(s).value + g[s \ {FirstOf(s)}]]
<1>1. MapThenSumSet(LAMBDA p : p.value, S) = (CHOOSE g : Eq(g))[S]
  BY DEF MapThenSumSet, MapThenFoldSet, FirstOf
<1>2. \A s \in SUBSET S : s # {} => r[FirstOf(s)] = FirstOf(s).value
  BY DEF FirstOf
<1>3. Eq(Summer(r, S))
  <2>1. IsSum(r, Summer(r, S), S)
    BY SummerExists
  <2> DEFINE h == Summer(r, S)
  <2>2. h = [s \in SUBSET S |-> IF s = {} THEN 0 ELSE r[FirstOf(s)] + h[s \ {FirstOf(s)}]]
    BY <2>1 DEF IsSum, StepOf, RestOf
  <2> HIDE DEF h
  <2>3. Eq(h)
    BY <1>2, <2>2
  <2> QED
    BY <2>3 DEF h
<1>4. PICK g : Eq(g) /\ MapThenSumSet(LAMBDA p : p.value, S) = g[S]
  <2> HIDE DEF Eq
  <2> QED
    BY <1>1, <1>3
<1>5. \A s \in SUBSET S : g[s] = IF s = {} THEN 0 ELSE r[FirstOf(s)] + g[s \ {FirstOf(s)}]
  BY <1>2, <1>4
<1>6. g = [s \in SUBSET S |-> g[s]]
  BY <1>4
<1> HIDE DEF Eq
<1>7. g[S] = SumOf(r, S)
  BY <1>5, <1>6, SumUnfolded
<1> QED
  BY <1>4, <1>7
===============================================================================
