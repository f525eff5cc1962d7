-------------------------------- MODULE Sums --------------------------------
(***************************************************************************)
(* Sums over finite sets, for the proofs about quantities.  The library's  *)
(* induction theorems take an operator, so each fact comes from a least    *)
(* counterexample.                                                         *)
(***************************************************************************)
EXTENDS Integers, FiniteSetsExt, FiniteSetTheorems, TLAPS

\* A set of naturals that is not empty has a least element.
LEMMA Least == ASSUME NEW T \in SUBSET Nat, T # {}
               PROVE  \E n \in T : \A m \in T : n <= m
<1>1. PICK n \in T : \A m \in T : ~ (<<m, n>> \in OpToRel(<, Nat))
  BY NatLessThanWellFounded, WFMin, Zenon
<1>2. \A m \in T : ~ (m < n)
  BY <1>1, Zenon DEF OpToRel
<1>3. QED
  BY <1>2

Total(f, S) == MapThenSumSet(LAMBDA x : f[x], S)

One(s) == CHOOSE x \in s : TRUE

\* g sums f over the subsets of S that have up to n elements.
Sums(g, f, S, n) ==
  g = [s \in {u \in SUBSET S : Cardinality(u) <= n} |->
         IF s = {} THEN 0 ELSE f[One(s)] + g[s \ {One(s)}]]

LEMMA Smaller == ASSUME NEW S, IsFiniteSet(S), NEW s \in SUBSET S, s # {}
                 PROVE  /\ One(s) \in s /\ s \ {One(s)} \in SUBSET S
                        /\ Cardinality(s) \in Nat \ {0} /\ Cardinality(s \ {One(s)}) = Cardinality(s) - 1
<1>1. One(s) \in s
  BY DEF One
<1>2. IsFiniteSet(s) /\ Cardinality(s) \in Nat
  BY FS_Subset, FS_CardinalityType
<1>3. Cardinality(s) # 0
  BY <1>2, FS_EmptySet
<1>4. Cardinality(s \ {One(s)}) = Cardinality(s) - 1
  BY <1>1, <1>2, FS_RemoveElement
<1>5. QED
  BY <1>1, <1>2, <1>3, <1>4

LEMMA SumsExist == ASSUME NEW S, IsFiniteSet(S), NEW f, NEW n \in Nat
                   PROVE  \E g : Sums(g, f, S, n)
<1> DEFINE T == {m \in Nat : ~ \E g : Sums(g, f, S, m)}
           Up(m) == {u \in SUBSET S : Cardinality(u) <= m}
<1> SUFFICES ASSUME T # {} PROVE FALSE
  OBVIOUS
<1>1. PICK m \in T : \A k \in T : m <= k
  BY Least
<1>2. CASE m = 0
  <2> DEFINE g == [s \in Up(0) |-> 0]
  <2>1. ASSUME NEW s \in Up(0) PROVE s = {}
    BY FS_Subset, FS_EmptySet, FS_CardinalityType
  <2>2. Sums(g, f, S, 0)
    BY <2>1 DEF Sums
  <2>3. QED
    BY <1>2, <2>2
<1>3. CASE m # 0
  <2>1. m - 1 \in Nat /\ m - 1 \notin T
    BY <1>1, <1>3
  <2>2. PICK g : Sums(g, f, S, m - 1)
    BY <2>1
  <2> DEFINE h == [s \in Up(m) |-> IF s = {} THEN 0 ELSE f[One(s)] + g[s \ {One(s)}]]
  <2>3. ASSUME NEW s \in Up(m - 1) PROVE s \in Up(m) /\ h[s] = g[s]
    <3>1. Cardinality(s) \in Nat
      BY FS_Subset, FS_CardinalityType
    <3>2. s \in Up(m)
      BY <3>1
    <3>3. g[s] = IF s = {} THEN 0 ELSE f[One(s)] + g[s \ {One(s)}]
      BY <2>2 DEF Sums
    <3>4. QED
      BY <3>2, <3>3
  <2>4. ASSUME NEW s \in Up(m), s # {} PROVE h[s \ {One(s)}] = g[s \ {One(s)}]
    <3>1. s \ {One(s)} \in Up(m - 1)
      BY <2>4, Smaller
    <3>2. QED
      BY <2>3, <3>1
  <2>5. Sums(h, f, S, m)
    <3>1. h = [s \in Up(m) |-> IF s = {} THEN 0 ELSE f[One(s)] + h[s \ {One(s)}]]
      <4> HIDE DEF Up
      <4> QED BY <2>4
    <3>2. QED
      BY <3>1 DEF Sums
  <2>6. QED
    BY <2>5, <1>1
<1>4. QED
  BY <1>2, <1>3

Adds(g, f, S) ==
  /\ Total(f, S) = g[S]
  /\ \A s \in SUBSET S : g[s] = IF s = {} THEN 0 ELSE f[One(s)] + g[s \ {One(s)}]

\* The sum over S, and the sums over the subsets of S that it is made of.
LEMMA SumIsOne == ASSUME NEW S, IsFiniteSet(S), NEW f
                  PROVE  \E g : Adds(g, f, S)
<1> DEFINE Iter(g) == g = [s \in SUBSET S |-> IF s = {} THEN 0 ELSE f[One(s)] + g[s \ {One(s)}]]
<1>1. \E g : Iter(g)
  <2>1. PICK g : Sums(g, f, S, Cardinality(S))
    BY SumsExist, FS_CardinalityType
  <2>2. \A u \in SUBSET S : Cardinality(u) <= Cardinality(S)
    BY FS_Subset
  <2>3. {u \in SUBSET S : Cardinality(u) <= Cardinality(S)} = SUBSET S
    BY <2>2
  <2>4. Iter(g)
    BY <2>1, <2>3 DEF Sums
  <2>5. QED
    BY <2>4
<1> DEFINE it == CHOOSE g : Iter(g)
<1>2. Iter(it)
  BY <1>1
<1>3. Total(f, S) = it[S]
  BY DEF Total, MapThenSumSet, MapThenFoldSet, One
<1>4. QED
  <2> HIDE DEF it
  <2>1. \A s \in SUBSET S : it[s] = IF s = {} THEN 0 ELSE f[One(s)] + it[s \ {One(s)}]
    BY <1>2
  <2>2. QED
    BY <1>3, <2>1 DEF Adds

\* A sum of members of a set that addition does not leave is a member of it.
Additive(T) == 0 \in T /\ \A i, j \in T : i + j \in T

LEMMA SumIsIn == ASSUME NEW S, IsFiniteSet(S), NEW f, NEW T, Additive(T), \A x \in S : f[x] \in T
                 PROVE  Total(f, S) \in T
<1>1. PICK g : Adds(g, f, S)
  BY SumIsOne
<1> DEFINE Bad == {n \in Nat : \E s \in SUBSET S : Cardinality(s) = n /\ g[s] \notin T}
<1>2. SUFFICES ASSUME g[S] \notin T PROVE FALSE
  BY <1>1 DEF Adds
<1>3. Bad # {}
  <2>1. S \in SUBSET S /\ Cardinality(S) \in Nat
    BY FS_CardinalityType
  <2>2. QED
    BY <1>2, <2>1
<1>4. PICK n \in Bad : \A m \in Bad : n <= m
  BY <1>3, Least
<1>5. PICK s \in SUBSET S : Cardinality(s) = n /\ g[s] \notin T
  BY <1>4
<1>6. s # {}
  BY <1>1, <1>5 DEF Adds, Additive
<1>7. /\ One(s) \in s /\ s \ {One(s)} \in SUBSET S
      /\ n - 1 \in Nat /\ Cardinality(s \ {One(s)}) = n - 1
  <2>1. Cardinality(s) \in Nat \ {0} /\ Cardinality(s \ {One(s)}) = Cardinality(s) - 1
    BY <1>6, Smaller
  <2>2. One(s) \in s /\ s \ {One(s)} \in SUBSET S
    BY <1>6, Smaller
  <2>3. QED
    BY <1>5, <2>1, <2>2
<1>8. n - 1 \notin Bad
  BY <1>4, <1>7
<1>9. g[s \ {One(s)}] \in T
  BY <1>7, <1>8
<1>10. g[s] = f[One(s)] + g[s \ {One(s)}] /\ f[One(s)] \in T
  BY <1>1, <1>6, <1>7 DEF Adds
<1>11. QED
  BY <1>5, <1>9, <1>10 DEF Additive

LEMMA SumIsNat == ASSUME NEW S, IsFiniteSet(S), NEW f, \A x \in S : f[x] \in Nat
                  PROVE  Total(f, S) \in Nat
<1>1. Additive(Nat)
  BY DEF Additive
<1>2. QED
  BY <1>1, SumIsIn

LEMMA SumIsZero == ASSUME NEW S, IsFiniteSet(S), NEW f, \A x \in S : f[x] \in {0}
                   PROVE  Total(f, S) = 0
<1>1. Additive({0})
  BY DEF Additive
<1>2. Total(f, S) \in {0}
  BY <1>1, SumIsIn
<1>3. QED
  BY <1>2

\* h has d more than f at y.
Grown(h, f, S, y, d) == /\ y \in S /\ d \in Nat /\ \A x \in S : f[x] \in Nat
                        /\ h[y] = f[y] + d /\ \A x \in S \ {y} : h[x] = f[x]

\* What is added at one place is added to the sum.
LEMMA SumGrows ==
  ASSUME NEW S, IsFiniteSet(S), NEW f, NEW h, NEW y, NEW d, Grown(h, f, S, y, d)
  PROVE  Total(h, S) = Total(f, S) + d
<1> USE DEF Grown
<1>1. PICK g : Adds(g, f, S)
  BY SumIsOne
<1>2. PICK k : Adds(k, h, S)
  BY SumIsOne
<1> DEFINE Good(s) == g[s] \in Nat /\ k[s] = IF y \in s THEN g[s] + d ELSE g[s]
           T == {n \in Nat : \E s \in SUBSET S : Cardinality(s) = n /\ ~Good(s)}
<1>3. SUFFICES ASSUME ~Good(S) PROVE FALSE
  BY <1>1, <1>2 DEF Adds
<1>4. T # {}
  <2>1. S \in SUBSET S /\ Cardinality(S) \in Nat
    BY FS_CardinalityType
  <2>2. QED
    BY <1>3, <2>1
<1>5. PICK n \in T : \A m \in T : n <= m
  BY <1>4, Least
<1>6. PICK s \in SUBSET S : Cardinality(s) = n /\ ~Good(s)
  BY <1>5
<1>7. s # {}
  <2>1. g[{}] = 0
    BY <1>1 DEF Adds
  <2>2. k[{}] = 0
    BY <1>2 DEF Adds
  <2>3. ASSUME s = {} PROVE Good(s)
    BY <2>1, <2>2, <2>3
  <2>4. QED
    BY <1>6, <2>3
<1>8. /\ One(s) \in s /\ s \ {One(s)} \in SUBSET S
      /\ n - 1 \in Nat /\ Cardinality(s \ {One(s)}) = n - 1
  BY <1>6, <1>7, Smaller
<1>9. n - 1 \notin T
  BY <1>5, <1>8
<1>10. Good(s \ {One(s)})
  BY <1>8, <1>9
<1>11. g[s] = f[One(s)] + g[s \ {One(s)}] /\ k[s] = h[One(s)] + k[s \ {One(s)}]
  BY <1>1, <1>2, <1>7 DEF Adds
<1>12. One(s) \in S
  BY <1>8
<1>13. CASE One(s) = y
  <2>1. k[s \ {One(s)}] = g[s \ {One(s)}]
    BY <1>10, <1>13
  <2>2. QED
    BY <1>6, <1>8, <1>10, <1>11, <1>12, <1>13, <2>1
<1>14. CASE One(s) # y
  <2>1. h[One(s)] = f[One(s)] /\ (y \in s <=> y \in s \ {One(s)})
    BY <1>12, <1>14
  <2>2. QED
    BY <1>6, <1>10, <1>11, <1>12, <2>1
<1>15. QED
  BY <1>13, <1>14

-----------------------------------------------------------------------------
(* Sums over different sets.                                               *)

\* The sums over the subsets are those that each subset has of its own.
LEMMA SumOfSubset ==
  ASSUME NEW S, IsFiniteSet(S), NEW f, NEW g, Adds(g, f, S), NEW T \in SUBSET S
  PROVE  Total(f, T) = g[T]
<1>1. IsFiniteSet(T)
  BY FS_Subset
<1>2. PICK k : Adds(k, f, T)
  BY <1>1, SumIsOne
<1> DEFINE Bad == {n \in Nat : \E s \in SUBSET T : Cardinality(s) = n /\ k[s] # g[s]}
<1>3. SUFFICES ASSUME k[T] # g[T] PROVE FALSE
  BY <1>2 DEF Adds
<1>4. Bad # {}
  <2>1. T \in SUBSET T /\ Cardinality(T) \in Nat
    BY <1>1, FS_CardinalityType
  <2>2. QED
    BY <1>3, <2>1
<1>5. PICK n \in Bad : \A m \in Bad : n <= m
  BY <1>4, Least
<1>6. PICK s \in SUBSET T : Cardinality(s) = n /\ k[s] # g[s]
  BY <1>5
<1>7. s \in SUBSET S
  BY <1>6
<1>8. s # {}
  BY <1>2, <1>6, <1>7 DEF Adds
<1>9. /\ One(s) \in s /\ s \ {One(s)} \in SUBSET T
      /\ n - 1 \in Nat /\ Cardinality(s \ {One(s)}) = n - 1
  BY <1>1, <1>6, <1>8, Smaller
<1>10. n - 1 \notin Bad
  BY <1>5, <1>9
<1>11. k[s \ {One(s)}] = g[s \ {One(s)}]
  BY <1>9, <1>10
<1>12. k[s] = f[One(s)] + k[s \ {One(s)}] /\ g[s] = f[One(s)] + g[s \ {One(s)}]
  BY <1>2, <1>6, <1>7, <1>8 DEF Adds
<1>13. QED
  BY <1>6, <1>11, <1>12

LEMMA Removed == ASSUME NEW S, IsFiniteSet(S), NEW y \in S
                 PROVE  IsFiniteSet(S \ {y}) /\ Cardinality(S \ {y}) = Cardinality(S) - 1 /\ Cardinality(S \ {y}) \in Nat
<1>1. IsFiniteSet(S \ {y}) /\ Cardinality(S \ {y}) = Cardinality(S) - 1
  BY FS_RemoveElement
<1>2. QED
  BY <1>1, FS_CardinalityType

\* Any element may be taken out of a sum.
LEMMA SumTakesOne ==
  ASSUME NEW S, IsFiniteSet(S), NEW f, \A x \in S : f[x] \in Int, NEW y \in S
  PROVE  Total(f, S) = f[y] + Total(f, S \ {y})
<1>1. PICK g : Adds(g, f, S)
  BY SumIsOne
<1> DEFINE Good(s) == \A x \in s : g[s] = f[x] + g[s \ {x}]
           Bad == {n \in Nat : \E s \in SUBSET S : Cardinality(s) = n /\ ~Good(s)}
<1>2. \A s \in SUBSET S : g[s] \in Int
  <2>1. SUFFICES ASSUME NEW s \in SUBSET S PROVE Total(f, s) \in Int
    BY <1>1, SumOfSubset
  <2>2. IsFiniteSet(s) /\ Additive(Int) /\ \A x \in s : f[x] \in Int
    BY FS_Subset DEF Additive
  <2>3. QED
    BY <2>2, SumIsIn
<1>3. Total(f, S) = g[S] /\ Total(f, S \ {y}) = g[S \ {y}]
  BY <1>1, SumOfSubset
<1>4. SUFFICES ASSUME ~Good(S) PROVE FALSE
  BY <1>3
<1>5. Bad # {}
  <2>1. S \in SUBSET S /\ Cardinality(S) \in Nat
    BY FS_CardinalityType
  <2>2. QED
    BY <1>4, <2>1
<1>6. PICK n \in Bad : \A m \in Bad : n <= m
  BY <1>5, Least
<1>7. PICK s \in SUBSET S : Cardinality(s) = n /\ ~Good(s)
  BY <1>6
<1>8. PICK x \in s : g[s] # f[x] + g[s \ {x}]
  BY <1>7
<1>9. PICK z \in s : g[s] = f[z] + g[s \ {z}]
  BY <1>1, <1>7, <1>8, Smaller DEF Adds
<1>10. z # x
  BY <1>8, <1>9
<1>11. ASSUME NEW w \in s
       PROVE  s \ {w} \in SUBSET S /\ Good(s \ {w})
  <2>1. IsFiniteSet(s)
    BY FS_Subset
  <2>2. Cardinality(s \ {w}) = Cardinality(s) - 1 /\ Cardinality(s \ {w}) \in Nat
    BY <2>1, Removed
  <2>3. n - 1 \in Nat /\ Cardinality(s \ {w}) = n - 1
    BY <1>7, <2>2
  <2>4. n - 1 \notin Bad
    BY <1>6, <2>3
  <2>5. QED
    BY <2>3, <2>4
<1>12. g[s \ {z}] = f[x] + g[(s \ {z}) \ {x}]
  BY <1>9, <1>10, <1>11
<1>13. g[s \ {x}] = f[z] + g[(s \ {x}) \ {z}]
  BY <1>9, <1>10, <1>11
<1>14. (s \ {z}) \ {x} = (s \ {x}) \ {z}
  OBVIOUS
<1>15. f[x] \in Int /\ f[z] \in Int /\ g[(s \ {x}) \ {z}] \in Int
  BY <1>2, <1>9
<1>16. g[s] = f[z] + (f[x] + g[(s \ {x}) \ {z}])
  BY <1>9, <1>12, <1>14
<1>17. f[z] + (f[x] + g[(s \ {x}) \ {z}]) = f[x] + (f[z] + g[(s \ {x}) \ {z}])
  <2> HIDE DEF Good, Bad
  <2>1. \A a, b, c \in Int : a + (b + c) = b + (a + c)
    OBVIOUS
  <2>2. QED
    BY <1>15, <2>1, Zenon
<1>18. QED
  BY <1>8, <1>13, <1>16, <1>17, Zenon

LEMMA SumOfInt == ASSUME NEW S, IsFiniteSet(S), NEW f, \A x \in S : f[x] \in Int
                  PROVE  Total(f, S) \in Int
<1>1. Additive(Int)
  BY DEF Additive
<1>2. QED
  BY <1>1, SumIsIn

\* A sum of sums that agree.
LEMMA SumNeedsOnly ==
  ASSUME NEW S, IsFiniteSet(S), NEW f, NEW h, \A x \in S : f[x] = h[x]
  PROVE  Total(f, S) = Total(h, S)
<1>1. PICK g : Adds(g, f, S)
  BY SumIsOne
<1>2. \A s \in SUBSET S : s # {} => One(s) \in S
  BY DEF One
<1>3. Adds(g, h, S)
  <2>1. PICK k : Adds(k, h, S)
    BY SumIsOne
  <2>2. \A s \in SUBSET S : g[s] = IF s = {} THEN 0 ELSE h[One(s)] + g[s \ {One(s)}]
    BY <1>1, <1>2 DEF Adds
  <2> DEFINE Bad == {n \in Nat : \E s \in SUBSET S : Cardinality(s) = n /\ k[s] # g[s]}
  <2>3. SUFFICES ASSUME k[S] # g[S] PROVE FALSE
    BY <2>1, <2>2 DEF Adds
  <2>4. Bad # {}
    <3>1. S \in SUBSET S /\ Cardinality(S) \in Nat
      BY FS_CardinalityType
    <3>2. QED
      BY <2>3, <3>1
  <2>5. PICK n \in Bad : \A m \in Bad : n <= m
    BY <2>4, Least
  <2>6. PICK s \in SUBSET S : Cardinality(s) = n /\ k[s] # g[s]
    BY <2>5
  <2>7. s # {}
    BY <2>1, <2>2, <2>6 DEF Adds
  <2>8. /\ One(s) \in s /\ s \ {One(s)} \in SUBSET S
        /\ n - 1 \in Nat /\ Cardinality(s \ {One(s)}) = n - 1
    BY <2>6, <2>7, Smaller
  <2>9. k[s \ {One(s)}] = g[s \ {One(s)}]
    BY <2>5, <2>8
  <2>10. k[s] = h[One(s)] + k[s \ {One(s)}] /\ g[s] = h[One(s)] + g[s \ {One(s)}]
    BY <2>1, <2>2, <2>6, <2>7 DEF Adds
  <2>11. QED
    BY <2>6, <2>9, <2>10
<1>4. QED
  BY <1>1, <1>3 DEF Adds

\* The larger summands have the larger sum.
LEMMA SumOfLarger ==
  ASSUME NEW S, IsFiniteSet(S), NEW f, NEW h, \A x \in S : f[x] \in Nat /\ h[x] \in Nat /\ f[x] <= h[x]
  PROVE  Total(f, S) <= Total(h, S)
<1> DEFINE Good(s) == Total(f, s) \in Nat /\ Total(h, s) \in Nat /\ Total(f, s) <= Total(h, s)
           Bad == {n \in Nat : \E s \in SUBSET S : Cardinality(s) = n /\ ~Good(s)}
<1>1. SUFFICES ASSUME ~Good(S) PROVE FALSE
  OBVIOUS
<1>2. Bad # {}
  <2>1. S \in SUBSET S /\ Cardinality(S) \in Nat
    BY FS_CardinalityType
  <2>2. QED
    BY <1>1, <2>1
<1>3. PICK n \in Bad : \A m \in Bad : n <= m
  BY <1>2, Least
<1>4. PICK s \in SUBSET S : Cardinality(s) = n /\ ~Good(s)
  BY <1>3
<1>5. IsFiniteSet(s)
  BY FS_Subset
<1>6. CASE s = {}
  <2>1. Total(f, s) = 0 /\ Total(h, s) = 0
    BY <1>5, <1>6, SumIsZero
  <2>2. QED
    BY <1>4, <2>1
<1>7. CASE s # {}
  <2>1. PICK y \in s : TRUE
    BY <1>7
  <2>2. Cardinality(s \ {y}) = n - 1 /\ n - 1 \in Nat
    BY <1>4, <1>5, Removed
  <2>3. Good(s \ {y})
    BY <1>3, <2>2
  <2>4. \A x \in s : f[x] \in Int /\ h[x] \in Int
    OBVIOUS
  <2>5. Total(f, s) = f[y] + Total(f, s \ {y}) /\ Total(h, s) = h[y] + Total(h, s \ {y})
    BY <1>5, <2>4, SumTakesOne
  <2>6. f[y] \in Nat /\ h[y] \in Nat /\ f[y] <= h[y]
    OBVIOUS
  <2>7. QED
    BY <1>4, <2>3, <2>5, <2>6
<1>8. QED
  BY <1>6, <1>7

\* Beyond its domain a sum gets what is added to it.
LEMMA SumAddsOne ==
  ASSUME NEW S, IsFiniteSet(S), NEW f, NEW y, y \notin S, \A x \in S \cup {y} : f[x] \in Int
  PROVE  Total(f, S \cup {y}) = f[y] + Total(f, S)
<1>1. IsFiniteSet(S \cup {y}) /\ y \in S \cup {y} /\ (S \cup {y}) \ {y} = S
  BY FS_AddElement
<1>2. QED
  BY <1>1, SumTakesOne
=============================================================================
