------------------------------ MODULE DataLemmas ------------------------------
(* What the operators on data compute that the proofs keep needing.  The sum of *)
(* a function over a finite set (SumFunctionOnSet of the community modules)     *)
(* does not depend on the order in which it is taken, and follows an update of  *)
(* the function or of the set.  A filtered list (Only) holds what was to be     *)
(* kept and nothing twice that was not there twice; joined lists are a list.    *)
EXTENDS Integers, Sequences, FiniteSets, Functions, SequencesExt, Lists,
        FiniteSetTheorems, TLAPS

(* One element of a set that is not empty: the one the recursion takes next. *)
Pick(s) == CHOOSE x \in s : TRUE

(* The function by which the sum of f over S is defined, and its domain D. *)
Recurses(g, f, D) ==
    g = [s \in D |-> IF s = {} THEN 0 ELSE f[Pick(s)] + g[s \ {Pick(s)}]]

-------------------------------------------------------------------------------
(* The recursion has a solution *)

(* Of a collection of finite sets one has no other of them below it. *)
LEMMA SmallestSet ==
    ASSUME NEW C, C # {}, \A s \in C : IsFiniteSet(s)
    PROVE  \E s \in C : \A t \in C : t \subseteq s => t = s
<1> DEFINE U == UNION C
<1>1. C \subseteq FiniteSubsetsOf(U)
  BY DEF FiniteSubsetsOf
<1>2. PICK s \in C : \A t \in C : ~(<<t, s>> \in StrictSubsetOrdering(U))
  <2> HIDE DEF U
  <2> QED BY <1>1, FS_StrictSubsetOrderingWellFounded, WFMin
<1>3. \A t \in C : t \in SUBSET U
  OBVIOUS
<1>4. ASSUME NEW t \in C, t \subseteq s, t # s
      PROVE  FALSE
  BY <1>2, <1>3, <1>4 DEF StrictSubsetOrdering
<1> QED BY <1>4

LEMMA PickType ==
    ASSUME NEW s, s # {}
    PROVE  Pick(s) \in s
BY DEF Pick

(* Two solutions agree where their domains and their functions do. *)
LEMMA SolutionsAgree ==
    ASSUME NEW f, NEW g, NEW S, NEW T, NEW a, NEW b,
           Recurses(a, f, SUBSET S), Recurses(b, g, SUBSET T),
           NEW U, U \subseteq S, U \subseteq T, IsFiniteSet(U),
           \A x \in U : f[x] = g[x]
    PROVE  a[U] = b[U]
<1> DEFINE Bad == {s \in SUBSET U : a[s] # b[s]}
<1> SUFFICES ASSUME Bad # {}
             PROVE  FALSE
  OBVIOUS
<1>1. \A s \in Bad : IsFiniteSet(s)
  BY FS_Subset
<1>2. PICK s \in Bad : \A t \in Bad : t \subseteq s => t = s
  <2> HIDE DEF Bad
  <2> QED BY <1>1, SmallestSet
<1>3. s \in SUBSET U /\ a[s] # b[s]
  OBVIOUS
<1>4. s \in SUBSET S /\ s \in SUBSET T
  BY <1>3
<1>5. /\ a[s] = IF s = {} THEN 0 ELSE f[Pick(s)] + a[s \ {Pick(s)}]
      /\ b[s] = IF s = {} THEN 0 ELSE g[Pick(s)] + b[s \ {Pick(s)}]
  BY <1>4 DEF Recurses
<1>6. s # {}
  BY <1>3, <1>5
<1>7. Pick(s) \in s /\ Pick(s) \in U
  BY <1>3, <1>6, PickType
<1>8. s \ {Pick(s)} \notin Bad
  BY <1>2, <1>7
<1>9. a[s \ {Pick(s)}] = b[s \ {Pick(s)}]
  BY <1>3, <1>8
<1> QED BY <1>3, <1>5, <1>6, <1>7, <1>9

(* The sets with at most k elements. *)
UpTo(S, k) == {s \in SUBSET S : Cardinality(s) <= k}

LEMMA SolutionUpTo ==
    ASSUME NEW f, NEW S, IsFiniteSet(S), NEW n \in Nat
    PROVE  \E g : Recurses(g, f, UpTo(S, n))
<1> DEFINE Bad == {k \in Nat : ~\E g : Recurses(g, f, UpTo(S, k))}
           Below == {1..k : k \in Bad}
<1> SUFFICES ASSUME Bad # {}
             PROVE  FALSE
  OBVIOUS
<1>1. Below # {} /\ \A s \in Below : IsFiniteSet(s)
  BY FS_Interval
<1>2. PICK B \in Below : \A t \in Below : t \subseteq B => t = B
  <2> HIDE DEF Below
  <2> QED BY <1>1, SmallestSet
<1>3. PICK k \in Bad : B = 1..k
  OBVIOUS
<1>4. k \in Nat /\ ~\E g : Recurses(g, f, UpTo(S, k))
  OBVIOUS
<1>5. \A s \in SUBSET S : IsFiniteSet(s) /\ Cardinality(s) \in Nat
  BY FS_Subset, FS_CardinalityType
<1>6. k # 0
  <2> SUFFICES ASSUME k = 0
               PROVE  FALSE
    OBVIOUS
  <2> DEFINE g == [s \in UpTo(S, 0) |-> 0]
  <2>1. \A s \in UpTo(S, 0) : s = {}
    BY <1>5, FS_EmptySet DEF UpTo
  <2>2. g = [s \in UpTo(S, 0) |-> IF s = {} THEN 0 ELSE f[Pick(s)] + g[s \ {Pick(s)}]]
    BY <2>1
  <2>3. Recurses(g, f, UpTo(S, 0))
    BY <2>2 DEF Recurses
  <2> QED BY <1>4, <2>3
<1>7. PICK h : Recurses(h, f, UpTo(S, k - 1))
  <2>1. k - 1 \in Nat
    BY <1>4, <1>6
  <2>2. 1..(k - 1) \subseteq 1..k /\ k \in 1..k /\ k \notin 1..(k - 1)
    BY <1>4, <1>6
  <2>3. k - 1 \notin Bad
    BY <1>2, <1>3, <2>2
  <2> QED BY <2>1, <2>3
<1> DEFINE G == [s \in UpTo(S, k) |->
                   IF s = {} THEN 0 ELSE f[Pick(s)] + h[s \ {Pick(s)}]]
<1>8. \A s \in UpTo(S, k - 1) : s \in UpTo(S, k)
  BY <1>4, <1>5 DEF UpTo
<1>9. \A s \in UpTo(S, k - 1) : h[s] = G[s]
  <2> TAKE s \in UpTo(S, k - 1)
  <2>1. h[s] = IF s = {} THEN 0 ELSE f[Pick(s)] + h[s \ {Pick(s)}]
    BY <1>7 DEF Recurses
  <2> QED BY <1>8, <2>1
<1>10. \A s \in UpTo(S, k) : s # {} => s \ {Pick(s)} \in UpTo(S, k - 1)
  <2> TAKE s \in UpTo(S, k)
  <2> HAVE s # {}
  <2>1. s \in SUBSET S /\ Cardinality(s) <= k /\ IsFiniteSet(s) /\ Cardinality(s) \in Nat
    BY <1>5 DEF UpTo
  <2>2. Pick(s) \in s
    BY PickType
  <2>3. Cardinality(s \ {Pick(s)}) = Cardinality(s) - 1
    BY <2>1, <2>2, FS_RemoveElement
  <2> QED BY <1>4, <2>1, <2>3 DEF UpTo
<1>11. G = [s \in UpTo(S, k) |-> IF s = {} THEN 0 ELSE f[Pick(s)] + G[s \ {Pick(s)}]]
  BY <1>9, <1>10
<1>12. Recurses(G, f, UpTo(S, k))
  <2> HIDE DEF G
  <2> QED BY <1>11 DEF Recurses
<1> QED BY <1>4, <1>12

(* So the sum over a finite set is what a solution says of it. *)
LEMMA SumByRecursion ==
    ASSUME NEW f, NEW S, IsFiniteSet(S)
    PROVE  \E g : Recurses(g, f, SUBSET S) /\ SumFunctionOnSet(f, S) = g[S]
<1> DEFINE it == CHOOSE g : Recurses(g, f, SUBSET S)
<1>1. UpTo(S, Cardinality(S)) = SUBSET S /\ Cardinality(S) \in Nat
  BY FS_Subset, FS_CardinalityType DEF UpTo
<1>2. \E g : Recurses(g, f, SUBSET S)
  <2>1. PICK n \in Nat : n = Cardinality(S)
    BY <1>1
  <2>2. \E g : Recurses(g, f, UpTo(S, n))
    BY SolutionUpTo
  <2> QED BY <1>1, <2>1, <2>2
<1>3. Recurses(it, f, SUBSET S)
  BY <1>2
<1>4. SumFunctionOnSet(f, S) = it[S]
  BY DEF Recurses, Pick, SumFunctionOnSet, FoldFunctionOnSet, MapThenFoldSet
<1> QED BY <1>3, <1>4

-------------------------------------------------------------------------------
(* What the sum is *)

LEMMA SumEmpty ==
    ASSUME NEW f
    PROVE  SumFunctionOnSet(f, {}) = 0
<1>1. PICK g : Recurses(g, f, SUBSET {}) /\ SumFunctionOnSet(f, {}) = g[{}]
  BY FS_EmptySet, SumByRecursion
<1> QED BY <1>1 DEF Recurses

(* Only the values on the set count. *)
LEMMA SumEqual ==
    ASSUME NEW f, NEW g, NEW S, IsFiniteSet(S), \A x \in S : f[x] = g[x]
    PROVE  SumFunctionOnSet(f, S) = SumFunctionOnSet(g, S)
<1>1. PICK a : Recurses(a, f, SUBSET S) /\ SumFunctionOnSet(f, S) = a[S]
  BY SumByRecursion
<1>2. PICK b : Recurses(b, g, SUBSET S) /\ SumFunctionOnSet(g, S) = b[S]
  BY SumByRecursion
<1>3. a[S] = b[S]
  BY <1>1, <1>2, SolutionsAgree
<1> QED BY <1>1, <1>2, <1>3

LEMMA SumPick ==
    ASSUME NEW f, NEW S, IsFiniteSet(S), S # {}
    PROVE  SumFunctionOnSet(f, S) = f[Pick(S)] + SumFunctionOnSet(f, S \ {Pick(S)})
<1> DEFINE R == S \ {Pick(S)}
<1>1. PICK a : Recurses(a, f, SUBSET S) /\ SumFunctionOnSet(f, S) = a[S]
  BY SumByRecursion
<1>2. IsFiniteSet(R)
  BY FS_RemoveElement
<1>3. PICK b : Recurses(b, f, SUBSET R) /\ SumFunctionOnSet(f, R) = b[R]
  BY <1>2, SumByRecursion
<1>4. a[S] = f[Pick(S)] + a[R]
  BY <1>1 DEF Recurses
<1>5. R \subseteq S /\ \A x \in R : f[x] = f[x]
  OBVIOUS
<1>6. a[R] = b[R]
  <2> HIDE DEF R
  <2> QED BY <1>1, <1>2, <1>3, <1>5, SolutionsAgree
<1> QED BY <1>1, <1>3, <1>4, <1>6

LEMMA SumType ==
    ASSUME NEW f, NEW S, IsFiniteSet(S), \A x \in S : f[x] \in Int
    PROVE  SumFunctionOnSet(f, S) \in Int
<1> DEFINE Bad == {s \in SUBSET S : SumFunctionOnSet(f, s) \notin Int}
<1> SUFFICES ASSUME Bad # {}
             PROVE  FALSE
  OBVIOUS
<1>1. \A s \in Bad : IsFiniteSet(s)
  BY FS_Subset
<1>2. PICK s \in Bad : \A t \in Bad : t \subseteq s => t = s
  <2> HIDE DEF Bad
  <2> QED BY <1>1, SmallestSet
<1>3. IsFiniteSet(s) /\ s # {}
  BY <1>1, SumEmpty
<1>4. Pick(s) \in s
  BY <1>3, PickType
<1>5. SumFunctionOnSet(f, s) = f[Pick(s)] + SumFunctionOnSet(f, s \ {Pick(s)})
  BY <1>3, SumPick
<1>6. SumFunctionOnSet(f, s \ {Pick(s)}) \in Int
  BY <1>2, <1>4
<1> QED BY <1>4, <1>5, <1>6

(* Any element may be taken out first. *)
LEMMA SumRemove ==
    ASSUME NEW f, NEW S, IsFiniteSet(S), \A x \in S : f[x] \in Int, NEW z \in S
    PROVE  SumFunctionOnSet(f, S) = f[z] + SumFunctionOnSet(f, S \ {z})
<1> DEFINE Sum(s) == SumFunctionOnSet(f, s)
           Bad == {s \in SUBSET S : \E x \in s : Sum(s) # f[x] + Sum(s \ {x})}
<1> SUFFICES ASSUME Bad # {}
             PROVE  FALSE
  OBVIOUS
<1>1. \A s \in SUBSET S : IsFiniteSet(s)
  BY FS_Subset
<1>2. PICK s \in Bad : \A t \in Bad : t \subseteq s => t = s
  <2>1. \A t \in Bad : IsFiniteSet(t)
    BY <1>1
  <2> HIDE DEF Bad
  <2> QED BY <2>1, SmallestSet
<1>3. PICK x \in s : Sum(s) # f[x] + Sum(s \ {x})
  OBVIOUS
<1> DEFINE y == Pick(s)
<1>4. s \in SUBSET S /\ s # {} /\ IsFiniteSet(s) /\ y \in s
  BY <1>1, <1>3, PickType
<1>5. Sum(s) = f[y] + Sum(s \ {y})
  BY <1>4, SumPick
<1>6. y # x
  BY <1>3, <1>5
<1>7. Sum(s \ {y}) = f[x] + Sum((s \ {y}) \ {x})
  <2>1. s \ {y} \notin Bad /\ s \ {y} \in SUBSET S /\ x \in s \ {y}
    BY <1>2, <1>3, <1>4, <1>6
  <2> QED BY <2>1
<1>8. Sum(s \ {x}) = f[y] + Sum((s \ {x}) \ {y})
  <2>1. s \ {x} \notin Bad /\ s \ {x} \in SUBSET S /\ y \in s \ {x}
    BY <1>2, <1>3, <1>4, <1>6
  <2> QED BY <2>1
<1>9. (s \ {y}) \ {x} = (s \ {x}) \ {y}
  OBVIOUS
<1>10. f[x] \in Int /\ f[y] \in Int /\ Sum((s \ {x}) \ {y}) \in Int
  <2>1. IsFiniteSet((s \ {x}) \ {y}) /\ \A u \in (s \ {x}) \ {y} : f[u] \in Int
    BY <1>1, <1>4
  <2>2. Sum((s \ {x}) \ {y}) \in Int
    BY <2>1, SumType
  <2> QED BY <1>3, <1>4, <2>2
<1>11. PICK q \in Int : q = Sum((s \ {x}) \ {y})
  BY <1>10
<1>12. Sum(s) = f[y] + (f[x] + q)
  BY <1>5, <1>7, <1>9, <1>11
<1>13. Sum(s \ {x}) = f[y] + q
  BY <1>8, <1>11
<1>14. f[y] + (f[x] + q) = f[x] + (f[y] + q)
  BY <1>10
<1>15. Sum(s) = f[x] + Sum(s \ {x})
  BY <1>12, <1>13, <1>14
<1> QED BY <1>3, <1>15

(* An element more. *)
LEMMA SumAdd ==
    ASSUME NEW f, NEW S, IsFiniteSet(S), NEW z, z \notin S,
           \A x \in S \union {z} : f[x] \in Int
    PROVE  SumFunctionOnSet(f, S \union {z}) = SumFunctionOnSet(f, S) + f[z]
<1> DEFINE T == S \union {z}
<1>1. IsFiniteSet(T) /\ z \in T /\ T \ {z} = S
  BY FS_AddElement
<1>2. SumFunctionOnSet(f, T) = f[z] + SumFunctionOnSet(f, T \ {z})
  BY <1>1, SumRemove
<1>3. SumFunctionOnSet(f, S) \in Int /\ f[z] \in Int
  BY SumType
<1>4. SumFunctionOnSet(f, T) = f[z] + SumFunctionOnSet(f, S)
  BY <1>1, <1>2
<1>5. SumFunctionOnSet(f, T) = SumFunctionOnSet(f, S) + f[z]
  BY <1>3, <1>4
<1> QED BY <1>5

(* A function that differs at one element. *)
LEMMA SumUpdate ==
    ASSUME NEW f, NEW g, NEW S, IsFiniteSet(S), NEW z \in S,
           \A x \in S : f[x] \in Int /\ g[x] \in Int,
           \A x \in S : x # z => g[x] = f[x]
    PROVE  SumFunctionOnSet(g, S) = SumFunctionOnSet(f, S) - f[z] + g[z]
<1>1. SumFunctionOnSet(f, S) = f[z] + SumFunctionOnSet(f, S \ {z})
  BY SumRemove
<1>2. SumFunctionOnSet(g, S) = g[z] + SumFunctionOnSet(g, S \ {z})
  BY SumRemove
<1>3. IsFiniteSet(S \ {z})
  BY FS_RemoveElement
<1>4. SumFunctionOnSet(g, S \ {z}) = SumFunctionOnSet(f, S \ {z})
  BY <1>3, SumEqual
<1>5. SumFunctionOnSet(f, S \ {z}) \in Int
  BY <1>3, SumType
<1> QED BY <1>1, <1>2, <1>4, <1>5

(* Larger terms, larger sum. *)
LEMMA SumMonotone ==
    ASSUME NEW f, NEW g, NEW S, IsFiniteSet(S),
           \A x \in S : f[x] \in Int /\ g[x] \in Int /\ f[x] <= g[x]
    PROVE  SumFunctionOnSet(f, S) <= SumFunctionOnSet(g, S)
<1> DEFINE Bad == {s \in SUBSET S : ~(SumFunctionOnSet(f, s) <= SumFunctionOnSet(g, s))}
<1> SUFFICES ASSUME Bad # {}
             PROVE  FALSE
  OBVIOUS
<1>1. \A s \in Bad : IsFiniteSet(s)
  BY FS_Subset
<1>2. PICK s \in Bad : \A t \in Bad : t \subseteq s => t = s
  <2> HIDE DEF Bad
  <2> QED BY <1>1, SmallestSet
<1>3. IsFiniteSet(s) /\ s # {}
  BY <1>1, SumEmpty
<1>4. Pick(s) \in s /\ IsFiniteSet(s \ {Pick(s)})
  BY <1>3, PickType, FS_RemoveElement
<1>5. /\ SumFunctionOnSet(f, s) = f[Pick(s)] + SumFunctionOnSet(f, s \ {Pick(s)})
      /\ SumFunctionOnSet(g, s) = g[Pick(s)] + SumFunctionOnSet(g, s \ {Pick(s)})
  BY <1>3, SumPick
<1>6. SumFunctionOnSet(f, s \ {Pick(s)}) <= SumFunctionOnSet(g, s \ {Pick(s)})
  BY <1>2, <1>4
<1>7. /\ SumFunctionOnSet(f, s \ {Pick(s)}) \in Int
      /\ SumFunctionOnSet(g, s \ {Pick(s)}) \in Int
  BY <1>4, SumType
<1>8. f[Pick(s)] \in Int /\ g[Pick(s)] \in Int /\ f[Pick(s)] <= g[Pick(s)]
  BY <1>4
<1> QED BY <1>5, <1>6, <1>7, <1>8

(* A common factor comes out of the sum. *)
LEMMA SumTimes ==
    ASSUME NEW f, NEW g, NEW S, IsFiniteSet(S), NEW c \in Int,
           \A x \in S : f[x] \in Int /\ g[x] = c * f[x]
    PROVE  SumFunctionOnSet(g, S) = c * SumFunctionOnSet(f, S)
<1> DEFINE Bad == {s \in SUBSET S : SumFunctionOnSet(g, s) # c * SumFunctionOnSet(f, s)}
<1> SUFFICES ASSUME Bad # {}
             PROVE  FALSE
  OBVIOUS
<1>1. \A s \in Bad : IsFiniteSet(s)
  BY FS_Subset
<1>2. PICK s \in Bad : \A t \in Bad : t \subseteq s => t = s
  <2> HIDE DEF Bad
  <2> QED BY <1>1, SmallestSet
<1>3. IsFiniteSet(s) /\ s # {}
  <2>1. SumFunctionOnSet(g, {}) = c * SumFunctionOnSet(f, {})
    BY SumEmpty
  <2> QED BY <1>1, <2>1
<1>4. Pick(s) \in s /\ IsFiniteSet(s \ {Pick(s)})
  BY <1>3, PickType, FS_RemoveElement
<1>5. /\ SumFunctionOnSet(f, s) = f[Pick(s)] + SumFunctionOnSet(f, s \ {Pick(s)})
      /\ SumFunctionOnSet(g, s) = g[Pick(s)] + SumFunctionOnSet(g, s \ {Pick(s)})
  BY <1>3, SumPick
<1>6. SumFunctionOnSet(g, s \ {Pick(s)}) = c * SumFunctionOnSet(f, s \ {Pick(s)})
  BY <1>2, <1>4
<1>7. SumFunctionOnSet(f, s \ {Pick(s)}) \in Int
  BY <1>4, SumType
<1>8. f[Pick(s)] \in Int /\ g[Pick(s)] = c * f[Pick(s)]
  BY <1>4
<1>9. \A m, n \in Int : c * (m + n) = c * m + c * n
  OBVIOUS
<1>10. SumFunctionOnSet(g, s) = c * SumFunctionOnSet(f, s)
  BY <1>5, <1>6, <1>7, <1>8, <1>9
<1> QED BY <1>10

(* A list that grows by one entry. *)
LEMMA SumLonger ==
    ASSUME NEW n \in Nat, NEW f, NEW g,
           DOMAIN f = 1..n, DOMAIN g = 1..(n + 1),
           \A k \in 1..n : f[k] \in Int /\ g[k] = f[k],
           g[n + 1] \in Int
    PROVE  SumFunction(g) = SumFunction(f) + g[n + 1]
<1> DEFINE S == 1..n
<1>1. IsFiniteSet(S)
  BY FS_Interval
<1>2. n + 1 \notin S /\ 1..(n + 1) = S \union {n + 1}
  OBVIOUS
<1>3. /\ SumFunction(f) = SumFunctionOnSet(f, S)
      /\ SumFunction(g) = SumFunctionOnSet(g, S \union {n + 1})
  BY <1>2 DEF SumFunction
<1>4. \A k \in S : f[k] \in Int /\ g[k] \in Int /\ f[k] = g[k]
  OBVIOUS
<1> HIDE DEF S
<1>5. SumFunctionOnSet(f, S) = SumFunctionOnSet(g, S)
  BY <1>1, <1>4, SumEqual
<1>6. \A k \in S \union {n + 1} : g[k] \in Int
  BY <1>4
<1>7. SumFunctionOnSet(g, S \union {n + 1}) = SumFunctionOnSet(g, S) + g[n + 1]
  BY <1>1, <1>2, <1>6, SumAdd
<1> QED BY <1>3, <1>5, <1>7

-------------------------------------------------------------------------------
(* Least numbers *)

(* A set of numbers has a least one. *)
LEMMA SmallestNumber ==
    ASSUME NEW B \in SUBSET Nat, B # {}
    PROVE  \E k \in B : \A j \in B : k <= j
<1> DEFINE Below == {1..k : k \in B}
<1>1. \A k \in Nat : IsFiniteSet(1..k)
  BY FS_Interval
<1>2. Below # {} /\ \A s \in Below : IsFiniteSet(s)
  BY <1>1
<1>3. PICK s \in Below : \A t \in Below : t \subseteq s => t = s
  <2> HIDE DEF Below
  <2> QED BY <1>2, SmallestSet
<1>4. PICK k \in B : s = 1..k
  OBVIOUS
<1>5. ASSUME NEW j \in B, j < k
      PROVE  FALSE
  <2>1. 1..j \subseteq 1..k /\ k \in 1..k /\ k \notin 1..j
    BY <1>5
  <2> QED BY <1>3, <1>4, <2>1
<1> QED BY <1>5

-------------------------------------------------------------------------------
(* Filtered lists *)

(* How many of the places in P come up to i. *)
RankIn(P, i) == Cardinality({j \in P : j <= i})

(* Counting off a finite set of numbers numbers them from 1. *)
LEMMA RankCounts ==
    ASSUME NEW P \in SUBSET Nat, IsFiniteSet(P)
    PROVE  /\ \A i \in P : RankIn(P, i) \in 1..Cardinality(P)
           /\ \A k \in 1..Cardinality(P) : \E i \in P : RankIn(P, i) = k
           /\ \A i, j \in P : RankIn(P, i) = RankIn(P, j) => i = j
           /\ \A i, j \in P : i < j => RankIn(P, i) < RankIn(P, j)
<1> DEFINE Upto(i) == {j \in P : j <= i}
           n == Cardinality(P)
           rank == [i \in P |-> RankIn(P, i)]
<1>1. n \in Nat
  BY FS_CardinalityType
<1>2. \A i \in P : RankIn(P, i) \in 1..n
  <2> TAKE i \in P
  <2>1. Upto(i) \in SUBSET P /\ Upto(i) # {}
    OBVIOUS
  <2>2. IsFiniteSet(Upto(i)) /\ Cardinality(Upto(i)) <= n
    BY <2>1, FS_Subset
  <2>3. Cardinality(Upto(i)) \in Nat /\ Cardinality(Upto(i)) # 0
    BY <2>1, <2>2, FS_CardinalityType, FS_EmptySet
  <2>4. RankIn(P, i) = Cardinality(Upto(i))
    BY DEF RankIn
  <2> HIDE DEF n, Upto
  <2> QED BY <1>1, <2>2, <2>3, <2>4
<1>3. ASSUME NEW i \in P, NEW j \in P, i < j
      PROVE  RankIn(P, i) < RankIn(P, j)
  <2>1. Upto(i) \in SUBSET Upto(j) /\ j \in Upto(j) /\ j \notin Upto(i)
    <3>1. \A k \in P : k \in Nat
      OBVIOUS
    <3>2. \A k \in P : k <= i => k <= j
      BY <1>3, <3>1
    <3>3. j <= j /\ ~(j <= i)
      BY <1>3, <3>1
    <3> QED BY <3>2, <3>3
  <2>2. IsFiniteSet(Upto(j))
    <3>1. Upto(j) \in SUBSET P
      OBVIOUS
    <3> QED BY <3>1, FS_Subset
  <2>3. /\ Cardinality(Upto(i)) # Cardinality(Upto(j))
        /\ Cardinality(Upto(i)) <= Cardinality(Upto(j))
    <3> HIDE DEF Upto
    <3> QED BY <2>1, <2>2, FS_Subset
  <2>4. RankIn(P, i) # RankIn(P, j) /\ RankIn(P, i) <= RankIn(P, j)
    BY <2>3 DEF RankIn
  <2> HIDE DEF n
  <2> QED BY <1>1, <1>2, <2>4
<1>4. \A i, j \in P : RankIn(P, i) = RankIn(P, j) => i = j
  <2> TAKE i, j \in P
  <2>1. i < j \/ j < i \/ i = j
    OBVIOUS
  <2>2. RankIn(P, i) \in Nat /\ RankIn(P, j) \in Nat
    <3> HIDE DEF n
    <3> QED BY <1>2
  <2> QED BY <1>3, <2>1, <2>2
<1>5. rank \in Injection(P, 1..n)
  <2> HIDE DEF n
  <2> QED BY <1>2, <1>4 DEF Injection, IsInjective
<1>6. IsFiniteSet(1..n) /\ Cardinality(1..n) = Cardinality(P)
  <2>1. PICK m \in Nat : m = n
    BY <1>1
  <2> QED BY <2>1, FS_Interval
<1>7. rank \in Surjection(P, 1..n)
  <2> HIDE DEF n, rank
  <2> QED BY <1>5, <1>6, FS_Injection
<1>8. \A k \in 1..n : \E i \in P : RankIn(P, i) = k
  <2> HIDE DEF n
  <2> QED BY <1>7 DEF Surjection
<1> QED BY <1>2, <1>3, <1>4, <1>8

(* The list L takes its entries from the places P of s, one from each: its k-th *)
(* from at[k].                                                                  *)
Picks(at, L, s, P) ==
    /\ at \in [1..Len(L) -> P]
    /\ \A k \in 1..Len(L) : L[k] = s[at[k]]
    /\ \A i \in P : \E k \in 1..Len(L) : at[k] = i

Ascends(at, n) == \A k, l \in 1..n : k < l => at[k] < at[l]

(* A filtered list takes its entries from the places to be kept, front to back  *)
(* and from each of them.                                                       *)
LEMMA OnlyPlaces ==
    ASSUME NEW T, NEW s \in Seq(T), NEW S, NEW L, L = Only(s, S),
           NEW P, P = {i \in DOMAIN s : s[i] \in S}
    PROVE  /\ L \in Seq(T)
           /\ \E at : Picks(at, L, s, P) /\ Ascends(at, Len(L))
<1> DEFINE At(k) == CHOOSE i \in P : RankIn(P, i) = k
           n == Cardinality(P)
           at == [k \in 1..n |-> At(k)]
<1>1. P \in SUBSET Nat /\ IsFiniteSet(P)
  <2>1. DOMAIN s = 1..Len(s) /\ Len(s) \in Nat
    OBVIOUS
  <2>2. IsFiniteSet(1..Len(s))
    BY <2>1, FS_Interval
  <2>3. P \in SUBSET (1..Len(s))
    BY <2>1
  <2> QED BY <2>1, <2>2, <2>3, FS_Subset
<1>2. n \in Nat
  BY <1>1, FS_CardinalityType
<1>3. L = [k \in 1..n |-> s[At(k)]]
  BY DEF Only, RankIn
<1>4. /\ \A i \in P : RankIn(P, i) \in 1..n
      /\ \A k \in 1..n : \E i \in P : RankIn(P, i) = k
      /\ \A i, j \in P : RankIn(P, i) = RankIn(P, j) => i = j
      /\ \A i, j \in P : i < j => RankIn(P, i) < RankIn(P, j)
  BY <1>1, RankCounts
<1>5. \A i \in P : i \in DOMAIN s /\ s[i] \in S /\ s[i] \in T
  OBVIOUS
<1> HIDE DEF n
<1>6. \A k \in 1..n : At(k) \in P /\ RankIn(P, At(k)) = k
  BY <1>4
<1>7. \A i \in P : At(RankIn(P, i)) = i
  BY <1>4
<1> HIDE DEF At
<1>8. L \in Seq(T) /\ Len(L) = n
  <2>1. \A k \in 1..n : s[At(k)] \in T
    BY <1>5, <1>6
  <2> QED BY <1>2, <1>3, <2>1
<1>9. at \in [1..n -> P] /\ \A k \in 1..n : L[k] = s[at[k]]
  BY <1>3, <1>6
<1>10. \A i \in P : \E k \in 1..n : at[k] = i
  BY <1>4, <1>7
<1>11. ASSUME NEW k \in 1..n, NEW l \in 1..n, k < l
       PROVE  at[k] < at[l]
  <2>1. PICK i, j : i = At(k) /\ j = At(l)
    OBVIOUS
  <2>2. i \in P /\ j \in P /\ RankIn(P, i) = k /\ RankIn(P, j) = l
    BY <1>6, <2>1
  <2>3. i \in Nat /\ j \in Nat
    BY <1>1, <2>2
  <2>4. ~(j < i) /\ i # j
    BY <1>4, <1>11, <2>2
  <2> QED BY <2>1, <2>3, <2>4
<1> HIDE DEF at
<1>12. Picks(at, L, s, P) /\ Ascends(at, Len(L))
  BY <1>8, <1>9, <1>10, <1>11 DEF Picks, Ascends
<1> QED BY <1>8, <1>12

(* The places at[1], ..., at[n] number those of P, and k and the d after it are  *)
(* for a and the d after that.                                                  *)
Numbers(at, n, P) ==
    /\ P \in SUBSET Nat /\ at \in [1..n -> P] /\ Ascends(at, n)
    /\ \A j \in P : \E k \in 1..n : at[k] = j

Whole(P, a, d) == \A j \in a..(a + d) : j \in P

Follow(at, n, k, a, d) == \A m \in 0..d : k + m \in 1..n /\ at[k + m] = a + m

(* Places that follow one another keep doing so when nothing between them is    *)
(* dropped.                                                                     *)
LEMMA Consecutive ==
    ASSUME NEW n \in Nat, NEW P, NEW at, Numbers(at, n, P), NEW k \in 1..n,
           NEW a, a = at[k], NEW d \in Nat, Whole(P, a, d)
    PROVE  Follow(at, n, k, a, d)
<1>0. /\ P \in SUBSET Nat /\ at \in [1..n -> P] /\ Ascends(at, n)
      /\ \A j \in P : \E x \in 1..n : at[x] = j
      /\ \A j \in a..(a + d) : j \in P
  BY DEF Numbers, Whole
<1> DEFINE Bad == {m \in 0..d : ~(k + m \in 1..n /\ at[k + m] = a + m)}
<1> SUFFICES ASSUME Bad # {}
             PROVE  FALSE
  BY DEF Follow
<1>1. Bad \in SUBSET Nat
  OBVIOUS
<1>2. PICK m \in Bad : \A j \in Bad : m <= j
  <2> HIDE DEF Bad
  <2> QED BY <1>1, SmallestNumber
<1>3. m \in 0..d /\ ~(k + m \in 1..n /\ at[k + m] = a + m)
  OBVIOUS
<1>4. a \in Nat
  BY <1>0
<1>5. m # 0
  BY <1>0, <1>3, <1>4
<1>6. PICK l : l = k + (m - 1)
  OBVIOUS
<1>7. l \in 1..n /\ at[l] = a + (m - 1)
  <2>1. m - 1 \in 0..d /\ ~(m <= m - 1)
    BY <1>3, <1>5
  <2>2. m - 1 \notin Bad
    BY <1>2, <2>1
  <2> QED BY <1>6, <2>1, <2>2
<1>8. a + m \in P
  BY <1>0, <1>3, <1>4
<1>9. PICK x \in 1..n : at[x] = a + m
  BY <1>0, <1>8
<1>10. l < x
  <2>1. ~(x < l)
    <3>1. Ascends(at, n) /\ ~(a + m < a + (m - 1))
      BY <1>0, <1>3, <1>4
    <3> QED BY <1>7, <1>9, <3>1 DEF Ascends
  <2>2. x # l
    BY <1>3, <1>4, <1>7, <1>9
  <2> QED BY <1>7, <1>9, <2>1, <2>2
<1>11. x = l + 1
  <2> SUFFICES ASSUME l + 1 < x
               PROVE  FALSE
    BY <1>7, <1>10
  <2>0. PICK y : y = l + 1
    OBVIOUS
  <2>1. y \in 1..n /\ l < y /\ y < x
    BY <1>7, <2>0
  <2>2. at[l] < at[y] /\ at[y] < at[x] /\ at[y] \in Nat
    BY <1>0, <1>7, <2>1 DEF Ascends
  <2> QED BY <1>3, <1>4, <1>7, <1>9, <2>2
<1> QED BY <1>3, <1>6, <1>7, <1>9, <1>11

LEMMA OnlyFacts ==
    ASSUME NEW T, NEW s \in Seq(T), NEW S
    PROVE  /\ Only(s, S) \in Seq(T)
           /\ ToSet(Only(s, S)) = ToSet(s) \cap S
           /\ \A k, l \in DOMAIN Only(s, S) :
                (\A i, j \in DOMAIN s : s[i] = s[j] => i = j)
                  => (Only(s, S)[k] = Only(s, S)[l] => k = l)
<1>0. PICK P : P = {i \in DOMAIN s : s[i] \in S}
  OBVIOUS
<1>1. PICK L : L = Only(s, S)
  OBVIOUS
<1>2. L \in Seq(T)
  BY <1>0, <1>1, OnlyPlaces
<1>3. PICK at : Picks(at, L, s, P) /\ Ascends(at, Len(L))
  BY <1>0, <1>1, OnlyPlaces
<1>4. DOMAIN L = 1..Len(L) /\ Len(L) \in Nat /\ \A i \in P : i \in DOMAIN s /\ i \in Nat
  BY <1>0, <1>2
<1>5. ToSet(L) = ToSet(s) \cap S
  <2>1. ASSUME NEW k \in 1..Len(L)
        PROVE  \E i \in DOMAIN s : L[k] = s[i] /\ s[i] \in S
    BY <1>0, <1>3 DEF Picks
  <2>2. ASSUME NEW i \in DOMAIN s, s[i] \in S
        PROVE  \E k \in 1..Len(L) : L[k] = s[i]
    BY <1>0, <1>3, <2>2 DEF Picks
  <2>3. ASSUME NEW x \in ToSet(L)
        PROVE  x \in ToSet(s) \cap S
    <3>1. PICK k \in 1..Len(L) : x = L[k]
      BY <1>4 DEF ToSet
    <3>2. PICK i \in DOMAIN s : x = s[i] /\ s[i] \in S
      BY <2>1, <3>1
    <3> QED BY <3>2 DEF ToSet
  <2>4. ASSUME NEW x \in ToSet(s) \cap S
        PROVE  x \in ToSet(L)
    <3>1. PICK i \in DOMAIN s : x = s[i]
      BY DEF ToSet
    <3>2. PICK k \in 1..Len(L) : L[k] = x
      BY <2>2, <3>1
    <3> QED BY <1>4, <3>2 DEF ToSet
  <2> QED BY <2>3, <2>4
<1>6. ASSUME \A i, j \in DOMAIN s : s[i] = s[j] => i = j,
             NEW k \in 1..Len(L), NEW l \in 1..Len(L), L[k] = L[l]
      PROVE  k = l
  <2>1. at[k] = at[l] /\ at[k] \in Nat
    BY <1>3, <1>4, <1>6 DEF Picks
  <2>2. ~(k < l) /\ ~(l < k)
    BY <1>3, <2>1 DEF Ascends
  <2> QED BY <2>2
<1>7. \A k, l \in DOMAIN L :
        (\A i, j \in DOMAIN s : s[i] = s[j] => i = j) => (L[k] = L[l] => k = l)
  BY <1>4, <1>6
<1> QED BY <1>1, <1>2, <1>5, <1>7, Zenon

-------------------------------------------------------------------------------
(* Joined lists *)

(* How FlattenSeq joins the lists up to the k-th. *)
Joins(g, seqs, k) ==
    g = [i \in 1..k |-> IF i = 1 THEN seqs[i] ELSE g[i - 1] \o seqs[i]]

LEMMA JoinsUpTo ==
    ASSUME NEW seqs, NEW n \in Nat
    PROVE  \E g : Joins(g, seqs, n)
<1> DEFINE Bad == {k \in Nat : ~\E g : Joins(g, seqs, k)}
<1> SUFFICES ASSUME Bad # {}
             PROVE  FALSE
  OBVIOUS
<1>1. Bad \in SUBSET Nat
  OBVIOUS
<1>2. PICK k \in Bad : \A j \in Bad : k <= j
  <2> HIDE DEF Bad
  <2> QED BY <1>1, SmallestNumber
<1>4. k \in Nat /\ ~\E g : Joins(g, seqs, k)
  OBVIOUS
<1>5. k # 0
  <2> SUFFICES ASSUME k = 0
               PROVE  FALSE
    OBVIOUS
  <2> DEFINE g == [i \in 1..0 |-> 0]
  <2>1. g = [i \in 1..0 |-> IF i = 1 THEN seqs[i] ELSE g[i - 1] \o seqs[i]]
    OBVIOUS
  <2>2. Joins(g, seqs, 0)
    BY <2>1 DEF Joins
  <2> QED BY <1>4, <2>2
<1>6. PICK h : Joins(h, seqs, k - 1)
  <2>1. k - 1 \in Nat
    BY <1>4, <1>5
  <2>2. k - 1 \notin Bad
    BY <1>2, <1>4
  <2> QED BY <2>1, <2>2
<1> DEFINE G == [i \in 1..k |-> IF i = 1 THEN seqs[i] ELSE h[i - 1] \o seqs[i]]
<1>7. \A i \in 1..(k - 1) : h[i] = G[i]
  <2> TAKE i \in 1..(k - 1)
  <2>1. h[i] = IF i = 1 THEN seqs[i] ELSE h[i - 1] \o seqs[i]
    BY <1>6 DEF Joins
  <2>2. i \in 1..k
    BY <1>4
  <2> QED BY <2>1, <2>2
<1>8. \A i \in 1..k : i # 1 => i - 1 \in 1..(k - 1)
  BY <1>4
<1>9. G = [i \in 1..k |-> IF i = 1 THEN seqs[i] ELSE G[i - 1] \o seqs[i]]
  BY <1>7, <1>8
<1>10. Joins(G, seqs, k)
  <2> HIDE DEF G
  <2> QED BY <1>9 DEF Joins
<1> QED BY <1>4, <1>10

(* What FlattenSeq has joined so far is a list all along.                       *)
LEMMA FlattenJoins ==
    ASSUME NEW T, NEW seqs \in Seq(Seq(T)), NEW n, n = Len(seqs)
    PROVE  \E it : /\ Joins(it, seqs, n)
                   /\ \A i \in 1..n : it[i] \in Seq(T)
                   /\ n # 0 => FlattenSeq(seqs) = it[n]
<1> DEFINE it == CHOOSE g : Joins(g, seqs, n)
<1>1. n \in Nat /\ \A i \in 1..n : seqs[i] \in Seq(T)
  OBVIOUS
<1>2. Joins(it, seqs, n)
  BY <1>1, JoinsUpTo
<1>3. \A i \in 1..n : it[i] \in Seq(T)
  <2> DEFINE Bad == {i \in 1..n : it[i] \notin Seq(T)}
  <2> SUFFICES ASSUME Bad # {}
               PROVE  FALSE
    OBVIOUS
  <2>1. Bad \in SUBSET Nat
    BY <1>1
  <2>2. PICK i \in Bad : \A j \in Bad : i <= j
    <3> HIDE DEF Bad
    <3> QED BY <2>1, SmallestNumber
  <2>4. i \in 1..n /\ it[i] \notin Seq(T)
    OBVIOUS
  <2>5. it[i] = IF i = 1 THEN seqs[i] ELSE it[i - 1] \o seqs[i]
    <3> HIDE DEF it
    <3> QED BY <1>2, <2>4 DEF Joins
  <2>6. i # 1
    BY <1>1, <2>4, <2>5
  <2>7. i - 1 \in 1..n /\ ~(i <= i - 1)
    BY <1>1, <2>4, <2>6
  <2>8. it[i - 1] \in Seq(T)
    <3>1. i - 1 \notin Bad
      BY <2>2, <2>7
    <3> QED BY <2>7, <3>1
  <2>9. seqs[i] \in Seq(T)
    BY <1>1, <2>4
  <2>10. it[i - 1] \o seqs[i] \in Seq(T)
    <3> HIDE DEF it
    <3> QED BY <2>8, <2>9
  <2> QED BY <2>4, <2>5, <2>6, <2>10
<1>4. n # 0 => FlattenSeq(seqs) = it[n]
  BY DEF FlattenSeq, Joins
<1> HIDE DEF it
<1> QED BY <1>2, <1>3, <1>4

(* Lists of lists come out as a list. *)
LEMMA FlattenType ==
    ASSUME NEW T, NEW seqs \in Seq(Seq(T))
    PROVE  FlattenSeq(seqs) \in Seq(T)
<1>1. PICK n \in Nat : n = Len(seqs)
  OBVIOUS
<1>2. PICK it : /\ Joins(it, seqs, n)
                /\ \A i \in 1..n : it[i] \in Seq(T)
                /\ n # 0 => FlattenSeq(seqs) = it[n]
  BY <1>1, FlattenJoins
<1>3. CASE n = 0
  <2>1. Len(seqs) = 0
    BY <1>1, <1>3
  <2>2. seqs = <<>>
    BY <2>1
  <2> QED BY <2>1, <2>2 DEF FlattenSeq
<1>4. CASE n # 0
  BY <1>2, <1>4
<1> QED BY <1>3, <1>4

(* Empty lists add nothing: it comes out ending as the last other one.          *)
LEMMA FlattenEnds ==
    ASSUME NEW T, NEW seqs \in Seq(Seq(T)), NEW a \in 1..Len(seqs),
           \A j \in (a + 1)..Len(seqs) : seqs[j] = <<>>
    PROVE  \E pre \in Seq(T) : FlattenSeq(seqs) = pre \o seqs[a]
<1>1. PICK n \in Nat : n = Len(seqs)
  OBVIOUS
<1>2. PICK it : /\ Joins(it, seqs, n)
                /\ \A i \in 1..n : it[i] \in Seq(T)
                /\ n # 0 => FlattenSeq(seqs) = it[n]
  BY <1>1, FlattenJoins
<1>3. a \in 1..n /\ n # 0 /\ \A j \in (a + 1)..n : seqs[j] = <<>>
  BY <1>1
<1>4. \A i \in 1..n : it[i] = IF i = 1 THEN seqs[i] ELSE it[i - 1] \o seqs[i]
  BY <1>2 DEF Joins
<1>5. it[n] = it[a]
  <2> DEFINE Bad == {j \in a..n : it[j] # it[a]}
  <2> SUFFICES ASSUME Bad # {}
               PROVE  FALSE
    BY <1>3
  <2>1. Bad \in SUBSET Nat
    BY <1>3
  <2>2. PICK j \in Bad : \A i \in Bad : j <= i
    <3> HIDE DEF Bad
    <3> QED BY <2>1, SmallestNumber
  <2>3. j \in a..n /\ it[j] # it[a]
    OBVIOUS
  <2>4. j \in (a + 1)..n /\ j - 1 \in a..n /\ j # 1 /\ ~(j <= j - 1) /\ j \in 1..n
    BY <1>3, <2>3
  <2>5. it[j - 1] = it[a]
    BY <2>2, <2>4
  <2>6. it[j] = it[j - 1] \o <<>>
    BY <1>3, <1>4, <2>4
  <2>7. it[a] \in Seq(T)
    BY <1>2, <1>3
  <2>8. it[a] \o <<>> = it[a]
    BY <2>7
  <2> QED BY <2>3, <2>5, <2>6, <2>8
<1>6. \E pre \in Seq(T) : it[a] = pre \o seqs[a]
  <2>1. CASE a = 1
    <3>1. it[a] = seqs[a] /\ seqs[a] \in Seq(T)
      BY <1>3, <1>4, <2>1
    <3>2. <<>> \in Seq(T) /\ <<>> \o seqs[a] = seqs[a]
      BY <3>1
    <3> QED BY <3>1, <3>2
  <2>2. CASE a # 1
    <3>1. it[a] = it[a - 1] \o seqs[a]
      BY <1>3, <1>4, <2>2
    <3>2. it[a - 1] \in Seq(T)
      <4>1. a - 1 \in 1..n
        BY <1>3, <2>2
      <4> QED BY <1>2, <4>1
    <3> QED BY <3>1, <3>2
  <2> QED BY <2>1, <2>2
<1> QED BY <1>2, <1>3, <1>5, <1>6

===============================================================================
