----------------------------- MODULE BudgetProofs -----------------------------
(***************************************************************************)
(* The two budgets (FeeBudget, BuyerBudget), of which the sponsor and the  *)
(* buyer must not spend more than was allowed.  Each is first shown to     *)
(* count what may be spent, row by row, and then to keep what it counts    *)
(* within its limits.  The limits are on sums over sets of rows, which the *)
(* model takes by a fold: the lemmas of the first part say what such a sum *)
(* is, arguing by a smallest set that they would be wrong about.           *)
(***************************************************************************)
EXTENDS MCParts, FiniteSetTheorems, WellFoundedInduction, TLAPS

-----------------------------------------------------------------------------
(* Sums over finite sets, taken element by element.                          *)

Some(s) == CHOOSE x \in s : TRUE
Sums(g, f, s) == IF s = {} THEN 0 ELSE f[Some(s)] + g[s \ {Some(s)}]
IsSum(g, f, S) == g = [s \in SUBSET S |-> Sums(g, f, s)]
Total(f, S) == (CHOOSE g : IsSum(g, f, S))[S]

LEMMA SomeOf == ASSUME NEW s, s # {} PROVE Some(s) \in s
  BY DEF Some

\* A set of numbers has a least one.
LEMMA LeastNumber ==
  ASSUME NEW B \in SUBSET Nat, B # {}
  PROVE  \E n \in B : \A m \in B : n <= m
  <1>1. PICK R : R = OpToRel(<, Nat)
    OBVIOUS
  <1>2. IsWellFoundedOn(R, Nat)
    BY <1>1, NatLessThanWellFounded
  <1>3. PICK n \in B : \A m \in B : <<m, n>> \notin R
    BY <1>2, WFMin
  <1>4. \A m \in B : ~(m < n)
    BY <1>1, <1>3 DEF OpToRel
  <1> QED
    BY <1>3, <1>4

\* Among sets of elements of a finite set one has none of them within it.
LEMMA SmallestSet ==
  ASSUME NEW S, IsFiniteSet(S), NEW B \in SUBSET SUBSET S, B # {}
  PROVE  \E s \in B : \A t \in B : t \subseteq s => t = s
  <1>1. \A s \in B : IsFiniteSet(s) /\ Cardinality(s) \in Nat
    BY FS_Subset, FS_CardinalityType
  <1>2. {Cardinality(s) : s \in B} \in SUBSET Nat /\ {Cardinality(s) : s \in B} # {}
    BY <1>1
  <1>3. PICK n \in {Cardinality(s) : s \in B} : \A m \in {Cardinality(s) : s \in B} : n <= m
    BY <1>2, LeastNumber
  <1>4. PICK s \in B : n = Cardinality(s)
    BY <1>3
  <1>5. ASSUME NEW t \in B, t \subseteq s PROVE t = s
    <2>1. Cardinality(s) <= Cardinality(t)
      BY <1>3, <1>4
    <2>2. Cardinality(t) <= Cardinality(s) /\ (Cardinality(t) = Cardinality(s) => t = s)
      BY <1>1, <1>5, FS_Subset
    <2> QED
      BY <1>1, <2>1, <2>2
  <1> QED
    BY <1>5

LEMMA SmallerSet ==
  ASSUME NEW S, IsFiniteSet(S), NEW x \in S
  PROVE  /\ IsFiniteSet(S \ {x}) /\ Cardinality(S) \in Nat /\ Cardinality(S \ {x}) \in Nat
         /\ Cardinality(S \ {x}) = Cardinality(S) - 1
  BY FS_RemoveElement, FS_CardinalityType

\* Sums of the smaller sets give those of the larger ones.
LEMMA SumExists ==
  ASSUME NEW S, IsFiniteSet(S), NEW f \in [S -> Int]
  PROVE  \E g \in [SUBSET S -> Int] : IsSum(g, f, S)
  <1> DEFINE Upto(m) == \E g \in [SUBSET S -> Int] :
                \A s \in SUBSET S : Cardinality(s) <= m => g[s] = Sums(g, f, s)
             B == {m \in Nat : ~Upto(m)}
  <1>b. B \in SUBSET Nat /\ \A m \in Nat : m \in B <=> ~Upto(m)
    OBVIOUS
  <1> HIDE DEF B
  <1>5. SUFFICES ASSUME B # {} PROVE FALSE
    <2>1. PICK n \in Nat : n = Cardinality(S)
      BY FS_CardinalityType
    <2>2. PICK g \in [SUBSET S -> Int] :
            \A s \in SUBSET S : Cardinality(s) <= n => g[s] = Sums(g, f, s)
      BY <1>5, <1>b
    <2>3. \A s \in SUBSET S : g[s] = Sums(g, f, s)
      BY <2>1, <2>2, FS_Subset
    <2> QED
      BY <2>3 DEF IsSum
  <1>1. PICK m \in B : \A k \in B : m <= k
    BY <1>5, <1>b, LeastNumber
  <1>2. ASSUME NEW s \in SUBSET S
        PROVE  /\ IsFiniteSet(s) /\ Cardinality(s) \in Nat
               /\ Cardinality(s) = 0 => s = {}
    BY FS_Subset, FS_CardinalityType, FS_EmptySet
  <1>3. CASE m = 0
    <2> DEFINE g == [s \in SUBSET S |-> 0]
    <2>1. g \in [SUBSET S -> Int]
      OBVIOUS
    <2>2. ASSUME NEW s \in SUBSET S, Cardinality(s) <= 0 PROVE g[s] = Sums(g, f, s)
      <3>1. s = {}
        BY <1>2, <2>2
      <3> QED
        BY <3>1 DEF Sums
    <2>3. Upto(0)
      BY <2>1, <2>2
    <2> QED
      BY <1>1, <1>3, <1>b, <2>3
  <1>4. CASE m # 0
    <2>1. m - 1 \in Nat /\ m - 1 \notin B
      BY <1>1, <1>4, <1>b
    <2>2. PICK g \in [SUBSET S -> Int] :
            \A s \in SUBSET S : Cardinality(s) <= m - 1 => g[s] = Sums(g, f, s)
      BY <1>b, <2>1
    <2> DEFINE h == [s \in SUBSET S |-> Sums(g, f, s)]
    <2>3. ASSUME NEW s \in SUBSET S
          PROVE  Sums(g, f, s) \in Int /\ h[s] = Sums(g, f, s)
      <3>1. CASE s = {}
        BY <3>1 DEF Sums
      <3>2. CASE s # {}
        <4>1. Some(s) \in s
          BY <3>2, SomeOf
        <4>2. f[Some(s)] \in Int /\ g[s \ {Some(s)}] \in Int
          BY <4>1
        <4> QED
          BY <3>2, <4>2 DEF Sums
      <3> QED
        BY <3>1, <3>2
    <2>4. h \in [SUBSET S -> Int]
      BY <2>3
    <2>5. ASSUME NEW s \in SUBSET S, Cardinality(s) <= m PROVE h[s] = Sums(h, f, s)
      <3>1. CASE s = {}
        BY <2>3, <3>1 DEF Sums
      <3>2. CASE s # {}
        <4> DEFINE r == s \ {Some(s)}
        <4>1. Some(s) \in s /\ r \in SUBSET S
          BY <3>2, SomeOf
        <4>2. Cardinality(r) = Cardinality(s) - 1 /\ Cardinality(s) \in Nat
          BY <1>2, <4>1, SmallerSet
        <4>3. Cardinality(r) <= m - 1
          <5> HIDE DEF r
          <5>1. m \in Nat /\ Cardinality(s) <= m
            BY <1>1, <1>b, <2>5
          <5> QED
            BY <4>2, <5>1
        <4>4. g[r] = Sums(g, f, r) /\ h[r] = Sums(g, f, r)
          BY <2>2, <2>3, <4>1, <4>3
        <4> QED
          BY <2>3, <3>2, <4>4 DEF Sums
      <3> QED
        BY <3>1, <3>2
    <2>6. Upto(m)
      BY <2>4, <2>5
    <2> QED
      BY <1>1, <1>b, <2>6
  <1> QED
    BY <1>3, <1>4

\* Sums of the same numbers are the same, whichever larger set they are part of.
LEMMA SumUnique ==
  ASSUME NEW S, IsFiniteSet(S), NEW T \in SUBSET S, NEW f, NEW e, \A x \in T : e[x] = f[x],
         NEW g, IsSum(g, f, S), NEW h, IsSum(h, e, T)
  PROVE  g[T] = h[T]
  <1> DEFINE B == {s \in SUBSET T : g[s] # h[s]}
  <1>b. B \in SUBSET SUBSET T /\ \A s \in SUBSET T : s \in B <=> g[s] # h[s]
    OBVIOUS
  <1> HIDE DEF B
  <1> SUFFICES ASSUME B # {} PROVE FALSE
    BY <1>b
  <1>1. IsFiniteSet(T)
    BY FS_Subset
  <1>2. PICK s \in B : \A t \in B : t \subseteq s => t = s
    BY <1>1, <1>b, SmallestSet
  <1>3. g[s] = Sums(g, f, s) /\ h[s] = Sums(h, e, s) /\ s \in SUBSET T /\ g[s] # h[s]
    BY <1>2, <1>b DEF IsSum
  <1>4. CASE s = {}
    BY <1>3, <1>4 DEF Sums
  <1>5. CASE s # {}
    <2>1. Some(s) \in s
      BY <1>5, SomeOf
    <2>2. s \ {Some(s)} \notin B
      BY <1>2, <2>1
    <2>3. g[s \ {Some(s)}] = h[s \ {Some(s)}] /\ e[Some(s)] = f[Some(s)]
      BY <1>3, <1>b, <2>1, <2>2
    <2> QED
      BY <1>3, <1>5, <2>3 DEF Sums
  <1> QED
    BY <1>4, <1>5

\* g gives the totals over the sets of elements of S, any of which may go first.
Totals(g, f, S) ==
  /\ g \in [SUBSET S -> Int] /\ g[{}] = 0
  /\ \A s \in SUBSET S : \A y \in s : g[s] = f[y] + g[s \ {y}]
  /\ \A T \in SUBSET S : \A e : (\A x \in T : e[x] = f[x]) => Total(e, T) = g[T]

LEMMA FunctionTotals ==
  ASSUME NEW S, IsFiniteSet(S), NEW f \in [S -> Int]
  PROVE  \E g : Totals(g, f, S)
  <1>1. PICK g \in [SUBSET S -> Int] : IsSum(g, f, S)
    BY SumExists
  <1>2. \A s \in SUBSET S : g[s] = Sums(g, f, s)
    BY <1>1 DEF IsSum
  <1>3. g[{}] = 0
    BY <1>2 DEF Sums
  <1>4. ASSUME NEW T \in SUBSET S, NEW e, \A x \in T : e[x] = f[x]
        PROVE  Total(e, T) = g[T]
    <2>1. IsFiniteSet(T)
      BY FS_Subset
    <2>2. \E h : IsSum(h, e, T)
      <3>1. [x \in T |-> f[x]] \in [T -> Int]
        OBVIOUS
      <3>2. PICK h \in [SUBSET T -> Int] : IsSum(h, [x \in T |-> f[x]], T)
        BY <2>1, <3>1, SumExists
      <3>3. ASSUME NEW s \in SUBSET T PROVE h[s] = Sums(h, e, s)
        <4>1. h[s] = Sums(h, [x \in T |-> f[x]], s)
          BY <3>2 DEF IsSum
        <4>2. CASE s = {}
          BY <4>1, <4>2 DEF Sums
        <4>3. CASE s # {}
          <5>1. Some(s) \in T
            BY <4>3, SomeOf
          <5> QED
            BY <1>4, <4>1, <4>3, <5>1 DEF Sums
        <4> QED
          BY <4>2, <4>3
      <3> QED
        BY <3>2, <3>3 DEF IsSum
    <2>3. PICK h : h = CHOOSE i : IsSum(i, e, T)
      OBVIOUS
    <2>4. IsSum(h, e, T)
      BY <2>2, <2>3
    <2> QED
      BY <1>1, <1>4, <2>3, <2>4, SumUnique DEF Total
  <1>5. ASSUME NEW s \in SUBSET S, NEW y \in s PROVE g[s] = f[y] + g[s \ {y}]
    <2> DEFINE B == {t \in SUBSET S : \E z \in t : g[t] # f[z] + g[t \ {z}]}
    <2>b. /\ B \in SUBSET SUBSET S
          /\ \A t \in SUBSET S : t \in B <=> \E z \in t : g[t] # f[z] + g[t \ {z}]
      OBVIOUS
    <2> HIDE DEF B
    <2> SUFFICES ASSUME B # {} PROVE FALSE
      BY <1>5, <2>b
    <2>1. PICK t \in B : \A r \in B : r \subseteq t => r = t
      BY <2>b, SmallestSet
    <2>11. t \in SUBSET S
      BY <2>1, <2>b
    <2>2. PICK z \in t : g[t] # f[z] + g[t \ {z}]
      BY <2>1, <2>11, <2>b
    <2>3. Some(t) \in t
      BY <2>2, SomeOf
    <2> DEFINE x == Some(t)
    <2>4. g[t] = f[x] + g[t \ {x}]
      BY <1>2, <2>11, <2>2 DEF Sums
    <2>5. x # z /\ x \in t /\ z \in t
      BY <2>2, <2>3, <2>4
    <2> HIDE DEF x
    <2>6. t \ {x} \notin B /\ t \ {z} \notin B
      BY <2>1, <2>5
    <2>7. g[t \ {x}] = f[z] + g[(t \ {x}) \ {z}]
      BY <2>11, <2>5, <2>6, <2>b
    <2>8. g[t \ {z}] = f[x] + g[(t \ {z}) \ {x}]
      BY <2>11, <2>5, <2>6, <2>b
    <2>9. (t \ {x}) \ {z} = (t \ {z}) \ {x} /\ (t \ {z}) \ {x} \in SUBSET S
      BY <2>11
    <2>10. f[x] \in Int /\ f[z] \in Int /\ g[(t \ {z}) \ {x}] \in Int
      BY <2>11, <2>5, <2>9
    <2>12. PICK i \in Int, j \in Int, k \in Int :
             i = f[x] /\ j = f[z] /\ k = g[(t \ {z}) \ {x}]
      BY <2>10
    <2>13. g[t] = i + (j + k)
      BY <2>4, <2>7, <2>9, <2>12
    <2>14. g[t] # j + (i + k)
      BY <2>2, <2>8, <2>12
    <2> QED
      BY <2>13, <2>14
  <1> QED
    BY <1>3, <1>4, <1>5 DEF Totals

LEMMA TotalSums ==
  ASSUME NEW S, IsFiniteSet(S), NEW f, \A x \in S : f[x] \in Int
  PROVE  \E g : Totals(g, f, S)
  <1>1. PICK e : e = [x \in S |-> f[x]]
    OBVIOUS
  <1>2. e \in [S -> Int] /\ \A x \in S : e[x] = f[x]
    BY <1>1
  <1>3. PICK g : Totals(g, e, S)
    BY <1>2, FunctionTotals
  <1>4. /\ g \in [SUBSET S -> Int] /\ g[{}] = 0
        /\ \A s \in SUBSET S : \A y \in s : g[s] = f[y] + g[s \ {y}]
    BY <1>2, <1>3 DEF Totals
  <1>5. ASSUME NEW T \in SUBSET S, NEW d, \A x \in T : d[x] = f[x]
        PROVE  Total(d, T) = g[T]
    <2>1. \A x \in T : d[x] = e[x]
      BY <1>2, <1>5
    <2> QED
      BY <1>3, <2>1 DEF Totals
  <1> QED
    BY <1>4, <1>5 DEF Totals

LEMMA TotalOf ==
  ASSUME NEW S, NEW f, NEW g, Totals(g, f, S), NEW T \in SUBSET S
  PROVE  Total(f, T) = g[T] /\ g[T] \in Int
  <1>1. /\ \A e : (\A x \in T : e[x] = f[x]) => Total(e, T) = g[T]
        /\ g \in [SUBSET S -> Int]
    BY DEF Totals
  <1>2. \A x \in T : f[x] = f[x]
    OBVIOUS
  <1> QED
    BY <1>1, <1>2

LEMMA TotalIsInt ==
  ASSUME NEW S, IsFiniteSet(S), NEW f, \A x \in S : f[x] \in Int
  PROVE  Total(f, S) \in Int
  <1>1. PICK g : Totals(g, f, S)
    BY TotalSums
  <1>2. S \in SUBSET S
    OBVIOUS
  <1> QED
    BY <1>1, <1>2, TotalOf

\* What a total is at most: one of larger numbers over a larger set, which no
\* number makes smaller.
LEMMA TotalAtMost ==
  ASSUME NEW T, IsFiniteSet(T), NEW S \in SUBSET T, NEW f, NEW e,
         \A x \in S : f[x] \in Int /\ f[x] <= e[x], \A x \in T : e[x] \in Nat
  PROVE  Total(f, S) <= Total(e, T)
  <1>1. IsFiniteSet(S)
    BY FS_Subset
  <1>2. PICK g : Totals(g, f, S)
    BY <1>1, TotalSums
  <1>3. PICK h : Totals(h, e, T)
    BY TotalSums
  <1>4. /\ Total(f, S) = g[S] /\ Total(e, T) = h[T] /\ g[{}] = 0 /\ h[{}] = 0
        /\ g \in [SUBSET S -> Int] /\ h \in [SUBSET T -> Int]
    BY <1>2, <1>3 DEF Totals
  <1> DEFINE B == {t \in SUBSET T : ~(g[t \cap S] <= h[t])}
  <1>b. B \in SUBSET SUBSET T /\ \A t \in SUBSET T : t \in B <=> ~(g[t \cap S] <= h[t])
    OBVIOUS
  <1> HIDE DEF B
  <1>5. SUFFICES ASSUME B # {} PROVE FALSE
    <2>1. T \notin B /\ T \cap S = S
      BY <1>5
    <2> QED
      BY <1>4, <1>b, <2>1
  <1>6. PICK t \in B : \A r \in B : r \subseteq t => r = t
    BY <1>5, <1>b, SmallestSet
  <1>7. CASE t = {}
    <2>1. t \cap S = {}
      BY <1>7
    <2> QED
      BY <1>4, <1>6, <1>7, <1>b, <2>1
  <1>8. CASE t # {}
    <2>1. PICK y \in t : TRUE
      BY <1>8
    <2> DEFINE r == t \ {y}
    <2>2. r \in SUBSET T /\ r \notin B /\ y \in T /\ t \in SUBSET T
      BY <1>6, <1>b, <2>1
    <2>3. g[r \cap S] <= h[r] /\ g[r \cap S] \in Int /\ h[r] \in Int
      BY <1>4, <1>b, <2>2
    <2>4. h[t] = e[y] + h[r] /\ e[y] \in Int /\ 0 <= e[y]
      BY <1>3, <2>1, <2>2 DEF Totals
    <2>7. ~(g[t \cap S] <= h[t])
      BY <1>6, <1>b, <2>2
    <2>5. CASE y \in S
      <3>1. y \in t \cap S /\ (t \cap S) \ {y} = r \cap S /\ t \cap S \in SUBSET S
        BY <2>1, <2>5
      <3>2. g[t \cap S] = f[y] + g[r \cap S] /\ f[y] \in Int /\ f[y] <= e[y]
        <4>1. \A s \in SUBSET S : \A v \in s : g[s] = f[v] + g[s \ {v}]
          BY <1>2 DEF Totals
        <4> QED
          BY <2>5, <3>1, <4>1
      <3> QED
        BY <2>7, <2>3, <2>4, <3>2
    <2>6. CASE y \notin S
      <3>1. t \cap S = r \cap S
        BY <2>6
      <3>2. g[r \cap S] > h[t]
        <4>1. g[t \cap S] = g[r \cap S]
          BY <3>1
        <4>2. h[t] \in Int
          BY <2>3, <2>4
        <4> HIDE DEF r
        <4> QED
          BY <2>3, <2>7, <4>1, <4>2
      <3> HIDE DEF r
      <3> QED
        BY <2>3, <2>4, <3>2
    <2> QED
      BY <2>5, <2>6
  <1> QED
    BY <1>7, <1>8

\* At most one number more.
LEMMA TotalOneMore ==
  ASSUME NEW T, IsFiniteSet(T), NEW S, NEW z, S \subseteq T \cup {z},
         NEW f, NEW e, \A x \in S : f[x] \in Int,
         \A x \in S \ {z} : f[x] <= e[x], \A x \in T : e[x] \in Nat,
         NEW k \in Nat, z \in S => f[z] <= k
  PROVE  Total(f, S) <= k + Total(e, T)
  <1>1. IsFiniteSet(S)
    BY FS_AddElement, FS_Subset
  <1>2. PICK g : Totals(g, f, S)
    BY <1>1, TotalSums
  <1>3. Total(e, T) \in Int
    <2>1. \A x \in T : e[x] \in Int
      OBVIOUS
    <2> QED
      BY <2>1, TotalIsInt
  <1>4. Total(f, S \ {z}) <= Total(e, T)
    BY TotalAtMost
  <1>5. Total(f, S \ {z}) = g[S \ {z}] /\ Total(f, S) = g[S] /\ g[S \ {z}] \in Int
    <2>1. S \in SUBSET S /\ S \ {z} \in SUBSET S
      OBVIOUS
    <2> QED
      BY <1>2, <2>1, TotalOf
  <1>6. CASE z \in S
    <2>1. g[S] = f[z] + g[S \ {z}]
      <3>1. \A s \in SUBSET S : \A y \in s : g[s] = f[y] + g[s \ {y}]
        BY <1>2 DEF Totals
      <3> QED
        BY <1>6, <3>1
    <2>2. f[z] \in Int /\ f[z] <= k
      BY <1>6
    <2> QED
      BY <1>3, <1>4, <1>5, <2>1, <2>2
  <1>7. CASE z \notin S
    <2>1. S \ {z} = S
      BY <1>7
    <2>2. Total(f, S) <= Total(e, T) /\ Total(f, S) \in Int
      BY <1>4, <1>5, <2>1
    <2> QED
      BY <1>3, <2>2
  <1> QED
    BY <1>6, <1>7

\* A total over two sets is no more than their totals.
LEMMA TotalOfBoth ==
  ASSUME NEW S, IsFiniteSet(S), NEW T, IsFiniteSet(T), S \cap T = {},
         NEW f, \A x \in S \cup T : f[x] \in Int
  PROVE  Total(f, S \cup T) = Total(f, S) + Total(f, T)
  <1> DEFINE U == S \cup T
  <1>1. IsFiniteSet(U)
    BY FS_Union
  <1>2. PICK g : Totals(g, f, U)
    BY <1>1, TotalSums
  <1>3. /\ Total(f, U) = g[U] /\ Total(f, S) = g[S] /\ Total(f, T) = g[T]
        /\ g \in [SUBSET U -> Int] /\ g[{}] = 0
    BY <1>2 DEF Totals
  <1> DEFINE B == {t \in SUBSET T : g[S \cup t] # g[S] + g[t]}
  <1>b. B \in SUBSET SUBSET T /\ \A t \in SUBSET T : t \in B <=> g[S \cup t] # g[S] + g[t]
    OBVIOUS
  <1> HIDE DEF B
  <1>4. SUFFICES ASSUME B # {} PROVE FALSE
    BY <1>3, <1>4, <1>b
  <1>5. PICK t \in B : \A r \in B : r \subseteq t => r = t
    BY <1>4, <1>b, SmallestSet
  <1>6. g[S] \in Int
    BY <1>3
  <1>7. CASE t = {}
    <2>1. S \cup t = S
      BY <1>7
    <2> QED
      BY <1>3, <1>5, <1>6, <1>7, <1>b, <2>1
  <1>8. CASE t # {}
    <2>1. PICK y \in t : TRUE
      BY <1>8
    <2> DEFINE r == t \ {y}
    <2>2. r \in SUBSET T /\ r \notin B /\ y \in U /\ y \notin S /\ t \in SUBSET T
      BY <1>5, <1>b, <2>1
    <2>3. g[S \cup r] = g[S] + g[r] /\ g[r] \in Int /\ f[y] \in Int
      BY <1>3, <1>b, <2>2
    <2>4. (S \cup t) \ {y} = S \cup r /\ y \in S \cup t /\ S \cup t \in SUBSET U /\ t \in SUBSET U
      BY <2>1, <2>2
    <2>5. \A s \in SUBSET U : \A v \in s : g[s] = f[v] + g[s \ {v}]
      BY <1>2 DEF Totals
    <2>6. g[S \cup t] = f[y] + g[S \cup r] /\ g[t] = f[y] + g[r]
      BY <2>1, <2>4, <2>5
    <2>7. g[S \cup t] # g[S] + g[t]
      BY <1>5, <1>b, <2>2
    <2> QED
      BY <1>6, <2>3, <2>6, <2>7
  <1> QED
    BY <1>7, <1>8

LEMMA SumIsTotal ==
  ASSUME NEW S, IsFiniteSet(S), NEW f, \A x \in S : f[x] \in Int
  PROVE  /\ \E g : IsSum(g, f, S)
         /\ \A h : IsSum(h, f, S) => h[S] = Total(f, S)
  <1>1. \E g : IsSum(g, f, S)
    <2>1. PICK e : e = [x \in S |-> f[x]]
      OBVIOUS
    <2>2. PICK g : IsSum(g, e, S)
      BY <2>1, SumExists
    <2>3. \A s \in SUBSET S : Sums(g, e, s) = Sums(g, f, s)
      <3>1. ASSUME NEW s \in SUBSET S, s # {} PROVE e[Some(s)] = f[Some(s)]
        BY <2>1, <3>1, SomeOf
      <3> QED
        BY <3>1 DEF Sums
    <2> QED
      BY <2>2, <2>3 DEF IsSum
  <1>2. ASSUME NEW h, IsSum(h, f, S) PROVE h[S] = Total(f, S)
    <2>1. PICK g : g = CHOOSE i : IsSum(i, f, S)
      OBVIOUS
    <2>2. IsSum(g, f, S)
      BY <1>1, <2>1
    <2>3. S \in SUBSET S /\ \A x \in S : f[x] = f[x]
      OBVIOUS
    <2>4. g[S] = h[S]
      BY <1>2, <2>2, <2>3, SumUnique
    <2> QED
      BY <2>1, <2>4 DEF Total
  <1> QED
    BY <1>1, <1>2

\* Nothing adds up to nothing.
LEMMA TotalOfNone ==
  ASSUME NEW S, IsFiniteSet(S), NEW f, \A x \in S : f[x] = 0
  PROVE  Total(f, S) = 0
  <1>1. PICK g : Totals(g, f, S)
    BY TotalSums
  <1>2. Total(f, S) = g[S]
    <2>1. S \in SUBSET S
      OBVIOUS
    <2> QED
      BY <1>1, <2>1, TotalOf
  <1> DEFINE B == {s \in SUBSET S : g[s] # 0}
  <1>b. B \in SUBSET SUBSET S /\ \A s \in SUBSET S : s \in B <=> g[s] # 0
    OBVIOUS
  <1> HIDE DEF B
  <1>3. SUFFICES ASSUME B # {} PROVE FALSE
    BY <1>2, <1>3, <1>b
  <1>4. PICK s \in B : \A t \in B : t \subseteq s => t = s
    BY <1>3, <1>b, SmallestSet
  <1>5. s \in SUBSET S /\ g[s] # 0
    BY <1>4, <1>b
  <1>6. g[{}] = 0 /\ \A t \in SUBSET S : \A y \in t : g[t] = f[y] + g[t \ {y}]
    BY <1>1 DEF Totals
  <1>7. PICK y \in s : TRUE
    BY <1>5, <1>6
  <1>8. g[s \ {y}] = 0
    BY <1>4, <1>5, <1>7, <1>b
  <1>9. g[s] = f[y] + g[s \ {y}] /\ f[y] = 0
    BY <1>5, <1>6, <1>7
  <1> QED
    BY <1>5, <1>8, <1>9

-----------------------------------------------------------------------------
(* FeeBudget: what the ledger counts covers what the sponsor may pay.        *)

LEMMA BudgetNumbers ==
  /\ Reserve \in Nat /\ Ceiling \in Nat /\ Hour \in Nat /\ Day \in Nat /\ LastTick \in Nat
  /\ Keeper \notin Payments /\ Keeper \notin Rounds /\ Payments \cap Rounds = {}
  /\ Payments \subseteq Nat /\ Rounds \subseteq Nat
  /\ Fee \subseteq Nat /\ 0 \in Fee /\ Ceiling \in Fee /\ 1..Reserve \subseteq Fee
  /\ Unknown \notin Fee
  <1>1. /\ Reserve \in Nat /\ Ceiling \in Nat /\ Hour \in Nat /\ Day \in Nat /\ LastTick \in Nat
        /\ Keeper \notin Payments /\ Keeper \notin Rounds /\ Payments \cap Rounds = {}
        /\ Payments \subseteq Nat /\ Rounds \subseteq Nat
    BY BudgetAssumption DEF Keeper
  <1> QED
    BY <1>1 DEF Fee, Unknown

LEMMA BudgetStart == BudgetInit => BudgetSound
  <1> SUFFICES ASSUME BudgetInit PROVE BudgetSound
    OBVIOUS
  <1> USE BudgetNumbers DEF BudgetInit, None, Unknown, NoClaim, NoSpend, Unsigned, Idle
  <1>1. BudgetTypeOK
    BY DEF BudgetTypeOK
  <1>2. round \in [no : Rounds \cup {0}, at : {"idle", "run", "sent", "correct"},
                   fee : Fee \cup {Unknown}]
    OBVIOUS
  <1>3. \A p \in Payments : ClaimFits(p)
    BY DEF ClaimFits
  <1>4. \A r \in Rounds : RoundFits(r)
    BY DEF RoundFits
  <1> QED
    BY <1>1, <1>2, <1>3, <1>4 DEF BudgetSound

\* What BudgetSound says of the tables, one by one.
LEMMA BudgetFacts ==
  ASSUME BudgetSound
  PROVE  /\ clock \in 0..LastTick
         /\ holder \in Payments \cup {Keeper, None}
         /\ asks \in [Payments \cup {Keeper} ->
              [at : {"idle", "begun", "locked", "checked"}, started : 0..LastTick]]
         /\ claims \in [Payments ->
              [state : {"none", "claimed", "submitted", "succeeded", "failed", "expired"},
               created : 0..LastTick, max : Fee, charged : Fee \cup {Unknown}]]
         /\ spends \in [Rounds -> [booked : BOOLEAN, created : 0..LastTick, fee : Fee]]
         /\ bumps \in [Payments \cup Rounds ->
              [fate : {"unsigned", "may", "charged", "dead"}, max : Fee, fee : Fee]]
         /\ owned \subseteq Payments
         /\ round \in [no : Rounds \cup {0}, at : {"idle", "run", "sent", "correct"},
                       fee : Fee \cup {Unknown}]
  BY DEF BudgetSound, BudgetTypeOK

\* An admission waits, is checked, or rolls back: nothing is counted yet.
LEMMA AdmissionSound ==
  ASSUME BudgetSound, UNCHANGED <<clock, claims, spends, bumps, round, owned>>,
         holder' \in Payments \cup {Keeper, None},
         asks' \in [Payments \cup {Keeper} ->
           [at : {"idle", "begun", "locked", "checked"}, started : 0..LastTick]],
         asks'[Keeper].at # "idle" =>
           asks[Keeper].at # "idle" \/ (round.at = "idle" /\ round.no + 1 \in Rounds),
         \A p \in Payments : asks'[p].at = "checked" =>
           asks[p].at = "checked" \/ claims[p].state = "none"
  PROVE  BudgetSound'
  <1>1. BudgetTypeOK'
    BY DEF BudgetSound, BudgetTypeOK
  <1>2. (\A p \in Payments : ClaimFits(p))' /\ (\A r \in Rounds : RoundFits(r))'
    BY DEF BudgetSound, ClaimFits, RoundFits
  <1> QED
    BY <1>1, <1>2 DEF BudgetSound

\* A step of one settlement: its row and its fee bump.
LEMMA ClaimSound ==
  ASSUME BudgetSound, NEW p \in Payments, UNCHANGED <<clock, spends, round>>,
         holder' \in Payments \cup {Keeper, None},
         asks' \in [Payments \cup {Keeper} ->
           [at : {"idle", "begun", "locked", "checked"}, started : 0..LastTick]],
         \A a \in (Payments \cup {Keeper}) \ {p} : asks'[a] = asks[a],
         claims' \in [Payments ->
           [state : {"none", "claimed", "submitted", "succeeded", "failed", "expired"},
            created : 0..LastTick, max : Fee, charged : Fee \cup {Unknown}]],
         bumps' \in [Payments \cup Rounds ->
           [fate : {"unsigned", "may", "charged", "dead"}, max : Fee, fee : Fee]],
         owned' \subseteq Payments,
         \A q \in Payments \ {p} : claims'[q] = claims[q],
         \A x \in (Payments \cup Rounds) \ {p} : bumps'[x] = bumps[x],
         ClaimFits(p)'
  PROVE  BudgetSound'
  <1>1. BudgetTypeOK'
    BY DEF BudgetSound, BudgetTypeOK
  <1>2. \A q \in Payments \ {p} : ClaimFits(q)'
    BY DEF BudgetSound, ClaimFits
  <1>4. asks'[Keeper] = asks[Keeper]
    BY BudgetNumbers
  <1>3. \A r \in Rounds : RoundFits(r)'
    <2>1. \A r \in Rounds : r # p
      BY BudgetNumbers
    <2> QED
      BY <2>1 DEF BudgetSound, RoundFits
  <1> QED
    BY <1>1, <1>2, <1>3, <1>4 DEF BudgetSound

\* A step of the keeper's round.
LEMMA RoundSound ==
  ASSUME BudgetSound, UNCHANGED <<clock, claims, owned>>,
         holder' \in Payments \cup {Keeper, None},
         asks' \in [Payments \cup {Keeper} ->
           [at : {"idle", "begun", "locked", "checked"}, started : 0..LastTick]],
         asks'[Keeper].at = "idle" \/ asks' = asks,
         \A p \in Payments : asks'[p] = asks[p],
         spends' \in [Rounds -> [booked : BOOLEAN, created : 0..LastTick, fee : Fee]],
         bumps' \in [Payments \cup Rounds ->
           [fate : {"unsigned", "may", "charged", "dead"}, max : Fee, fee : Fee]],
         round' \in [no : Rounds \cup {0}, at : {"idle", "run", "sent", "correct"},
                     fee : Fee \cup {Unknown}],
         round'.at # "idle" => round'.no \in Rounds,
         asks'[Keeper].at # "idle" => round'.at = "idle" /\ round'.no = round.no,
         \A p \in Payments : bumps'[p] = bumps[p],
         \A r \in Rounds : RoundFits(r)'
  PROVE  BudgetSound'
  <1>1. BudgetTypeOK'
    BY DEF BudgetSound, BudgetTypeOK
  <1>2. \A p \in Payments : ClaimFits(p)'
    BY DEF BudgetSound, ClaimFits
  <1>3. asks'[Keeper].at # "idle" => round'.at = "idle" /\ round'.no + 1 \in Rounds
    BY DEF BudgetSound
  <1> QED
    BY <1>1, <1>2, <1>3 DEF BudgetSound

LEMMA AdmissionSteps ==
  ASSUME BudgetSound,
         \/ \E a \in Payments \cup {Keeper} : Locks(a) \/ Checks(a) \/ RollsBack(a)
         \/ \E p \in Payments : AsksForClaim(p)
         \/ KeeperAsks
  PROVE  BudgetSound'
  <1> USE BudgetNumbers, BudgetFacts
  <1>1. ASSUME NEW a \in Payments \cup {Keeper}, Locks(a) PROVE BudgetSound'
    <2>1. /\ asks[a].at = "begun" /\ holder' = a
          /\ asks' = [asks EXCEPT ![a].at = "locked"]
          /\ UNCHANGED <<clock, claims, spends, bumps, round, owned>>
      BY <1>1 DEF Locks, Moves
    <2>2. \A p \in Payments : asks'[p].at = "checked" => asks[p].at = "checked"
      BY <2>1
    <2>3. asks'[Keeper].at # "idle" => asks[Keeper].at # "idle"
      BY <2>1
    <2>4. /\ holder' \in Payments \cup {Keeper, None}
          /\ asks' \in [Payments \cup {Keeper} ->
               [at : {"idle", "begun", "locked", "checked"}, started : 0..LastTick]]
      BY <2>1
    <2> QED
      BY <2>1, <2>2, <2>3, <2>4, AdmissionSound
  <1>2. ASSUME NEW a \in Payments \cup {Keeper}, Checks(a) PROVE BudgetSound'
    <2>1. /\ asks[a].at = "locked" /\ (a # Keeper => claims[a].state = "none")
          /\ asks' = [asks EXCEPT ![a].at = "checked"]
          /\ UNCHANGED <<clock, holder, claims, spends, bumps, round, owned>>
      BY <1>2 DEF Checks, Moves
    <2>2. \A p \in Payments : asks'[p].at = "checked" =>
            asks[p].at = "checked" \/ claims[p].state = "none"
      <3> SUFFICES ASSUME NEW p \in Payments
                   PROVE  asks'[p].at = "checked" =>
                            asks[p].at = "checked" \/ claims[p].state = "none"
        OBVIOUS
      <3>1. CASE p = a
        BY <2>1, <3>1
      <3>2. CASE p # a
        BY <2>1, <3>2
      <3> QED
        BY <3>1, <3>2
    <2>3. asks'[Keeper].at # "idle" => asks[Keeper].at # "idle"
      BY <2>1
    <2>4. /\ holder' \in Payments \cup {Keeper, None}
          /\ asks' \in [Payments \cup {Keeper} ->
               [at : {"idle", "begun", "locked", "checked"}, started : 0..LastTick]]
      BY <2>1
    <2> QED
      BY <2>1, <2>2, <2>3, <2>4, AdmissionSound
  <1>3. ASSUME NEW a \in Payments \cup {Keeper}, RollsBack(a) PROVE BudgetSound'
    <2>1. /\ asks' = [asks EXCEPT ![a] = Idle]
          /\ holder' = IF holder = a THEN None ELSE holder
          /\ UNCHANGED <<clock, claims, spends, bumps, round, owned>>
      BY <1>3 DEF RollsBack
    <2> QED
      BY <2>1, AdmissionSound DEF Idle
  <1>4. ASSUME NEW p \in Payments, AsksForClaim(p) PROVE BudgetSound'
    <2>1. /\ asks' = [asks EXCEPT ![p] = [at |-> "begun", started |-> clock]]
          /\ UNCHANGED <<clock, holder, claims, spends, bumps, round, owned>>
      BY <1>4 DEF AsksForClaim
    <2> QED
      BY <2>1, AdmissionSound
  <1>5. CASE KeeperAsks
    <2>1. /\ round.at = "idle" /\ round.no + 1 \in Rounds
          /\ asks' = [asks EXCEPT ![Keeper] = [at |-> "begun", started |-> clock]]
          /\ UNCHANGED <<clock, holder, claims, spends, bumps, round, owned>>
      BY <1>5 DEF KeeperAsks
    <2> QED
      BY <2>1, AdmissionSound
  <1> QED
    BY <1>1, <1>2, <1>3, <1>4, <1>5

\* The types of the settlements' rows and of what may become of transactions.
ClaimRow ==
  [state : {"none", "claimed", "submitted", "succeeded", "failed", "expired"},
   created : 0..LastTick, max : Fee, charged : Fee \cup {Unknown}]
FeeBump == [fate : {"unsigned", "may", "charged", "dead"}, max : Fee, fee : Fee]

LEMMA PaymentSteps ==
  ASSUME BudgetSound, NEW p \in Payments,
         \/ Inserts(p) \/ TakesOver(p) \/ Signs(p) \/ Abandons(p)
         \/ OwnerDies(p) \/ Finishes(p) \/ Lands(p)
  PROVE  BudgetSound'
  <1> USE BudgetNumbers, BudgetFacts
  <1>0. ClaimFits(p)
    BY DEF BudgetSound
  <1>t. /\ claims[p] \in ClaimRow /\ bumps[p] \in FeeBump
        /\ Idle \in [at : {"idle", "begun", "locked", "checked"}, started : 0..LastTick]
        /\ NoClaim \in ClaimRow
    BY DEF ClaimRow, FeeBump, Idle, NoClaim
  <1>f. ASSUME NEW c \in ClaimRow, NEW b \in FeeBump,
               claims' = [claims EXCEPT ![p] = c], bumps' = [bumps EXCEPT ![p] = b],
               asks' = [asks EXCEPT ![p] = Idle] \/ asks' = asks,
               UNCHANGED <<clock, spends, round>>,
               holder' \in Payments \cup {Keeper, None}, owned' \subseteq Payments,
               asks'[p].at = "checked" => c.state = "none",
               c.state \in {"none", "claimed"} => b.fate = "unsigned" /\ c.max = 0,
               c.state \in {"none", "claimed", "submitted"} => c.charged = Unknown,
               c.state = "submitted" => b.fate \in {"may", "charged"},
               c.state \in {"succeeded", "failed", "expired"} => b.fate \in {"charged", "dead"},
               b.fate \in {"may", "charged"} => c.max = b.max /\ b.max \in 1..Reserve,
               b.fate = "charged" =>
                 b.fee <= b.max /\ c.state # "expired" /\ c.charged \in {b.fee, Unknown}
        PROVE  BudgetSound'
    <2>1. claims'[p] = c /\ bumps'[p] = b
      BY <1>f
    <2>2. ClaimFits(p)'
      BY <1>f, <2>1 DEF ClaimFits
    <2>3. /\ asks' \in [Payments \cup {Keeper} ->
               [at : {"idle", "begun", "locked", "checked"}, started : 0..LastTick]]
          /\ \A a \in (Payments \cup {Keeper}) \ {p} : asks'[a] = asks[a]
      BY <1>f, <1>t
    <2>4. /\ claims' \in [Payments -> ClaimRow] /\ bumps' \in [Payments \cup Rounds -> FeeBump]
          /\ \A q \in Payments \ {p} : claims'[q] = claims[q]
          /\ \A x \in (Payments \cup Rounds) \ {p} : bumps'[x] = bumps[x]
      BY <1>f DEF ClaimRow, FeeBump
    <2> QED
      BY <1>f, <2>2, <2>3, <2>4, ClaimSound DEF ClaimRow, FeeBump
  <1>1. CASE Inserts(p)
    <2> DEFINE c == [NoClaim EXCEPT !.state = "claimed", !.created = asks[p].started]
    <2>1. /\ asks[p].at = "checked" /\ claims' = [claims EXCEPT ![p] = c]
          /\ owned' = owned \cup {p}
          /\ asks' = [asks EXCEPT ![p] = Idle] /\ holder' = None
          /\ UNCHANGED <<clock, spends, bumps, round>>
      BY <1>1 DEF Inserts, Commits
    <2>2. c \in ClaimRow /\ c.state = "claimed" /\ c.max = 0 /\ c.charged = Unknown
      BY DEF NoClaim, ClaimRow
    <2>3. bumps[p].fate = "unsigned"
      BY <1>0, <2>1 DEF ClaimFits
    <2>4. bumps' = [bumps EXCEPT ![p] = bumps[p]] /\ asks'[p].at = "idle"
      BY <2>1 DEF Idle
    <2>5. holder' \in Payments \cup {Keeper, None} /\ owned' \subseteq Payments
      BY <2>1
    <2> HIDE DEF c
    <2>6. /\ claims' = [claims EXCEPT ![p] = c] /\ bumps' = [bumps EXCEPT ![p] = bumps[p]]
          /\ asks' = [asks EXCEPT ![p] = Idle] \/ asks' = asks
          /\ UNCHANGED <<clock, spends, round>>
          /\ holder' \in Payments \cup {Keeper, None} /\ owned' \subseteq Payments
          /\ asks'[p].at = "checked" => c.state = "none"
      BY <2>1, <2>4, <2>5
    <2> QED
      BY <1>f, <1>t, <2>2, <2>3, <2>6
  <1>2. CASE TakesOver(p) \/ OwnerDies(p)
    <2>1. /\ UNCHANGED <<clock, claims, spends, bumps, round>>
          /\ owned' \subseteq Payments /\ holder' \in Payments \cup {Keeper, None}
          /\ asks' = [asks EXCEPT ![p] = Idle] \/ asks' = asks
      BY <1>2 DEF TakesOver, OwnerDies, Commits
    <2>2. bumps' = [bumps EXCEPT ![p] = bumps[p]] /\ claims' = [claims EXCEPT ![p] = claims[p]]
      BY <2>1
    <2>3. asks'[p].at = "checked" => asks[p].at = "checked"
      BY <2>1 DEF Idle
    <2> QED
      BY <1>0, <1>f, <1>t, <2>1, <2>2, <2>3 DEF ClaimFits
  <1>3. CASE Signs(p)
    <2>1. PICK max \in 1..Reserve :
            /\ claims' = [claims EXCEPT ![p].state = "submitted", ![p].max = max]
            /\ bumps' = [bumps EXCEPT ![p] = [fate |-> "may", max |-> max, fee |-> 0]]
      BY <1>3 DEF Signs
    <2>2. /\ claims[p].state = "claimed" /\ owned' = owned \ {p}
          /\ UNCHANGED <<clock, holder, asks, spends, round>>
      BY <1>3 DEF Signs, Live
    <2> DEFINE c == [claims[p] EXCEPT !.state = "submitted", !.max = max]
               b == [fate |-> "may", max |-> max, fee |-> 0]
    <2>3. claims' = [claims EXCEPT ![p] = c] /\ bumps' = [bumps EXCEPT ![p] = b]
      BY <2>1
    <2>4. /\ c \in ClaimRow /\ c.state = "submitted" /\ c.max = max
          /\ c.charged = claims[p].charged
          /\ b \in FeeBump /\ b.fate = "may" /\ b.max = max
      BY <1>t DEF ClaimRow, FeeBump
    <2> HIDE DEF c, b
    <2> QED
      BY <1>0, <1>f, <2>2, <2>3, <2>4 DEF ClaimFits
  <1>4. CASE Abandons(p)
    <2>1. /\ claims[p].state = "claimed" /\ owned' = owned \ {p}
          /\ claims' = [claims EXCEPT ![p] = NoClaim]
          /\ UNCHANGED <<clock, holder, asks, spends, bumps, round>>
      BY <1>4 DEF Abandons, Live
    <2>2. /\ bumps' = [bumps EXCEPT ![p] = bumps[p]]
          /\ NoClaim.state = "none" /\ NoClaim.max = 0 /\ NoClaim.charged = Unknown
      BY <2>1 DEF NoClaim
    <2> QED
      BY <1>0, <1>f, <1>t, <2>1, <2>2 DEF ClaimFits
  <1>5. CASE Lands(p)
    <2>1. PICK fee \in 1..bumps[p].max :
            bumps' = [bumps EXCEPT ![p].fate = "charged", ![p].fee = fee]
      BY <1>5 DEF Lands
    <2>2. bumps[p].fate = "may" /\ UNCHANGED <<clock, holder, asks, claims, spends, round, owned>>
      BY <1>5 DEF Lands
    <2> DEFINE b == [bumps[p] EXCEPT !.fate = "charged", !.fee = fee]
    <2>3. /\ claims' = [claims EXCEPT ![p] = claims[p]] /\ bumps' = [bumps EXCEPT ![p] = b]
      BY <2>1, <2>2
    <2>4. bumps[p].max \in 1..Reserve /\ claims[p].max = bumps[p].max
      BY <1>0, <2>2 DEF ClaimFits
    <2>5. fee \in Fee /\ fee <= bumps[p].max
      BY <2>4
    <2>6. /\ b \in FeeBump /\ b.fate = "charged" /\ b.max = bumps[p].max /\ b.fee = fee
      BY <1>t, <2>5 DEF FeeBump
    <2>7. claims[p].state = "submitted" /\ claims[p].charged = Unknown
      <3>1. claims[p].state \notin {"none", "claimed", "succeeded", "failed", "expired"}
        BY <1>0, <2>2 DEF ClaimFits
      <3>2. claims[p].state = "submitted"
        BY <1>t, <3>1 DEF ClaimRow
      <3> QED
        BY <1>0, <3>2 DEF ClaimFits
    <2> HIDE DEF b
    <2> QED
      BY <1>0, <1>f, <1>t, <2>2, <2>3, <2>4, <2>5, <2>6, <2>7 DEF ClaimFits
  <1>6. CASE Finishes(p)
    <2>1. claims[p].state = "submitted" /\ UNCHANGED <<clock, holder, asks, spends, round, owned>>
      BY <1>6 DEF Finishes
    <2>2. CASE bumps[p].fate = "charged"
      <3>1. PICK state \in {"succeeded", "failed"}, known \in BOOLEAN :
              claims' = [claims EXCEPT ![p].state = state,
                           ![p].charged = IF known THEN bumps[p].fee ELSE Unknown]
        BY <1>6, <2>2 DEF Finishes
      <3>2. UNCHANGED bumps
        BY <1>6, <2>2 DEF Finishes
      <3> DEFINE charged == IF known THEN bumps[p].fee ELSE Unknown
                 c == [claims[p] EXCEPT !.state = state, !.charged = charged]
      <3>3. claims' = [claims EXCEPT ![p] = c] /\ bumps' = [bumps EXCEPT ![p] = bumps[p]]
        BY <3>1, <3>2
      <3>4. charged \in {bumps[p].fee, Unknown} /\ charged \in Fee \cup {Unknown}
        BY <1>t DEF FeeBump
      <3> HIDE DEF charged
      <3>5. /\ c \in ClaimRow /\ c.state = state /\ c.max = claims[p].max /\ c.charged = charged
        BY <1>t, <3>4 DEF ClaimRow
      <3> HIDE DEF c
      <3> QED
        BY <1>0, <1>f, <1>t, <2>1, <2>2, <3>3, <3>4, <3>5 DEF ClaimFits
    <2>3. CASE bumps[p].fate = "may"
      <3>1. PICK end \in {<<"expired", Unknown>>, <<"failed", 0>>, <<"succeeded", Unknown>>} :
              claims' = [claims EXCEPT ![p].state = end[1], ![p].charged = end[2]]
        BY <1>6, <2>3 DEF Finishes
      <3>2. bumps' = [bumps EXCEPT ![p].fate = "dead"]
        BY <1>6, <2>3 DEF Finishes
      <3> DEFINE c == [claims[p] EXCEPT !.state = end[1], !.charged = end[2]]
                 b == [bumps[p] EXCEPT !.fate = "dead"]
      <3>3. claims' = [claims EXCEPT ![p] = c] /\ bumps' = [bumps EXCEPT ![p] = b]
        BY <3>1, <3>2
      <3>4. end[1] \in {"expired", "failed", "succeeded"} /\ end[2] \in Fee \cup {Unknown}
        OBVIOUS
      <3>5. /\ c \in ClaimRow /\ c.state = end[1]
            /\ b \in FeeBump /\ b.fate = "dead"
        BY <1>t, <3>4 DEF ClaimRow, FeeBump
      <3> HIDE DEF c, b
      <3> QED
        BY <1>0, <1>f, <2>1, <2>3, <3>3, <3>4, <3>5 DEF ClaimFits
    <2> QED
      BY <1>6, <2>2, <2>3 DEF Finishes
  <1> QED
    BY <1>1, <1>2, <1>3, <1>4, <1>5, <1>6

\* The types of the keeper's rows and of its round.
SpendRow == [booked : BOOLEAN, created : 0..LastTick, fee : Fee]
RoundState == [no : Rounds \cup {0}, at : {"idle", "run", "sent", "correct"},
               fee : Fee \cup {Unknown}]

LEMMA KeeperSteps ==
  ASSUME BudgetSound,
         \/ KeeperReserves \/ NotSubmitted \/ Submits \/ LearnsCharge \/ Corrects \/ KeeperDies
         \/ \E r \in Rounds : Lands(r)
  PROVE  BudgetSound'
  <1> USE BudgetNumbers, BudgetFacts
  <1>0. \A r \in Rounds : RoundFits(r)
    BY DEF BudgetSound
  <1>n. /\ round.no \in Rounds \cup {0}
        /\ round.at # "idle" => round.no \in Rounds
        /\ asks[Keeper].at # "idle" => round.at = "idle" /\ round.no + 1 \in Rounds
    BY DEF BudgetSound
  <1>t. /\ spends \in [Rounds -> SpendRow] /\ bumps \in [Payments \cup Rounds -> FeeBump]
        /\ round \in RoundState
        /\ Idle \in [at : {"idle", "begun", "locked", "checked"}, started : 0..LastTick]
        /\ Idle.at = "idle"
    BY DEF SpendRow, FeeBump, RoundState, Idle
  <1>m. round.no \in Nat /\ \A r \in Rounds : r \in Nat /\ r # Keeper
    BY <1>n DEF Keeper
  \* A step of the round alone.
  <1>r. ASSUME NEW d \in RoundState, round' = d, d.no = round.no, round.at # "idle",
               UNCHANGED <<clock, holder, asks, claims, bumps, owned>>,
               spends' \in [Rounds -> SpendRow], \A r \in Rounds : RoundFits(r)'
        PROVE  BudgetSound'
    <2>1. asks[Keeper].at = "idle" /\ round.no \in Rounds
      BY <1>n, <1>r
    <2> QED
      BY <1>r, <2>1, RoundSound DEF SpendRow, RoundState
  <1>1. CASE KeeperReserves
    <2>0. asks[Keeper].at = "checked"
      BY <1>1 DEF KeeperReserves
    <2>a. round.at = "idle" /\ round.no + 1 \in Rounds
      BY <1>n, <2>0
    <2>2. PICK n \in Rounds : n = round.no + 1
      BY <2>a
    <2> DEFINE d == [no |-> n, at |-> "run", fee |-> Unknown]
               s == [booked |-> TRUE, created |-> asks[Keeper].started, fee |-> Ceiling]
    <2>1. /\ round' = d /\ spends' = [spends EXCEPT ![n] = s]
          /\ asks' = [asks EXCEPT ![Keeper] = Idle] /\ holder' = None
          /\ UNCHANGED <<clock, claims, bumps, owned>>
      BY <1>1, <2>2 DEF KeeperReserves, Commits
    <2>3. d \in RoundState /\ d.no = n /\ d.at = "run"
      BY <2>2 DEF RoundState
    <2>4. s \in SpendRow /\ s.fee = Ceiling
      BY DEF SpendRow
    <2> HIDE DEF d, s
    <2>5. /\ spends' \in [Rounds -> SpendRow] /\ spends'[n].fee = Ceiling
          /\ \A r \in Rounds : r # n => spends'[r] = spends[r]
      BY <1>t, <2>1, <2>2, <2>4
    <2>6. \A r \in Rounds : r # n => RoundFits(r)'
      <3> SUFFICES ASSUME NEW r \in Rounds, r # n PROVE RoundFits(r)'
        OBVIOUS
      <3>1. /\ RoundFits(r) /\ round'.no = n /\ round'.at = "run" /\ bumps' = bumps
            /\ spends'[r] = spends[r]
        BY <1>0, <2>1, <2>3, <2>5
      <3>2. r > n => r > round.no
        BY <1>m, <2>2
      <3> QED
        BY <2>2, <2>a, <3>1, <3>2 DEF RoundFits
    <2>7. RoundFits(n)'
      <3>0. RoundFits(n) /\ n > round.no
        BY <1>0, <1>m, <2>2
      <3>1. bumps[n].fate = "unsigned"
        BY <3>0 DEF RoundFits
      <3> QED
        BY <2>1, <2>3, <2>5, <3>1 DEF RoundFits
    <2>8. /\ asks' \in [Payments \cup {Keeper} ->
               [at : {"idle", "begun", "locked", "checked"}, started : 0..LastTick]]
          /\ asks'[Keeper].at = "idle" /\ \A p \in Payments : asks'[p] = asks[p]
          /\ holder' \in Payments \cup {Keeper, None}
      BY <1>t, <2>1
    <2> QED
      <3>1. \A r \in Rounds : RoundFits(r)'
        BY <2>6, <2>7
      <3>2. /\ round'.at # "idle" => round'.no \in Rounds
            /\ round' \in RoundState /\ bumps' \in [Payments \cup Rounds -> FeeBump]
        BY <1>t, <2>1, <2>3
      <3> QED
        BY <2>1, <2>5, <2>8, <3>1, <3>2, RoundSound DEF SpendRow, RoundState, FeeBump
  <1>2. CASE NotSubmitted
    <2> DEFINE d == [round EXCEPT !.at = "correct", !.fee = 0]
    <2>1. /\ round.at = "run" /\ round' = d
          /\ UNCHANGED <<clock, holder, asks, claims, spends, bumps, owned>>
      BY <1>2 DEF NotSubmitted
    <2>2. d \in RoundState /\ d.no = round.no /\ d.at = "correct" /\ d.fee = 0
      BY <1>t DEF RoundState
    <2> HIDE DEF d
    <2>3. \A r \in Rounds : RoundFits(r)'
      BY <1>0, <1>n, <2>1, <2>2 DEF RoundFits
    <2> QED
      BY <1>r, <1>t, <2>1, <2>2, <2>3
  <1>3. CASE LearnsCharge
    <2>1. round.at = "sent" /\ UNCHANGED <<clock, holder, asks, claims, spends, bumps, owned>>
      BY <1>3 DEF LearnsCharge
    <2>2. CASE bumps[round.no].fate = "charged"
               /\ round' = [round EXCEPT !.at = "correct", !.fee = bumps[round.no].fee]
      <3> DEFINE d == [round EXCEPT !.at = "correct", !.fee = bumps[round.no].fee]
      <3>1. bumps[round.no].fee \in Fee
        BY <1>n, <1>t, <2>1 DEF FeeBump
      <3>2. /\ d \in RoundState /\ d.no = round.no /\ d.at = "correct"
            /\ d.fee = bumps[round.no].fee /\ round' = d
        BY <1>t, <2>2, <3>1 DEF RoundState
      <3> HIDE DEF d
      <3>3. \A r \in Rounds : RoundFits(r)'
        BY <1>0, <1>n, <2>1, <2>2, <3>2 DEF RoundFits
      <3> QED
        BY <1>r, <1>t, <2>1, <3>2, <3>3
    <2>3. CASE round' = [round EXCEPT !.at = "idle", !.fee = Unknown]
      <3> DEFINE d == [round EXCEPT !.at = "idle", !.fee = Unknown]
      <3>1. d \in RoundState /\ d.no = round.no /\ d.at = "idle" /\ round' = d
        BY <1>t, <2>3 DEF RoundState
      <3> HIDE DEF d
      <3>2. \A r \in Rounds : RoundFits(r)'
        BY <1>0, <1>n, <2>1, <3>1 DEF RoundFits
      <3> QED
        BY <1>r, <1>t, <2>1, <3>1, <3>2
    <2> QED
      BY <1>3, <2>2, <2>3 DEF LearnsCharge
  <1>4. CASE Corrects
    <2> DEFINE d == [round EXCEPT !.at = "idle", !.fee = Unknown]
    <2>1. /\ round.at = "correct" /\ round' = d
          /\ UNCHANGED <<clock, holder, asks, claims, bumps, owned>>
      BY <1>4 DEF Corrects
    <2>2. spends' = [spends EXCEPT ![round.no].fee = round.fee] \/ spends' = spends
      BY <1>4 DEF Corrects
    <2>3. d \in RoundState /\ d.no = round.no /\ d.at = "idle"
      BY <1>t DEF RoundState
    <2> HIDE DEF d
    <2>0. round.no \in Rounds
      BY <1>n, <2>1
    <2>4. \/ bumps[round.no].fate = "unsigned" /\ round.fee = 0
          \/ bumps[round.no].fate = "charged" /\ round.fee = bumps[round.no].fee
      BY <1>0, <2>0, <2>1 DEF RoundFits
    <2>5. round.no \in Rounds /\ round.fee \in Fee
      BY <1>t, <2>0, <2>4 DEF FeeBump
    <2>6. /\ spends' \in [Rounds -> SpendRow]
          /\ spends'[round.no].fee = round.fee \/ spends' = spends
          /\ \A r \in Rounds : r # round.no => spends'[r] = spends[r]
      <3>1. CASE spends' = spends
        BY <1>t, <3>1
      <3>2. CASE spends' = [spends EXCEPT ![round.no].fee = round.fee]
        <4> DEFINE s == [spends[round.no] EXCEPT !.fee = round.fee]
        <4>1. s \in SpendRow /\ s.fee = round.fee
          <5>1. spends[round.no] \in SpendRow
            BY <1>t, <2>5
          <5> QED
            BY <2>5, <5>1 DEF SpendRow
        <4>2. spends' = [spends EXCEPT ![round.no] = s]
          BY <3>2
        <4> HIDE DEF s
        <4> QED
          BY <1>t, <2>5, <4>1, <4>2
      <3> QED
        BY <2>2, <3>1, <3>2
    <2>7. \A r \in Rounds : r # round'.no => RoundFits(r)'
      BY <1>0, <1>n, <2>1, <2>3, <2>6 DEF RoundFits
    <2>8. \A r \in Rounds : r = round'.no => RoundFits(r)'
      <3> SUFFICES ASSUME NEW r \in Rounds, r = round'.no PROVE RoundFits(r)'
        OBVIOUS
      <3>1. RoundFits(r) /\ r = round.no
        BY <1>0, <2>1, <2>3
      <3>2. round'.no = r /\ round'.at = "idle" /\ bumps' = bumps
        BY <2>1, <2>3
      <3>3. bumps[r].fate = "charged" => bumps[r].fee <= spends'[r].fee
        <4>1. bumps[r].fate = "charged" => round.fee = bumps[r].fee
          BY <2>4, <3>1
        <4>2. bumps[r] \in FeeBump /\ bumps[r].fee \in Nat
          BY <1>t DEF FeeBump
        <4>3. spends'[r].fee = round.fee \/ spends'[r] = spends[r]
          BY <2>6, <3>1
        <4>4. bumps[r].fate = "charged" => bumps[r].fee <= spends[r].fee
          BY <3>1 DEF RoundFits
        <4> QED
          BY <4>1, <4>2, <4>3, <4>4
      <3>4. bumps[r].fate # "may"
        BY <2>4, <3>1
      <3> QED
        BY <3>1, <3>2, <3>3, <3>4 DEF RoundFits
    <2>9. \A r \in Rounds : RoundFits(r)'
      BY <2>3, <2>1, <2>7, <2>8
    <2> QED
      BY <1>r, <2>1, <2>3, <2>6, <2>9
  <1>5. CASE KeeperDies
    <2> DEFINE d == [round EXCEPT !.at = "idle", !.fee = Unknown]
    <2>1. /\ round.at # "idle" /\ round' = d
          /\ UNCHANGED <<clock, holder, asks, claims, spends, bumps, owned>>
      BY <1>5 DEF KeeperDies
    <2>2. d \in RoundState /\ d.no = round.no /\ d.at = "idle"
      BY <1>t DEF RoundState
    <2> HIDE DEF d
    <2>3. \A r \in Rounds : RoundFits(r)'
      BY <1>0, <1>n, <2>1, <2>2 DEF RoundFits
    <2> QED
      BY <1>r, <1>t, <2>1, <2>2, <2>3
  <1>6. CASE Submits
    <2>1. round.at = "run" /\ UNCHANGED <<clock, holder, asks, claims, spends, owned>>
      BY <1>6 DEF Submits
    <2>2. PICK n \in Rounds : n = round.no
      BY <1>n, <2>1
    <2> DEFINE b == [fate |-> "may", max |-> Ceiling, fee |-> 0]
               d == [round EXCEPT !.at = "sent"]
    <2>3. bumps' = [bumps EXCEPT ![n] = b] /\ round' = d
      BY <1>6, <2>2 DEF Submits
    <2>4. /\ b \in FeeBump /\ b.fate = "may" /\ b.max = Ceiling
          /\ d \in RoundState /\ d.no = n /\ d.at = "sent"
      BY <1>t, <2>2 DEF FeeBump, RoundState
    <2> HIDE DEF b, d
    <2>5. RoundFits(n)'
      <3>1. RoundFits(n) /\ bumps'[n] = b
        BY <1>0, <1>t, <2>3
      <3>2. spends[n].fee = Ceiling
        BY <2>1, <2>2, <3>1 DEF RoundFits
      <3>3. /\ bumps'[n].fate = "may" /\ bumps'[n].max = Ceiling /\ spends'[n].fee = Ceiling
            /\ round'.no = n /\ round'.at = "sent" /\ ~(n > n)
        BY <1>m, <2>1, <2>3, <2>4, <3>1, <3>2
      <3> QED
        BY <3>3 DEF RoundFits
    <2>6. \A r \in Rounds : r # n => RoundFits(r)'
      BY <1>0, <1>t, <2>1, <2>2, <2>3, <2>4 DEF RoundFits
    <2>7. /\ bumps' \in [Payments \cup Rounds -> FeeBump]
          /\ \A p \in Payments : bumps'[p] = bumps[p]
      BY <1>t, <2>2, <2>3, <2>4
    <2>8. /\ asks[Keeper].at = "idle" /\ \A r \in Rounds : RoundFits(r)'
          /\ round' \in RoundState /\ round'.no \in Rounds
      BY <1>n, <2>1, <2>3, <2>4, <2>5, <2>6
    <2> QED
      BY <1>t, <2>1, <2>7, <2>8, RoundSound DEF SpendRow, RoundState, FeeBump
  <1>7. ASSUME NEW x \in Rounds, Lands(x) PROVE BudgetSound'
    <2>1. PICK fee \in 1..bumps[x].max :
            bumps' = [bumps EXCEPT ![x].fate = "charged", ![x].fee = fee]
      BY <1>7 DEF Lands
    <2>2. bumps[x].fate = "may" /\ UNCHANGED <<clock, holder, asks, claims, spends, round, owned>>
      BY <1>7 DEF Lands
    <2> DEFINE b == [bumps[x] EXCEPT !.fate = "charged", !.fee = fee]
    <2>3. bumps' = [bumps EXCEPT ![x] = b]
      BY <2>1
    <2>4. RoundFits(x) /\ bumps[x].max = Ceiling
      BY <1>0, <2>2 DEF RoundFits
    <2>5. fee \in Fee /\ fee <= Ceiling
      BY <2>4 DEF Fee
    <2>6. b \in FeeBump /\ b.fate = "charged" /\ b.fee = fee
      <3>1. bumps[x] \in FeeBump
        BY <1>t
      <3> QED
        BY <2>5, <3>1 DEF FeeBump
    <2> HIDE DEF b
    <2>7. RoundFits(x)'
      <3>1. bumps'[x] = b
        BY <1>t, <2>3
      <3>2. spends[x].fee = Ceiling
        BY <2>2, <2>4 DEF RoundFits
      <3>3. ~(round.no = x /\ round.at = "run") /\ ~(x > round.no)
            /\ ~(round.no = x /\ round.at = "correct")
        BY <2>2, <2>4 DEF RoundFits
      <3> QED
        BY <2>2, <2>5, <2>6, <3>1, <3>2, <3>3 DEF RoundFits
    <2>8. \A r \in Rounds : r # x => RoundFits(r)'
      BY <1>0, <1>t, <2>2, <2>3 DEF RoundFits
    <2>9. /\ bumps' \in [Payments \cup Rounds -> FeeBump]
          /\ \A p \in Payments : bumps'[p] = bumps[p]
      BY <1>t, <2>3, <2>6
    <2>10. /\ \A r \in Rounds : RoundFits(r)'
           /\ round'.at # "idle" => round'.no \in Rounds
           /\ asks'[Keeper].at # "idle" => round'.at = "idle" /\ round'.no = round.no
      BY <1>n, <2>2, <2>7, <2>8
    <2> QED
      BY <1>t, <2>2, <2>9, <2>10, RoundSound DEF SpendRow, RoundState, FeeBump
  <1> QED
    BY <1>1, <1>2, <1>3, <1>4, <1>5, <1>6, <1>7
LEMMA BudgetStep == BudgetSound /\ [BudgetNext]_budgetVars => BudgetSound'
  <1> SUFFICES ASSUME BudgetSound, [BudgetNext]_budgetVars PROVE BudgetSound'
    OBVIOUS
  <1> USE BudgetNumbers
  <1>1. CASE Ticks
    <2>1. /\ clock < LastTick /\ clock' = clock + 1
          /\ UNCHANGED <<holder, asks, claims, spends, bumps, round, owned>>
      BY <1>1 DEF Ticks
    <2>2. clock' \in 0..LastTick
      BY <2>1, BudgetFacts
    <2>3. BudgetTypeOK'
      BY <2>1, <2>2 DEF BudgetSound, BudgetTypeOK
    <2>4. (\A p \in Payments : ClaimFits(p))' /\ (\A r \in Rounds : RoundFits(r))'
      BY <2>1 DEF BudgetSound, ClaimFits, RoundFits
    <2> QED
      BY <2>1, <2>3, <2>4 DEF BudgetSound
  <1>2. CASE UNCHANGED budgetVars
    <2>1. BudgetTypeOK'
      BY <1>2 DEF BudgetSound, BudgetTypeOK, budgetVars
    <2>2. (\A p \in Payments : ClaimFits(p))' /\ (\A r \in Rounds : RoundFits(r))'
      BY <1>2 DEF BudgetSound, ClaimFits, RoundFits, budgetVars
    <2> QED
      BY <1>2, <2>1, <2>2 DEF BudgetSound, budgetVars
  <1>3. CASE \/ \E a \in Payments \cup {Keeper} : Locks(a) \/ Checks(a) \/ RollsBack(a)
             \/ \E p \in Payments : AsksForClaim(p)
             \/ KeeperAsks
    BY <1>3, AdmissionSteps
  <1>4. ASSUME NEW p \in Payments,
               \/ Inserts(p) \/ TakesOver(p) \/ Signs(p) \/ Abandons(p)
               \/ OwnerDies(p) \/ Finishes(p) \/ Lands(p)
        PROVE  BudgetSound'
    BY <1>4, PaymentSteps
  <1>5. CASE \/ KeeperReserves \/ NotSubmitted \/ Submits \/ LearnsCharge \/ Corrects \/ KeeperDies
             \/ \E r \in Rounds : Lands(r)
    BY <1>5, KeeperSteps
  <1> QED
    BY <1>1, <1>2, <1>3, <1>4, <1>5 DEF BudgetNext

LEMMA SoundCountsExposure == BudgetSound => CountsExposure
  <1> SUFFICES ASSUME BudgetSound PROVE CountsExposure
    OBVIOUS
  <1> USE BudgetNumbers
  <1>1. ASSUME NEW p \in Payments PROVE Exposure(p) <= Counted(p)
    <2>0. ClaimFits(p) /\ claims[p] \in ClaimRow /\ bumps[p] \in FeeBump
      BY BudgetFacts DEF BudgetSound, ClaimRow, FeeBump
    <2>1. /\ claims[p].max \in Nat /\ bumps[p].max \in Nat /\ bumps[p].fee \in Nat
          /\ claims[p].charged \in Nat \cup {Unknown}
      BY <2>0 DEF ClaimRow, FeeBump
    <2>2. CASE claims[p].state = "none"
      <3>1. bumps[p].fate = "unsigned"
        BY <2>0, <2>2 DEF ClaimFits
      <3>2. Exposure(p) = 0 /\ Counted(p) = 0
        BY <2>2, <3>1 DEF Exposure, Counted
      <3> QED
        BY <3>2
    <2>3. CASE claims[p].state = "claimed"
      <3>1. claims[p].max = 0
        BY <2>0, <2>3 DEF ClaimFits
      <3>2. Exposure(p) = Reserve /\ Counted(p) = Reserve
        BY <2>3, <3>1 DEF Exposure, Counted
      <3> QED
        BY <3>2
    <2>4. CASE claims[p].state = "submitted"
      <3>1. /\ bumps[p].fate \in {"may", "charged"} /\ claims[p].max = bumps[p].max
            /\ bumps[p].max # 0 /\ (bumps[p].fate = "charged" => bumps[p].fee <= bumps[p].max)
        BY <2>0, <2>4 DEF ClaimFits
      <3>2. Counted(p) = bumps[p].max
        BY <2>4, <3>1 DEF Counted
      <3>3. Exposure(p) = IF bumps[p].fate = "may" THEN bumps[p].max ELSE bumps[p].fee
        BY <2>4, <3>1 DEF Exposure
      <3> QED
        BY <2>1, <3>1, <3>2, <3>3
    <2>5. CASE claims[p].state \in {"succeeded", "failed", "expired"}
      <3>1. bumps[p].fate \in {"charged", "dead"}
        BY <2>0, <2>5 DEF ClaimFits
      <3>2. CASE bumps[p].fate = "dead"
        <4>1. Exposure(p) = 0
          BY <2>5, <3>2 DEF Exposure
        <4>2. Counted(p) \in Nat
          BY <2>1, <2>5 DEF Counted
        <4> QED
          BY <4>1, <4>2
      <3>3. CASE bumps[p].fate = "charged"
        <4>1. /\ claims[p].charged \in {bumps[p].fee, Unknown} /\ claims[p].state # "expired"
              /\ claims[p].max = bumps[p].max /\ bumps[p].max # 0 /\ bumps[p].fee <= bumps[p].max
          BY <2>0, <3>3 DEF ClaimFits
        <4>2. Counted(p) = IF claims[p].charged # Unknown THEN bumps[p].fee ELSE bumps[p].max
          BY <2>5, <4>1 DEF Counted
        <4>3. Exposure(p) = bumps[p].fee
          BY <2>5, <3>3 DEF Exposure
        <4> QED
          BY <2>1, <4>1, <4>2, <4>3
      <3> QED
        BY <3>1, <3>2, <3>3
    <2> QED
      BY <2>0, <2>2, <2>3, <2>4, <2>5 DEF ClaimRow
  <1>2. ASSUME NEW r \in Rounds PROVE Exposure(r) <= spends[r].fee
    <2>0. RoundFits(r) /\ bumps[r] \in FeeBump /\ spends[r] \in SpendRow /\ r \notin Payments
      BY BudgetFacts DEF BudgetSound, FeeBump, SpendRow
    <2>1. bumps[r].max \in Nat /\ bumps[r].fee \in Nat /\ spends[r].fee \in Nat
      BY <2>0 DEF FeeBump, SpendRow
    <2>2. /\ bumps[r].fate = "may" => spends[r].fee = bumps[r].max
          /\ bumps[r].fate = "charged" => bumps[r].fee <= spends[r].fee
      BY <2>0 DEF RoundFits
    <2>3. /\ bumps[r].fate = "may" => Exposure(r) = bumps[r].max
          /\ bumps[r].fate = "charged" => Exposure(r) = bumps[r].fee
          /\ bumps[r].fate \notin {"may", "charged"} => Exposure(r) = 0
      BY <2>0 DEF Exposure
    <2> QED
      BY <2>1, <2>2, <2>3
  <1> QED
    BY <1>1, <1>2 DEF CountsExposure

\* The budget's part of every behaviour: what the ledger counts of the claims
\* and the keeper's rounds fits what may have become of their transactions.
THEOREM BudgetIsSound == PartsSpec => [](subject = "budget" => BudgetSound)
  <1>1. PartsInit => (subject = "budget" => BudgetSound)
    BY BudgetStart DEF PartsInit
  <1>2. ASSUME subject = "budget" => BudgetSound, [PartsNext]_partsVars
        PROVE  (subject = "budget" => BudgetSound)'
    <2> SUFFICES ASSUME subject' = "budget" PROVE BudgetSound'
      OBVIOUS
    <2>1. subject = "budget" /\ [BudgetNext]_budgetVars
      BY <1>2 DEF PartsNext, partsVars
    <2> QED
      BY <1>2, <2>1, BudgetStep
  <1> QED
    BY <1>1, <1>2, PTL DEF PartsSpec

\* What the ledger counts is never less than what the sponsor paid or may still
\* pay for a settlement or a keeper's round, whatever answer was lost, for any
\* number of payments and rounds (CountsExposure: committedIn, settleFailed and
\* correct of settlement-ledger.ts and upto-keeper.ts).
THEOREM CountedForGood == PartsSpec => []ExposureCounted
  <1>1. (subject = "budget" => BudgetSound) => ExposureCounted
    BY SoundCountsExposure DEF ExposureCounted
  <1> QED
    BY <1>1, BudgetIsSound, PTL

-----------------------------------------------------------------------------
(* FeeBudget: what is counted stays within the limits.                       *)

-----------------------------------------------------------------------------
CountOf == [p \in Payments |-> Counted(p)]
FeeOf == [r \in Rounds |-> spends[r].fee]
ExposureOf == [x \in Payments \cup Rounds |-> Exposure(x)]

LEMMA FiniteParts ==
  ASSUME NEW S \in SUBSET (Payments \cup Rounds)
  PROVE  IsFiniteSet(S)
  BY BudgetAssumption, FS_Subset

\* What is counted for a settlement, and what may be paid, are numbers.
LEMMA BudgetCounts ==
  ASSUME BudgetSound
  PROVE  /\ \A p \in Payments : Counted(p) \in Nat /\ CountOf[p] = Counted(p)
         /\ \A r \in Rounds : spends[r].fee \in Nat /\ FeeOf[r] = spends[r].fee
         /\ \A x \in Payments \cup Rounds : Exposure(x) \in Nat /\ ExposureOf[x] = Exposure(x)
  <1> USE BudgetNumbers, BudgetFacts
  <1>1. ASSUME NEW p \in Payments PROVE Counted(p) \in Nat
    <2>1. claims[p].max \in Nat /\ (claims[p].charged # Unknown => claims[p].charged \in Nat)
      OBVIOUS
    <2> QED
      BY <2>1 DEF Counted
  <1>2. \A r \in Rounds : spends[r].fee \in Nat
    OBVIOUS
  <1>3. ASSUME NEW x \in Payments \cup Rounds PROVE Exposure(x) \in Nat
    <2>1. bumps[x].max \in Nat /\ bumps[x].fee \in Nat
      OBVIOUS
    <2> QED
      BY <2>1 DEF Exposure
  <1> QED
    BY <1>1, <1>2, <1>3 DEF CountOf, FeeOf, ExposureOf

LEMMA SumOfCounted ==
  ASSUME BudgetSound, NEW S \in SUBSET Payments
  PROVE  MapThenSumSet(Counted, S) = Total(CountOf, S)
  <1> DEFINE E(g) == g = [s \in SUBSET S |-> IF s = {} THEN 0
                ELSE Counted(Some(s)) + g[s \ {Some(s)}]]
  <1>1. PICK h : h = CHOOSE g : E(g)
    OBVIOUS
  <1>2. MapThenSumSet(Counted, S) = h[S]
    BY <1>1 DEF MapThenSumSet, MapThenFoldSet, Some
  <1>3. ASSUME NEW g PROVE E(g) <=> IsSum(g, CountOf, S)
    <2>1. ASSUME NEW s \in SUBSET S, s # {} PROVE Counted(Some(s)) = CountOf[Some(s)]
      <3>1. Some(s) \in Payments
        BY <2>1, SomeOf
      <3> QED
        BY <3>1, BudgetCounts
    <2> DEFINE A == [s \in SUBSET S |-> IF s = {} THEN 0
                  ELSE Counted(Some(s)) + g[s \ {Some(s)}]]
               B == [s \in SUBSET S |-> Sums(g, CountOf, s)]
    <2>2. A = B
      BY <2>1 DEF Sums
    <2>3. E(g) <=> g = A
      OBVIOUS
    <2>4. IsSum(g, CountOf, S) <=> g = B
      BY DEF IsSum
    <2> HIDE DEF A, B, E
    <2> QED
      BY <2>2, <2>3, <2>4
  <1>4. IsFiniteSet(S) /\ \A x \in S : CountOf[x] \in Int
    BY FiniteParts, BudgetCounts
  <1> HIDE DEF E
  <1>5. \E g : E(g)
    BY <1>3, <1>4, SumIsTotal
  <1>6. E(h)
    BY <1>1, <1>5
  <1> QED
    BY <1>2, <1>3, <1>4, <1>6, SumIsTotal

LEMMA SumOfFees ==
  ASSUME BudgetSound, NEW S \in SUBSET Rounds
  PROVE  MapThenSumSet(LAMBDA r : spends[r].fee, S) = Total(FeeOf, S)
  <1> DEFINE E(g) == g = [s \in SUBSET S |-> IF s = {} THEN 0
                ELSE spends[Some(s)].fee + g[s \ {Some(s)}]]
  <1>1. PICK h : h = CHOOSE g : E(g)
    OBVIOUS
  <1>2. MapThenSumSet(LAMBDA r : spends[r].fee, S) = h[S]
    BY <1>1 DEF MapThenSumSet, MapThenFoldSet, Some
  <1>3. ASSUME NEW g PROVE E(g) <=> IsSum(g, FeeOf, S)
    <2>1. ASSUME NEW s \in SUBSET S, s # {} PROVE spends[Some(s)].fee = FeeOf[Some(s)]
      <3>1. Some(s) \in Rounds
        BY <2>1, SomeOf
      <3> QED
        BY <3>1, BudgetCounts
    <2> DEFINE A == [s \in SUBSET S |-> IF s = {} THEN 0
                  ELSE spends[Some(s)].fee + g[s \ {Some(s)}]]
               B == [s \in SUBSET S |-> Sums(g, FeeOf, s)]
    <2>2. A = B
      BY <2>1 DEF Sums
    <2>3. E(g) <=> g = A
      OBVIOUS
    <2>4. IsSum(g, FeeOf, S) <=> g = B
      BY DEF IsSum
    <2> HIDE DEF A, B, E
    <2> QED
      BY <2>2, <2>3, <2>4
  <1>4. IsFiniteSet(S) /\ \A x \in S : FeeOf[x] \in Int
    BY FiniteParts, BudgetCounts
  <1> HIDE DEF E
  <1>5. \E g : E(g)
    BY <1>3, <1>4, SumIsTotal
  <1>6. E(h)
    BY <1>1, <1>5
  <1> QED
    BY <1>2, <1>3, <1>4, <1>6, SumIsTotal

LEMMA SumOfExposure ==
  ASSUME BudgetSound, NEW S \in SUBSET (Payments \cup Rounds)
  PROVE  MapThenSumSet(Exposure, S) = Total(ExposureOf, S)
  <1> DEFINE E(g) == g = [s \in SUBSET S |-> IF s = {} THEN 0
                ELSE Exposure(Some(s)) + g[s \ {Some(s)}]]
  <1>1. PICK h : h = CHOOSE g : E(g)
    OBVIOUS
  <1>2. MapThenSumSet(Exposure, S) = h[S]
    BY <1>1 DEF MapThenSumSet, MapThenFoldSet, Some
  <1>3. ASSUME NEW g PROVE E(g) <=> IsSum(g, ExposureOf, S)
    <2>1. ASSUME NEW s \in SUBSET S, s # {} PROVE Exposure(Some(s)) = ExposureOf[Some(s)]
      <3>1. Some(s) \in Payments \cup Rounds
        BY <2>1, SomeOf
      <3> QED
        BY <3>1, BudgetCounts
    <2> DEFINE A == [s \in SUBSET S |-> IF s = {} THEN 0
                  ELSE Exposure(Some(s)) + g[s \ {Some(s)}]]
               B == [s \in SUBSET S |-> Sums(g, ExposureOf, s)]
    <2>2. A = B
      BY <2>1 DEF Sums
    <2>3. E(g) <=> g = A
      OBVIOUS
    <2>4. IsSum(g, ExposureOf, S) <=> g = B
      BY DEF IsSum
    <2> HIDE DEF A, B, E
    <2> QED
      BY <2>2, <2>3, <2>4
  <1>4. IsFiniteSet(S) /\ \A x \in S : ExposureOf[x] \in Int
    BY FiniteParts, BudgetCounts
  <1> HIDE DEF E
  <1>5. \E g : E(g)
    BY <1>3, <1>4, SumIsTotal
  <1>6. E(h)
    BY <1>1, <1>5
  <1> QED
    BY <1>2, <1>3, <1>4, <1>6, SumIsTotal

\* The rows of a window.
Recent(P, t) == {p \in P : claims[p].created >= t}
RecentRounds(t) == {r \in Rounds : spends[r].created >= t}

\* What is counted, and how the ledger's sums are totals of it.
CountsAreNumbers ==
  /\ \A p \in Payments : CountOf[p] \in Nat /\ CountOf[p] = Counted(p)
                         /\ claims[p].created \in Nat
  /\ \A r \in Rounds : FeeOf[r] \in Nat /\ FeeOf[r] = spends[r].fee /\ spends[r].created \in Nat
  /\ \A P \in SUBSET Payments, t \in Int : CommittedIn(P, t) = Total(CountOf, Recent(P, t))
  /\ \A t \in Int : SpendIn(t) = Total(FeeOf, RecentRounds(t))

LEMMA Numbers == BudgetSound => CountsAreNumbers
  <1> SUFFICES ASSUME BudgetSound PROVE CountsAreNumbers
    OBVIOUS
  <1>1. \A p \in Payments : CountOf[p] \in Nat /\ CountOf[p] = Counted(p)
                            /\ claims[p].created \in Nat
    BY BudgetCounts, BudgetFacts, BudgetNumbers
  <1>2. \A r \in Rounds : FeeOf[r] \in Nat /\ FeeOf[r] = spends[r].fee /\ spends[r].created \in Nat
    BY BudgetCounts, BudgetFacts, BudgetNumbers
  <1>3. ASSUME NEW P \in SUBSET Payments, NEW t \in Int
        PROVE  CommittedIn(P, t) = Total(CountOf, Recent(P, t))
    <2>1. Recent(P, t) \in SUBSET Payments
      BY DEF Recent
    <2>2. MapThenSumSet(Counted, Recent(P, t)) = Total(CountOf, Recent(P, t))
      BY <2>1, SumOfCounted
    <2> QED
      BY <2>2 DEF CommittedIn, Recent
  <1>4. ASSUME NEW t \in Int PROVE SpendIn(t) = Total(FeeOf, RecentRounds(t))
    <2>1. RecentRounds(t) \in SUBSET Rounds
      BY DEF RecentRounds
    <2>2. MapThenSumSet(LAMBDA r : spends[r].fee, RecentRounds(t)) = Total(FeeOf, RecentRounds(t))
      BY <2>1, SumOfFees
    <2> QED
      BY <2>2 DEF SpendIn, RecentRounds
  <1> QED
    BY <1>1, <1>2, <1>3, <1>4 DEF CountsAreNumbers

LEMMA NumbersAfter == BudgetSound' => CountsAreNumbers'
  BY Numbers, PTL

\* Rows that count no more, and were made no later, add up to no more.
LEMMA CommittedNoMore ==
  ASSUME BudgetSound, BudgetSound', NEW P \in SUBSET Payments,
         NEW t \in Int, NEW u \in Int, t <= u,
         \A p \in P : CountOf[p]' <= CountOf[p] /\ claims'[p].created <= claims[p].created
  PROVE  CommittedIn(P, u)' <= CommittedIn(P, t)
  <1>1. CountsAreNumbers /\ CountsAreNumbers'
    BY Numbers, NumbersAfter
  <1>2. PICK S : S = Recent(P, u)'
    OBVIOUS
  <1>3. PICK T : T = Recent(P, t)
    OBVIOUS
  <1>4. PICK f : f = CountOf'
    OBVIOUS
  <1>5. PICK e : e = CountOf
    OBVIOUS
  <1>6. S \in SUBSET T /\ T \in SUBSET Payments /\ T \in SUBSET P
    BY <1>1, <1>2, <1>3 DEF Recent, CountsAreNumbers
  <1>7. /\ \A x \in S : f[x] \in Int /\ f[x] <= e[x]
        /\ \A x \in T : e[x] \in Nat
    BY <1>1, <1>4, <1>5, <1>6 DEF CountsAreNumbers
  <1>8. IsFiniteSet(T)
    BY <1>6, FiniteParts
  <1>9. Total(f, S) <= Total(e, T)
    BY <1>6, <1>7, <1>8, TotalAtMost
  <1>10. CommittedIn(P, u)' = Total(f, S) /\ CommittedIn(P, t) = Total(e, T)
    BY <1>1, <1>2, <1>3, <1>4, <1>5 DEF CountsAreNumbers
  <1> QED
    BY <1>9, <1>10

LEMMA CommittedOneMore ==
  ASSUME BudgetSound, BudgetSound', NEW P \in SUBSET Payments, NEW q \in P,
         NEW t \in Int, NEW u \in Int, t <= u, CountOf[q]' <= Reserve,
         \A p \in P \ {q} : CountOf[p]' <= CountOf[p] /\ claims'[p].created <= claims[p].created
  PROVE  CommittedIn(P, u)' <= Reserve + CommittedIn(P, t)
  <1>1. CountsAreNumbers /\ CountsAreNumbers'
    BY Numbers, NumbersAfter
  <1>2. PICK S : S = Recent(P, u)'
    OBVIOUS
  <1>3. PICK T : T = Recent(P, t)
    OBVIOUS
  <1>4. PICK f : f = CountOf'
    OBVIOUS
  <1>5. PICK e : e = CountOf
    OBVIOUS
  <1>6. S \subseteq T \cup {q} /\ S \subseteq Payments /\ T \in SUBSET Payments
        /\ S \ {q} \subseteq P \ {q}
    BY <1>1, <1>2, <1>3 DEF Recent, CountsAreNumbers
  <1>7. /\ \A x \in S : f[x] \in Int
        /\ \A x \in S \ {q} : f[x] <= e[x]
        /\ \A x \in T : e[x] \in Nat
        /\ f[q] <= Reserve /\ Reserve \in Nat
    <2>1. /\ \A p \in Payments : f[p] \in Nat
          /\ \A p \in Payments : e[p] \in Nat
      BY <1>1, <1>4, <1>5 DEF CountsAreNumbers
    <2>2. \A x \in P \ {q} : f[x] <= e[x]
      BY <1>4, <1>5
    <2>3. f[q] <= Reserve /\ Reserve \in Nat
      BY <1>4, BudgetNumbers
    <2> QED
      BY <1>6, <2>1, <2>2, <2>3
  <1>8. IsFiniteSet(T)
    BY <1>6, FiniteParts
  <1>9. Total(f, S) <= Reserve + Total(e, T)
    BY <1>6, <1>7, <1>8, TotalOneMore
  <1>10. CommittedIn(P, u)' = Total(f, S) /\ CommittedIn(P, t) = Total(e, T)
    BY <1>1, <1>2, <1>3, <1>4, <1>5 DEF CountsAreNumbers
  <1> QED
    BY <1>9, <1>10

LEMMA SpendNoMore ==
  ASSUME BudgetSound, BudgetSound', NEW t \in Int, NEW u \in Int, t <= u,
         \A r \in Rounds : FeeOf[r]' <= FeeOf[r] /\ spends'[r].created <= spends[r].created
  PROVE  SpendIn(u)' <= SpendIn(t)
  <1>1. CountsAreNumbers /\ CountsAreNumbers'
    BY Numbers, NumbersAfter
  <1>2. PICK S : S = RecentRounds(u)'
    OBVIOUS
  <1>3. PICK T : T = RecentRounds(t)
    OBVIOUS
  <1>4. PICK f : f = FeeOf'
    OBVIOUS
  <1>5. PICK e : e = FeeOf
    OBVIOUS
  <1>6. S \in SUBSET T /\ T \in SUBSET Rounds
    BY <1>1, <1>2, <1>3 DEF RecentRounds, CountsAreNumbers
  <1>7. /\ \A x \in S : f[x] \in Int /\ f[x] <= e[x]
        /\ \A x \in T : e[x] \in Nat
    BY <1>1, <1>4, <1>5, <1>6 DEF CountsAreNumbers
  <1>8. IsFiniteSet(T)
    BY <1>6, FiniteParts
  <1>9. Total(f, S) <= Total(e, T)
    BY <1>6, <1>7, <1>8, TotalAtMost
  <1>10. SpendIn(u)' = Total(f, S) /\ SpendIn(t) = Total(e, T)
    BY <1>1, <1>2, <1>3, <1>4, <1>5 DEF CountsAreNumbers
  <1> QED
    BY <1>9, <1>10

LEMMA SpendOneMore ==
  ASSUME BudgetSound, BudgetSound', NEW t \in Int, NEW u \in Int, t <= u,
         NEW q \in Rounds, FeeOf[q]' <= Ceiling,
         \A r \in Rounds \ {q} : FeeOf[r]' <= FeeOf[r] /\ spends'[r].created <= spends[r].created
  PROVE  SpendIn(u)' <= Ceiling + SpendIn(t)
  <1>1. CountsAreNumbers /\ CountsAreNumbers'
    BY Numbers, NumbersAfter
  <1>2. PICK S : S = RecentRounds(u)'
    OBVIOUS
  <1>3. PICK T : T = RecentRounds(t)
    OBVIOUS
  <1>4. PICK f : f = FeeOf'
    OBVIOUS
  <1>5. PICK e : e = FeeOf
    OBVIOUS
  <1>6. S \subseteq T \cup {q} /\ S \subseteq Rounds /\ T \in SUBSET Rounds
    BY <1>1, <1>2, <1>3 DEF RecentRounds, CountsAreNumbers
  <1>7. /\ \A x \in S : f[x] \in Int
        /\ \A x \in S \ {q} : f[x] <= e[x]
        /\ \A x \in T : e[x] \in Nat
        /\ f[q] <= Ceiling /\ Ceiling \in Nat
    <2>1. /\ \A r \in Rounds : f[r] \in Nat
          /\ \A r \in Rounds : e[r] \in Nat
      BY <1>1, <1>4, <1>5 DEF CountsAreNumbers
    <2>2. \A x \in Rounds \ {q} : f[x] <= e[x]
      BY <1>4, <1>5
    <2>3. f[q] <= Ceiling /\ Ceiling \in Nat
      BY <1>4, BudgetNumbers
    <2> QED
      BY <1>6, <2>1, <2>2, <2>3
  <1>8. IsFiniteSet(T)
    BY <1>6, FiniteParts
  <1>9. Total(f, S) <= Ceiling + Total(e, T)
    BY <1>6, <1>7, <1>8, TotalOneMore
  <1>10. SpendIn(u)' = Total(f, S) /\ SpendIn(t) = Total(e, T)
    BY <1>1, <1>2, <1>3, <1>4, <1>5 DEF CountsAreNumbers
  <1> QED
    BY <1>9, <1>10

\* The sums are numbers.
LEMMA SumsAreInt ==
  ASSUME BudgetSound, NEW t \in Int
  PROVE  /\ SpendIn(t) \in Int /\ \A P \in SUBSET Payments : CommittedIn(P, t) \in Int
         /\ NetworkCommitted(t) = CommittedIn(Payments, t) + SpendIn(t)
         /\ NetworkCommitted(t) \in Int
  <1>1. CountsAreNumbers
    BY Numbers
  <1>2. SpendIn(t) \in Int
    <2>1. RecentRounds(t) \in SUBSET Rounds /\ IsFiniteSet(RecentRounds(t))
      BY FiniteParts DEF RecentRounds
    <2>2. \A x \in RecentRounds(t) : FeeOf[x] \in Int
      BY <1>1, <2>1 DEF CountsAreNumbers
    <2>3. Total(FeeOf, RecentRounds(t)) \in Int
      BY <2>1, <2>2, TotalIsInt
    <2> QED
      BY <1>1, <2>3 DEF CountsAreNumbers
  <1>3. ASSUME NEW P \in SUBSET Payments PROVE CommittedIn(P, t) \in Int
    <2>1. Recent(P, t) \in SUBSET Payments
      BY DEF Recent
    <2>2. IsFiniteSet(Recent(P, t)) /\ \A x \in Recent(P, t) : CountOf[x] \in Int
      BY <1>1, <2>1, FiniteParts DEF CountsAreNumbers
    <2>3. Total(CountOf, Recent(P, t)) \in Int
      BY <2>2, TotalIsInt
    <2> QED
      BY <1>1, <2>3 DEF CountsAreNumbers
  <1>4. NetworkCommitted(t) = CommittedIn(Payments, t) + SpendIn(t)
    BY DEF NetworkCommitted
  <1>5. CommittedIn(Payments, t) \in Int
    BY <1>3
  <1> QED
    BY <1>2, <1>3, <1>4, <1>5

SumsFit ==
  \A t \in Int :
    /\ SpendIn(t) \in Int /\ \A P \in SUBSET Payments : CommittedIn(P, t) \in Int
    /\ NetworkCommitted(t) = CommittedIn(Payments, t) + SpendIn(t)
    /\ NetworkCommitted(t) \in Int

LEMMA SumsDoFit == BudgetSound => SumsFit
  BY SumsAreInt DEF SumsFit

LEMMA SumsFitAfter == BudgetSound' => SumsFit'
  BY SumsDoFit, PTL

\* Nothing is inserted: no row counts more than it did, or was made later.
NoRowGrows ==
  /\ \A p \in Payments :
       CountOf'[p] <= CountOf[p] /\ claims'[p].created <= claims[p].created
  /\ \A r \in Rounds : FeeOf'[r] <= FeeOf[r] /\ spends'[r].created <= spends[r].created

LEMMA SumsNoMore ==
  ASSUME BudgetSound, BudgetSound', NoRowGrows, NEW t \in Int, NEW u \in Int, t <= u
  PROVE  /\ SpendIn(u)' <= SpendIn(t) /\ NetworkCommitted(u)' <= NetworkCommitted(t)
         /\ \A P \in SUBSET Payments : CommittedIn(P, u)' <= CommittedIn(P, t)
         /\ SumsFit /\ SumsFit'
  <1>1. SumsFit /\ SumsFit'
    BY SumsDoFit, SumsFitAfter
  <1>2. SpendIn(u)' <= SpendIn(t)
    BY SpendNoMore DEF NoRowGrows
  <1>3. ASSUME NEW P \in SUBSET Payments PROVE CommittedIn(P, u)' <= CommittedIn(P, t)
    <2>1. \A p \in P : CountOf'[p] <= CountOf[p] /\ claims'[p].created <= claims[p].created
      BY DEF NoRowGrows
    <2> QED
      BY <2>1, CommittedNoMore
  <1>4. CommittedIn(Payments, u)' <= CommittedIn(Payments, t)
    BY <1>3
  <1>5. /\ SpendIn(t) \in Int /\ SpendIn(u)' \in Int
        /\ CommittedIn(Payments, t) \in Int /\ CommittedIn(Payments, u)' \in Int
        /\ NetworkCommitted(t) = CommittedIn(Payments, t) + SpendIn(t)
        /\ NetworkCommitted(u)' = CommittedIn(Payments, u)' + SpendIn(u)'
    BY <1>1 DEF SumsFit
  <1>6. NetworkCommitted(u)' <= NetworkCommitted(t)
    BY <1>2, <1>4, <1>5
  <1> QED
    BY <1>1, <1>2, <1>3, <1>6

CanFit(a) ==
  IF a = Keeper THEN KeeperFits(asks[a].started - Hour) ELSE Fits(a, asks[a].started - Hour)

LEMMA CapNumbers ==
  /\ NetworkCap \in Nat /\ CallerCap \in Nat /\ DailyCap \in Nat
  /\ Reserve \in Nat /\ Ceiling \in Nat /\ Hour \in Nat /\ Day \in Nat /\ LastTick \in Nat
  /\ \A p \in Payments : CallerOf[p] \in Callers
  /\ \A c \in Callers : OfCaller(c) \in SUBSET Payments
  BY BudgetAssumption DEF OfCaller

\* What was checked still fits a step later when no row grows.
LEMMA StillFits ==
  ASSUME BudgetSound, BudgetSound', NoRowGrows, NEW a \in Payments \cup {Keeper}, CanFit(a),
         asks'[a].started = asks[a].started
  PROVE  CanFit(a)'
  <1> USE CapNumbers
  <1>0. asks[a].started \in Nat
    BY BudgetFacts
  <1>1. PICK t \in Int : t = asks[a].started - Hour
    BY <1>0
  <1>2. /\ SpendIn(t + Hour - Day)' <= SpendIn(t + Hour - Day)
        /\ SpendIn(t + Hour - Day)' \in Int /\ SpendIn(t + Hour - Day) \in Int
    <2>1. PICK u \in Int : u = t + Hour - Day
      OBVIOUS
    <2>2. SpendIn(u)' <= SpendIn(u) /\ SpendIn(u)' \in Int /\ SpendIn(u) \in Int
      BY SumsNoMore DEF SumsFit
    <2> QED
      BY <2>1, <2>2
  <1>3. /\ NetworkCommitted(t)' <= NetworkCommitted(t)
        /\ NetworkCommitted(t)' \in Int /\ NetworkCommitted(t) \in Int
    BY SumsNoMore DEF SumsFit
  <1>4. ASSUME NEW P \in SUBSET Payments
        PROVE  /\ CommittedIn(P, t)' <= CommittedIn(P, t)
               /\ CommittedIn(P, t)' \in Int /\ CommittedIn(P, t) \in Int
    <2>1. /\ \A Q \in SUBSET Payments : CommittedIn(Q, t)' <= CommittedIn(Q, t)
          /\ SumsFit /\ SumsFit'
      BY SumsNoMore
    <2> QED
      BY <2>1 DEF SumsFit
  <1>5. CASE a = Keeper
    <2>1. KeeperFits(t)
      BY <1>1, <1>5 DEF CanFit
    <2>2. KeeperFits(t)'
      BY <1>2, <1>3, <2>1 DEF KeeperFits
    <2> QED
      BY <1>1, <1>5, <2>2 DEF CanFit
  <1>6. CASE a # Keeper
    <2>1. a \in Payments /\ Fits(a, t)
      BY <1>1, <1>6 DEF CanFit
    <2>2. PICK P \in SUBSET Payments : P = OfCaller(CallerOf[a])
      BY <2>1
    <2>3. /\ CommittedIn(P, t)' <= CommittedIn(P, t)
          /\ CommittedIn(P, t)' \in Int /\ CommittedIn(P, t) \in Int
      BY <1>4
    <2>4. Fits(a, t)'
      BY <1>3, <2>1, <2>2, <2>3 DEF Fits
    <2> QED
      BY <1>1, <1>6, <2>4 DEF CanFit
  <1> QED
    BY <1>5, <1>6

LEMMA CountsStayWithin ==
  ASSUME BudgetSound, BudgetSound', NoRowGrows, CountsWithinBudget, clock <= clock'
  PROVE  CountsWithinBudget'
  <1> USE CapNumbers
  <1>1. clock \in Nat /\ clock' \in Nat
    BY BudgetNumbers DEF BudgetSound, BudgetTypeOK
  <1>14. /\ clock - Hour \in Int /\ clock' - Hour \in Int
         /\ clock - Day \in Int /\ clock' - Day \in Int
    BY <1>1
  <1>10. PICK t \in Int : t = clock - Hour
    BY <1>14
  <1>11. PICK u \in Int : u = clock' - Hour
    BY <1>14
  <1>12. PICK d \in Int : d = clock - Day
    BY <1>14
  <1>13. PICK e \in Int : e = clock' - Day
    BY <1>14
  <1>2. t = clock - Hour /\ u = clock' - Hour /\ d = clock - Day /\ e = clock' - Day
    BY <1>10, <1>11, <1>12, <1>13
  <1>3. t <= u /\ d <= e
    <2>2. \A i, j \in Nat, k \in Nat : i <= j => i - k <= j - k
      OBVIOUS
    <2>1. clock - Hour <= clock' - Hour /\ clock - Day <= clock' - Day
      BY <1>1, <2>2
    <2> QED
      BY <1>2, <2>1
  <1>4. SumsFit /\ SumsFit' /\ NetworkCommitted(u)' <= NetworkCommitted(t)
        /\ \A P \in SUBSET Payments : CommittedIn(P, u)' <= CommittedIn(P, t)
    BY <1>3, SumsNoMore
  <1>5. SpendIn(e)' <= SpendIn(d)
    BY <1>3, SumsNoMore
  <1>6. /\ NetworkCommitted(t) <= NetworkCap /\ SpendIn(d) <= DailyCap
        /\ \A c \in Callers : CommittedIn(OfCaller(c), t) <= CallerCap
    BY <1>2 DEF CountsWithinBudget
  <1>7. NetworkCommitted(u)' <= NetworkCap
    BY <1>4, <1>6 DEF SumsFit
  <1>8. SpendIn(e)' <= DailyCap
    BY <1>4, <1>5, <1>6 DEF SumsFit
  <1>9. ASSUME NEW c \in Callers PROVE CommittedIn(OfCaller(c), u)' <= CallerCap
    <2>1. PICK P \in SUBSET Payments : P = OfCaller(c)
      OBVIOUS
    <2>2. CommittedIn(P, u)' <= CommittedIn(P, t) /\ CommittedIn(P, t) <= CallerCap
      BY <1>4, <1>6, <2>1
    <2>3. CommittedIn(P, u)' \in Int /\ CommittedIn(P, t) \in Int
      BY <1>4 DEF SumsFit
    <2>4. CommittedIn(P, u)' <= CallerCap
      BY <2>2, <2>3
    <2>5. P = OfCaller(c)'
      BY <2>1 DEF OfCaller
    <2> QED
      BY <2>1, <2>4
  <1> QED
    BY <1>2, <1>7, <1>8, <1>9 DEF CountsWithinBudget

\* A step that inserts nothing.
LEMMA StaysWithin ==
  ASSUME BudgetSound, BudgetSound', NoRowGrows, AdmittedWithin, clock <= clock',
         \A a \in Payments \cup {Keeper} :
           /\ asks'[a].started <= clock'
           /\ asks'[a].at \in {"locked", "checked"} => holder' = a
           /\ asks'[a].at = "checked" => asks'[a].started = asks[a].started /\ CanFit(a)
  PROVE  AdmittedWithin'
  <1>1. CountsWithinBudget'
    BY CountsStayWithin DEF AdmittedWithin
  <1>2. \A a \in Payments \cup {Keeper} : asks'[a].at = "checked" => CanFit(a)'
    BY StillFits
  <1>3. AdmittedAlone'
    BY <1>2 DEF AdmittedAlone, CanFit
  <1> QED
    BY <1>1, <1>3 DEF AdmittedWithin

\* The transaction that inserts is the only one that holds the lock.
LEMMA LockIsOne ==
  ASSUME BudgetSound, AdmittedAlone, NEW a \in Payments \cup {Keeper},
         asks[a].at = "checked", Commits(a), clock' = clock
  PROVE  /\ AdmittedAlone' /\ CanFit(a) /\ asks[a].started <= clock
         /\ asks[a].started \in Nat /\ clock \in Nat
  <1>1. \A b \in (Payments \cup {Keeper}) \ {a} :
          asks'[b] = asks[b] /\ asks[b].at \notin {"locked", "checked"}
    BY BudgetFacts DEF AdmittedAlone, Commits
  <1>2. asks'[a] = Idle
    BY BudgetFacts DEF Commits
  <1>3. CanFit(a) /\ asks[a].started <= clock
    BY DEF AdmittedAlone, CanFit
  <1>4. asks[a].started \in Nat /\ clock \in Nat
    BY BudgetFacts, BudgetNumbers
  <1>5. \A b \in Payments \cup {Keeper} :
          asks'[b].started <= clock' /\ asks'[b].at \notin {"locked", "checked"}
    BY <1>1, <1>2, <1>4 DEF AdmittedAlone, Idle
  <1>6. AdmittedAlone'
    BY <1>5 DEF AdmittedAlone
  <1> QED
    BY <1>3, <1>4, <1>6

LEMMA WindowMoves ==
  ASSUME NEW i \in Nat, NEW j \in Nat, NEW k \in Nat, i <= j
  PROVE  i - k \in Int /\ j - k \in Int /\ i - k <= j - k
  OBVIOUS

\* A claim that was checked is inserted within the limits.
LEMMA ClaimWithin ==
  ASSUME BudgetSound, BudgetSound', AdmittedWithin, NEW p \in Payments, Inserts(p)
  PROVE  AdmittedWithin'
  <1> USE CapNumbers
  <1>1. /\ asks[p].at = "checked" /\ Commits(p) /\ clock' = clock /\ spends' = spends
        /\ claims' = [claims EXCEPT ![p] =
             [NoClaim EXCEPT !.state = "claimed", !.created = asks[p].started]]
    BY DEF Inserts
  <1>2. /\ AdmittedAlone' /\ CanFit(p) /\ asks[p].started <= clock
        /\ asks[p].started \in Nat /\ clock \in Nat
    BY <1>1, LockIsOne DEF AdmittedWithin
  <1>3. PICK t \in Int : t = asks[p].started - Hour
    BY <1>2
  <1>4. PICK u \in Int : u = clock - Hour
    BY <1>2
  <1>5. t <= u
    BY <1>2, <1>3, <1>4, WindowMoves
  <1>6. PICK d \in Int : d = clock - Day
    BY <1>2
  <1>7. Fits(p, t)
    BY <1>2, <1>3, BudgetNumbers DEF CanFit
  <1>8. CountsAreNumbers /\ CountsAreNumbers' /\ SumsFit /\ SumsFit'
    BY Numbers, NumbersAfter, SumsDoFit, SumsFitAfter
  <1>9. /\ \A q \in Payments \ {p} : claims'[q] = claims[q]
        /\ claims'[p].state = "claimed" /\ claims'[p].max = 0
    BY <1>1, BudgetFacts DEF NoClaim
  <1>10. ASSUME NEW q \in Payments \ {p}
         PROVE  CountOf'[q] <= CountOf[q] /\ claims'[q].created <= claims[q].created
    <2>1. Counted(q)' = Counted(q) /\ claims'[q].created = claims[q].created
      BY <1>9 DEF Counted
    <2>2. CountOf'[q] = CountOf[q] /\ CountOf[q] \in Nat /\ claims[q].created \in Nat
      BY <1>8, <2>1 DEF CountsAreNumbers
    <2> QED
      BY <2>1, <2>2
  <1>11. CountOf[p]' <= Reserve
    <2>1. Counted(p)' = Reserve
      BY <1>9 DEF Counted
    <2> QED
      BY <1>8, <2>1 DEF CountsAreNumbers
  <1>12. \A r \in Rounds : FeeOf'[r] <= FeeOf[r] /\ spends'[r].created <= spends[r].created
    <2>1. \A r \in Rounds : FeeOf'[r] = FeeOf[r]
      BY <1>1, <1>8 DEF CountsAreNumbers
    <2> QED
      BY <1>1, <1>8, <2>1 DEF CountsAreNumbers
  <1>13. SpendIn(u)' <= SpendIn(t) /\ SpendIn(d)' <= SpendIn(d)
    BY <1>5, <1>12, SpendNoMore
  <1>14. CommittedIn(Payments, u)' <= Reserve + CommittedIn(Payments, t)
    BY <1>5, <1>10, <1>11, CommittedOneMore
  <1>15. NetworkCommitted(u)' <= NetworkCap
    <2>1. NetworkCommitted(t) + Reserve <= NetworkCap
      BY <1>7 DEF Fits
    <2> QED
      BY <1>8, <1>13, <1>14, <2>1 DEF SumsFit
  <1>16. SpendIn(d)' <= DailyCap
    <2>1. SpendIn(d) <= DailyCap
      BY <1>6 DEF AdmittedWithin, CountsWithinBudget
    <2> QED
      BY <1>8, <1>13, <2>1 DEF SumsFit
  <1>17. ASSUME NEW c \in Callers PROVE CommittedIn(OfCaller(c), u)' <= CallerCap
    <2>1. PICK P \in SUBSET Payments : P = OfCaller(c)
      OBVIOUS
    <2>2. CommittedIn(P, t) \in Int /\ CommittedIn(P, u) \in Int /\ CommittedIn(P, u)' \in Int
      BY <1>8 DEF SumsFit
    <2>3. CASE p \in P
      <3>1. CallerOf[p] = c
        BY <2>1, <2>3 DEF OfCaller
      <3>2. CommittedIn(P, t) + Reserve <= CallerCap
        BY <1>7, <2>1, <3>1 DEF Fits
      <3>3. CommittedIn(P, u)' <= Reserve + CommittedIn(P, t)
        BY <1>5, <1>10, <1>11, <2>3, CommittedOneMore
      <3>4. CommittedIn(P, u)' <= CallerCap
        BY <2>2, <3>2, <3>3
      <3> QED
        BY <2>1, <3>4 DEF OfCaller
    <2>4. CASE p \notin P
      <3>1. \A q \in P : CountOf'[q] <= CountOf[q] /\ claims'[q].created <= claims[q].created
        BY <1>10, <2>4
      <3>2. CommittedIn(P, u)' <= CommittedIn(P, u)
        BY <3>1, CommittedNoMore
      <3>3. CommittedIn(P, u) <= CallerCap
        BY <1>4, <2>1 DEF AdmittedWithin, CountsWithinBudget
      <3>4. CommittedIn(P, u)' <= CallerCap
        BY <2>2, <3>2, <3>3
      <3> QED
        BY <2>1, <3>4 DEF OfCaller
    <2> QED
      BY <2>3, <2>4
  <1>18. CountsWithinBudget'
    BY <1>1, <1>4, <1>6, <1>15, <1>16, <1>17 DEF CountsWithinBudget
  <1> QED
    BY <1>2, <1>18 DEF AdmittedWithin

\* So is a reservation of the keeper's.
LEMMA KeeperWithin ==
  ASSUME BudgetSound, BudgetSound', AdmittedWithin, KeeperReserves
  PROVE  AdmittedWithin'
  <1> USE CapNumbers
  <1>3. PICK q \in Rounds : q = round.no + 1
    BY BudgetFacts DEF KeeperReserves, BudgetSound
  <1>1. /\ asks[Keeper].at = "checked" /\ Commits(Keeper) /\ clock' = clock /\ claims' = claims
        /\ spends' = [spends EXCEPT ![q] =
             [booked |-> TRUE, created |-> asks[Keeper].started, fee |-> Ceiling]]
    BY <1>3 DEF KeeperReserves
  <1>2. /\ AdmittedAlone' /\ CanFit(Keeper) /\ asks[Keeper].started <= clock
        /\ asks[Keeper].started \in Nat /\ clock \in Nat
    BY <1>1, LockIsOne DEF AdmittedWithin
  <1>21. PICK i \in Nat : i = asks[Keeper].started
    BY <1>2
  <1>4. PICK t \in Int : t = asks[Keeper].started - Hour
    BY <1>21
  <1>5. PICK u \in Int : u = clock - Hour
    BY <1>2
  <1>6. PICK s \in Int : s = asks[Keeper].started - Day
    BY <1>21
  <1>7. PICK d \in Int : d = clock - Day
    BY <1>2
  <1>8. t <= u /\ s <= d
    <2>1. PICK j \in Nat : j = clock
      BY <1>2
    <2>2. i <= j /\ t = i - Hour /\ u = j - Hour /\ s = i - Day /\ d = j - Day
      BY <1>2, <1>21, <1>4, <1>5, <1>6, <1>7, <2>1
    <2> QED
      BY <2>2, WindowMoves
  <1>9. CountsAreNumbers /\ CountsAreNumbers' /\ SumsFit /\ SumsFit'
    BY Numbers, NumbersAfter, SumsDoFit, SumsFitAfter
  <1>10. NetworkCommitted(t) + Ceiling <= NetworkCap /\ SpendIn(s) + Ceiling <= DailyCap
    <2>1. KeeperFits(t)
      BY <1>2, <1>4 DEF CanFit
    <2>2. t + Hour - Day = s
      <3>1. t = i - Hour /\ s = i - Day
        BY <1>21, <1>4, <1>6
      <3> QED
        BY <3>1
    <2> QED
      BY <2>1, <2>2 DEF KeeperFits
  <1>11. /\ \A r \in Rounds \ {q} : spends'[r] = spends[r]
         /\ spends'[q].fee = Ceiling
    BY <1>1, <1>3, BudgetFacts
  <1>12. \A r \in Rounds \ {q} :
           FeeOf'[r] <= FeeOf[r] /\ spends'[r].created <= spends[r].created
    <2>1. \A r \in Rounds \ {q} : FeeOf'[r] = FeeOf[r] /\ spends'[r].created = spends[r].created
      BY <1>9, <1>11 DEF CountsAreNumbers
    <2> QED
      BY <1>9, <2>1 DEF CountsAreNumbers
  <1>13. FeeOf[q]' <= Ceiling
    BY <1>3, <1>9, <1>11 DEF CountsAreNumbers
  <1>14. SpendIn(u)' <= Ceiling + SpendIn(t) /\ SpendIn(d)' <= Ceiling + SpendIn(s)
    BY <1>3, <1>8, <1>12, <1>13, SpendOneMore
  <1>15. \A p \in Payments : CountOf'[p] <= CountOf[p] /\ claims'[p].created <= claims[p].created
    <2>1. \A p \in Payments : Counted(p)' = Counted(p)
      BY <1>1 DEF Counted
    <2>2. \A p \in Payments : CountOf'[p] = CountOf[p] /\ CountOf[p] \in Nat
      BY <1>9, <2>1 DEF CountsAreNumbers
    <2> QED
      BY <1>1, <1>9, <2>2 DEF CountsAreNumbers
  <1>16. ASSUME NEW P \in SUBSET Payments
         PROVE  /\ CommittedIn(P, u)' <= CommittedIn(P, t)
                /\ CommittedIn(P, u)' <= CommittedIn(P, u)
                /\ CommittedIn(P, u)' \in Int /\ CommittedIn(P, u) \in Int
                /\ CommittedIn(P, t) \in Int
    <2>1. \A p \in P : CountOf'[p] <= CountOf[p] /\ claims'[p].created <= claims[p].created
      BY <1>15
    <2>2. CommittedIn(P, u)' <= CommittedIn(P, t) /\ CommittedIn(P, u)' <= CommittedIn(P, u)
      BY <1>8, <2>1, CommittedNoMore
    <2> QED
      BY <1>9, <2>2 DEF SumsFit
  <1>17. NetworkCommitted(u)' <= NetworkCap
    <2>1. /\ CommittedIn(Payments, u)' <= CommittedIn(Payments, t)
          /\ CommittedIn(Payments, u)' \in Int /\ CommittedIn(Payments, t) \in Int
      BY <1>16
    <2> QED
      BY <1>9, <1>10, <1>14, <2>1 DEF SumsFit
  <1>18. SpendIn(d)' <= DailyCap
    BY <1>9, <1>10, <1>14 DEF SumsFit
  <1>19. ASSUME NEW c \in Callers PROVE CommittedIn(OfCaller(c), u)' <= CallerCap
    <2>1. PICK P \in SUBSET Payments : P = OfCaller(c)
      OBVIOUS
    <2>2. CommittedIn(P, u) <= CallerCap
      BY <1>5, <2>1 DEF AdmittedWithin, CountsWithinBudget
    <2>3. CommittedIn(P, u)' <= CommittedIn(P, u) /\ CommittedIn(P, u)' \in Int
          /\ CommittedIn(P, u) \in Int
      BY <1>16
    <2>4. CommittedIn(P, u)' <= CallerCap
      BY <2>2, <2>3
    <2> QED
      BY <2>1, <2>4 DEF OfCaller
  <1>20. CountsWithinBudget'
    BY <1>1, <1>5, <1>7, <1>17, <1>18, <1>19 DEF CountsWithinBudget
  <1> QED
    BY <1>2, <1>20 DEF AdmittedWithin

LEMMA SameRows ==
  ASSUME BudgetSound, BudgetSound', UNCHANGED <<claims, spends>>
  PROVE  NoRowGrows
  <1>1. CountsAreNumbers /\ CountsAreNumbers'
    BY Numbers, NumbersAfter
  <1>2. \A p \in Payments : Counted(p)' = Counted(p)
    BY DEF Counted
  <1>3. \A p \in Payments : CountOf'[p] = CountOf[p] /\ CountOf[p] \in Nat /\ claims[p].created \in Nat
    BY <1>1, <1>2 DEF CountsAreNumbers
  <1>4. \A r \in Rounds : FeeOf'[r] = FeeOf[r] /\ FeeOf[r] \in Nat /\ spends[r].created \in Nat
    BY <1>1 DEF CountsAreNumbers
  <1> QED
    BY <1>3, <1>4 DEF NoRowGrows

LEMMA ClaimShrinks ==
  ASSUME BudgetSound, BudgetSound', NEW p \in Payments, spends' = spends,
         \A q \in Payments \ {p} : claims'[q] = claims[q],
         Counted(p)' <= Counted(p), claims'[p].created <= claims[p].created
  PROVE  NoRowGrows
  <1>1. CountsAreNumbers /\ CountsAreNumbers'
    BY Numbers, NumbersAfter
  <1>2. ASSUME NEW q \in Payments \ {p}
        PROVE  CountOf'[q] <= CountOf[q] /\ claims'[q].created <= claims[q].created
    <2>1. Counted(q)' = Counted(q)
      BY DEF Counted
    <2>2. CountOf'[q] = CountOf[q] /\ CountOf[q] \in Nat /\ claims[q].created \in Nat
      BY <1>1, <2>1 DEF CountsAreNumbers
    <2> QED
      BY <2>2
  <1>3. CountOf'[p] <= CountOf[p]
    BY <1>1 DEF CountsAreNumbers
  <1>4. \A r \in Rounds : FeeOf'[r] = FeeOf[r] /\ FeeOf[r] \in Nat /\ spends[r].created \in Nat
    BY <1>1 DEF CountsAreNumbers
  <1> QED
    BY <1>2, <1>3, <1>4 DEF NoRowGrows

LEMMA SameAdmissions ==
  ASSUME BudgetSound, BudgetSound', NoRowGrows, AdmittedWithin, clock <= clock',
         UNCHANGED <<asks, holder>>
  PROVE  AdmittedWithin'
  <1>1. ASSUME NEW a \in Payments \cup {Keeper}
        PROVE  /\ asks'[a].started <= clock'
               /\ asks'[a].at \in {"locked", "checked"} => holder' = a
               /\ asks'[a].at = "checked" => asks'[a].started = asks[a].started /\ CanFit(a)
    <2>1. asks[a].started \in Nat /\ clock \in Nat /\ clock' \in Nat
      BY BudgetFacts, BudgetNumbers DEF BudgetSound, BudgetTypeOK
    <2>2. asks[a].started <= clock
      BY DEF AdmittedWithin, AdmittedAlone
    <2>3. asks'[a].started <= clock'
      BY <2>1, <2>2
    <2> QED
      BY <2>3 DEF AdmittedWithin, AdmittedAlone, CanFit
  <1> QED
    BY <1>1, StaysWithin

\* An admission that begins, takes the lock, is checked, or ends without a row.
LEMMA AdmissionsWithin ==
  ASSUME BudgetSound, BudgetSound', AdmittedWithin,
         \/ \E a \in Payments \cup {Keeper} : Locks(a) \/ Checks(a) \/ RollsBack(a)
         \/ \E p \in Payments : AsksForClaim(p) \/ TakesOver(p)
         \/ KeeperAsks
  PROVE  AdmittedWithin'
  <1>1. clock' = clock /\ UNCHANGED <<claims, spends>>
    BY DEF Locks, Checks, RollsBack, AsksForClaim, TakesOver, KeeperAsks
  <1>2. NoRowGrows /\ clock <= clock' /\ clock \in Nat
    BY <1>1, SameRows, BudgetFacts, BudgetNumbers
  <1>3. Keeper \in Payments \cup {Keeper} /\ None \notin Payments \cup {Keeper}
    BY BudgetNumbers DEF Keeper, None
  <1>4. \A a \in Payments \cup {Keeper} :
          /\ asks[a].started <= clock
          /\ asks[a].at \in {"locked", "checked"} => holder = a
          /\ asks[a].at = "checked" => CanFit(a)
    BY DEF AdmittedWithin, AdmittedAlone, CanFit
  <1>5. ASSUME NEW a \in Payments \cup {Keeper}
        PROVE  /\ asks'[a].started <= clock'
               /\ asks'[a].at \in {"locked", "checked"} => holder' = a
               /\ asks'[a].at = "checked" => asks'[a].started = asks[a].started /\ CanFit(a)
    <2> USE <1>1, <1>2, <1>3, <1>4, <1>5, BudgetFacts
    <2>1. ASSUME NEW b \in Payments \cup {Keeper}, Locks(b)
          PROVE  /\ asks'[a].started <= clock'
                 /\ asks'[a].at \in {"locked", "checked"} => holder' = a
                 /\ asks'[a].at = "checked" => asks'[a].started = asks[a].started /\ CanFit(a)
      BY <2>1 DEF Locks, Moves
    <2>2. ASSUME NEW b \in Payments \cup {Keeper}, Checks(b)
          PROVE  /\ asks'[a].started <= clock'
                 /\ asks'[a].at \in {"locked", "checked"} => holder' = a
                 /\ asks'[a].at = "checked" => asks'[a].started = asks[a].started /\ CanFit(a)
      BY <2>2 DEF Checks, Moves, CanFit
    <2>3. ASSUME NEW b \in Payments \cup {Keeper}, RollsBack(b)
          PROVE  /\ asks'[a].started <= clock'
                 /\ asks'[a].at \in {"locked", "checked"} => holder' = a
                 /\ asks'[a].at = "checked" => asks'[a].started = asks[a].started /\ CanFit(a)
      BY <2>3 DEF RollsBack, Idle
    <2>4. ASSUME NEW p \in Payments, AsksForClaim(p)
          PROVE  /\ asks'[a].started <= clock'
                 /\ asks'[a].at \in {"locked", "checked"} => holder' = a
                 /\ asks'[a].at = "checked" => asks'[a].started = asks[a].started /\ CanFit(a)
      BY <2>4 DEF AsksForClaim
    <2>5. ASSUME NEW p \in Payments, TakesOver(p)
          PROVE  /\ asks'[a].started <= clock'
                 /\ asks'[a].at \in {"locked", "checked"} => holder' = a
                 /\ asks'[a].at = "checked" => asks'[a].started = asks[a].started /\ CanFit(a)
      BY <2>5 DEF TakesOver, Commits, Idle
    <2>6. ASSUME KeeperAsks
          PROVE  /\ asks'[a].started <= clock'
                 /\ asks'[a].at \in {"locked", "checked"} => holder' = a
                 /\ asks'[a].at = "checked" => asks'[a].started = asks[a].started /\ CanFit(a)
      BY <2>6 DEF KeeperAsks
    <2> QED
      BY <2>1, <2>2, <2>3, <2>4, <2>5, <2>6
  <1> QED
    BY <1>2, <1>5, StaysWithin

\* What becomes of a claim and its fee bump lowers what is counted for it.
LEMMA PaymentsWithin ==
  ASSUME BudgetSound, BudgetSound', AdmittedWithin, NEW p \in Payments,
         Signs(p) \/ Abandons(p) \/ OwnerDies(p) \/ Finishes(p)
  PROVE  AdmittedWithin'
  <1> USE BudgetFacts, BudgetNumbers
  <1>1. UNCHANGED <<clock, asks, holder, spends>> /\ clock <= clock'
    BY DEF Signs, Abandons, OwnerDies, Finishes
  <1>2. ClaimFits(p)
    BY DEF BudgetSound
  <1>3. ASSUME Signs(p) PROVE NoRowGrows
    <2>1. PICK max \in 1..Reserve :
            claims' = [claims EXCEPT ![p].state = "submitted", ![p].max = max]
      BY <1>3 DEF Signs
    <2>2. claims[p].state = "claimed" /\ claims[p].max = 0
      BY <1>2, <1>3 DEF Signs, Live, ClaimFits
    <2>3. /\ \A q \in Payments \ {p} : claims'[q] = claims[q]
          /\ claims'[p].state = "submitted" /\ claims'[p].max = max
          /\ claims'[p].created = claims[p].created /\ claims[p].created \in Nat
      BY <2>1
    <2>4. Counted(p) = Reserve /\ Counted(p)' = max
      BY <2>2, <2>3 DEF Counted
    <2> QED
      BY <1>1, <2>3, <2>4, ClaimShrinks
  <1>4. ASSUME Abandons(p) PROVE NoRowGrows
    <2>1. /\ \A q \in Payments \ {p} : claims'[q] = claims[q]
          /\ claims'[p] = NoClaim /\ claims[p].created \in Nat
      BY <1>4 DEF Abandons
    <2>2. Counted(p)' = 0 /\ claims'[p].created = 0 /\ Counted(p) \in Nat
      BY <2>1, BudgetCounts DEF Counted, NoClaim
    <2> QED
      BY <1>1, <2>1, <2>2, ClaimShrinks
  <1>5. ASSUME OwnerDies(p) PROVE NoRowGrows
    BY <1>5, SameRows DEF OwnerDies
  <1>6. ASSUME Finishes(p) PROVE NoRowGrows
    <2>1. /\ claims[p].state = "submitted" /\ bumps[p].fate \in {"may", "charged"}
          /\ claims[p].max = bumps[p].max /\ bumps[p].max \in 1..Reserve
          /\ bumps[p].fate = "charged" => bumps[p].fee <= bumps[p].max
      BY <1>2, <1>6 DEF Finishes, ClaimFits
    <2>2. PICK state \in {"succeeded", "failed", "expired"}, charged \in Fee \cup {Unknown} :
            /\ claims' = [claims EXCEPT ![p].state = state, ![p].charged = charged]
            /\ charged \in {0, Unknown} \/ (bumps[p].fate = "charged" /\ charged = bumps[p].fee)
      <3>1. CASE bumps[p].fate = "charged"
        <4>1. PICK state \in {"succeeded", "failed"}, known \in BOOLEAN :
                claims' = [claims EXCEPT ![p].state = state,
                  ![p].charged = IF known THEN bumps[p].fee ELSE Unknown]
          BY <1>6, <3>1 DEF Finishes
        <4>2. bumps[p].fee \in Fee
          OBVIOUS
        <4> QED
          BY <3>1, <4>1, <4>2
      <3>2. CASE bumps[p].fate = "may"
        <4>1. PICK end \in {<<"expired", Unknown>>, <<"failed", 0>>, <<"succeeded", Unknown>>} :
                claims' = [claims EXCEPT ![p].state = end[1], ![p].charged = end[2]]
          BY <1>6, <3>2 DEF Finishes
        <4>2. end[1] \in {"succeeded", "failed", "expired"} /\ end[2] \in {0, Unknown}
          OBVIOUS
        <4> QED
          BY <4>1, <4>2
      <3> QED
        BY <2>1, <3>1, <3>2
    <2>4. /\ \A q \in Payments \ {p} : claims'[q] = claims[q]
          /\ claims'[p].state = state /\ claims'[p].charged = charged
          /\ claims'[p].max = claims[p].max
          /\ claims'[p].created = claims[p].created /\ claims[p].created \in Nat
      BY <2>2
    <2>5. Counted(p) = claims[p].max /\ claims[p].max \in Nat /\ claims[p].max # 0
      BY <2>1 DEF Counted
    <2>6. Counted(p)' = IF charged # Unknown THEN charged
                        ELSE IF state = "expired" THEN 0 ELSE claims[p].max
      BY <2>1, <2>4, <2>5 DEF Counted
    <2>7. Counted(p)' <= Counted(p)
      BY <2>1, <2>2, <2>5, <2>6
    <2> QED
      BY <1>1, <2>4, <2>7, ClaimShrinks
  <1>7. NoRowGrows
    BY <1>3, <1>4, <1>5, <1>6
  <1> QED
    BY <1>1, <1>7, SameAdmissions

\* So does what the keeper learns of its round.
LEMMA RoundsWithin ==
  ASSUME BudgetSound, BudgetSound', AdmittedWithin,
         \/ \E x \in Payments \cup Rounds : Lands(x)
         \/ NotSubmitted \/ Submits \/ LearnsCharge \/ Corrects \/ KeeperDies \/ Ticks
         \/ UNCHANGED budgetVars
  PROVE  AdmittedWithin'
  <1> USE BudgetFacts, BudgetNumbers
  <1>1. UNCHANGED <<asks, holder, claims>> /\ clock <= clock'
    <2>1. clock \in Nat
      OBVIOUS
    <2>2. UNCHANGED <<asks, holder, claims>> /\ (clock' = clock \/ clock' = clock + 1)
      BY DEF Lands, NotSubmitted, Submits, LearnsCharge, Corrects, KeeperDies, Ticks, budgetVars
    <2> QED
      BY <2>1, <2>2
  <1>2. CASE spends' = spends
    BY <1>1, <1>2, SameRows, SameAdmissions
  <1>3. CASE spends' # spends
    <2>0. Corrects
      BY <1>3 DEF Lands, NotSubmitted, Submits, LearnsCharge, Corrects, KeeperDies, Ticks, budgetVars
    <2>1. Corrects /\ spends' = [spends EXCEPT ![round.no].fee = round.fee]
      BY <1>3, <2>0 DEF Corrects
    <2>2. round.no \in Rounds /\ RoundFits(round.no) /\ round.at = "correct"
      BY <2>1 DEF BudgetSound, Corrects
    <2>3. round.fee \in Nat /\ round.fee <= spends[round.no].fee
      <3>1. PICK r \in Rounds : r = round.no
        BY <2>2
      <3>2. \/ round.fee = 0
            \/ round.fee = bumps[r].fee /\ bumps[r].fee <= spends[r].fee
        BY <2>2, <3>1 DEF RoundFits
      <3>3. spends[r].fee \in Nat /\ bumps[r].fee \in Nat
        BY BudgetCounts
      <3> QED
        BY <3>1, <3>2, <3>3
    <2>4. CountsAreNumbers /\ CountsAreNumbers'
      BY Numbers, NumbersAfter
    <2>5. ASSUME NEW r \in Rounds
          PROVE  spends'[r].fee <= spends[r].fee /\ spends'[r].created = spends[r].created
      BY <2>1, <2>2, <2>3, BudgetCounts
    <2>6. ASSUME NEW r \in Rounds
          PROVE  FeeOf'[r] <= FeeOf[r] /\ spends'[r].created <= spends[r].created
      BY <2>4, <2>5 DEF CountsAreNumbers
    <2>7. \A p \in Payments : Counted(p)' = Counted(p)
      BY <1>1 DEF Counted
    <2>8. ASSUME NEW p \in Payments
          PROVE  CountOf'[p] <= CountOf[p] /\ claims'[p].created <= claims[p].created
      <3>1. CountOf'[p] = CountOf[p] /\ CountOf[p] \in Nat /\ claims[p].created \in Nat
        BY <2>4, <2>7 DEF CountsAreNumbers
      <3> QED
        BY <1>1, <3>1
    <2>9. NoRowGrows
      BY <2>6, <2>8 DEF NoRowGrows
    <2> QED
      BY <1>1, <2>9, SameAdmissions
  <1> QED
    BY <1>2, <1>3

LEMMA WithinStep ==
  ASSUME BudgetSound, BudgetSound', AdmittedWithin, [BudgetNext]_budgetVars
  PROVE  AdmittedWithin'
  <1>1. ASSUME NEW p \in Payments, Inserts(p) PROVE AdmittedWithin'
    BY <1>1, ClaimWithin
  <1>2. ASSUME KeeperReserves PROVE AdmittedWithin'
    BY <1>2, KeeperWithin
  <1>3. ASSUME NEW p \in Payments, Signs(p) \/ Abandons(p) \/ OwnerDies(p) \/ Finishes(p)
        PROVE  AdmittedWithin'
    BY <1>3, PaymentsWithin
  <1> QED
    BY <1>1, <1>2, <1>3, AdmissionsWithin, RoundsWithin DEF BudgetNext

LEMMA WithinStart == BudgetInit => AdmittedWithin
  <1> SUFFICES ASSUME BudgetInit PROVE AdmittedWithin
    OBVIOUS
  <1> USE CapNumbers
  <1>1. BudgetSound
    BY BudgetStart
  <1>2. CountsAreNumbers /\ SumsFit
    BY <1>1, Numbers, SumsDoFit
  <1>3. /\ clock = 0
        /\ \A p \in Payments : claims[p] = NoClaim
        /\ \A r \in Rounds : spends[r] = NoSpend
    BY DEF BudgetInit
  <1>4. \A p \in Payments : CountOf[p] = 0
    BY <1>2, <1>3 DEF CountsAreNumbers, Counted, NoClaim
  <1>5. \A r \in Rounds : FeeOf[r] = 0
    <2>1. \A r \in Rounds : FeeOf[r] = spends[r].fee
      BY <1>2 DEF CountsAreNumbers
    <2>2. NoSpend.fee = 0
      BY DEF NoSpend
    <2> QED
      BY <1>3, <2>1, <2>2
  <1>6. ASSUME NEW t \in Int, NEW P \in SUBSET Payments PROVE CommittedIn(P, t) = 0
    <2>1. Recent(P, t) \in SUBSET Payments
      BY DEF Recent
    <2>2. Total(CountOf, Recent(P, t)) = 0
      BY <1>4, <2>1, FiniteParts, TotalOfNone
    <2> QED
      BY <1>2, <2>2 DEF CountsAreNumbers
  <1>7. ASSUME NEW t \in Int PROVE SpendIn(t) = 0 /\ NetworkCommitted(t) = 0
    <2>1. RecentRounds(t) \in SUBSET Rounds
      BY DEF RecentRounds
    <2>2. Total(FeeOf, RecentRounds(t)) = 0
      BY <1>5, <2>1, FiniteParts, TotalOfNone
    <2>3. SpendIn(t) = 0
      BY <1>2, <2>2 DEF CountsAreNumbers
    <2>4. CommittedIn(Payments, t) = 0
      BY <1>6
    <2> QED
      BY <2>3, <2>4 DEF NetworkCommitted
  <1>8. CountsWithinBudget
    <2>1. clock - Hour \in Int /\ clock - Day \in Int
      BY <1>3
    <2>2. NetworkCommitted(clock - Hour) = 0 /\ SpendIn(clock - Day) = 0
          /\ \A c \in Callers : CommittedIn(OfCaller(c), clock - Hour) = 0
      BY <1>6, <1>7, <2>1
    <2> QED
      BY <2>2 DEF CountsWithinBudget
  <1>9. AdmittedAlone
    BY <1>3 DEF AdmittedAlone, BudgetInit, Idle
  <1> QED
    BY <1>8, <1>9 DEF AdmittedWithin

\* What is counted is within the limits, so what may be paid is.
LEMMA WithinCaps == BudgetSound /\ AdmittedWithin => SpendWithinBudget
  <1> SUFFICES ASSUME BudgetSound, AdmittedWithin PROVE SpendWithinBudget
    OBVIOUS
  <1> USE CapNumbers
  <1>1. CountsAreNumbers /\ SumsFit /\ CountsExposure /\ clock \in Nat
    BY Numbers, SumsDoFit, SoundCountsExposure, BudgetFacts, BudgetNumbers
  <1>2. \A x \in Payments \cup Rounds : ExposureOf[x] \in Nat /\ ExposureOf[x] = Exposure(x)
    BY BudgetCounts
  <1>3. /\ \A p \in Payments : ExposureOf[p] <= CountOf[p] /\ CountOf[p] \in Nat
        /\ \A r \in Rounds : ExposureOf[r] <= FeeOf[r] /\ FeeOf[r] \in Nat
    BY <1>1, <1>2 DEF CountsExposure, CountsAreNumbers
  <1>4. ASSUME NEW P \in SUBSET Payments, NEW t \in Int
        PROVE  /\ Recent(P, t) \in SUBSET Payments /\ IsFiniteSet(Recent(P, t))
               /\ Total(ExposureOf, Recent(P, t)) \in Int
               /\ Total(ExposureOf, Recent(P, t)) <= CommittedIn(P, t)
               /\ MapThenSumSet(Exposure, Recent(P, t)) = Total(ExposureOf, Recent(P, t))
    <2>1. Recent(P, t) \in SUBSET Payments /\ IsFiniteSet(Recent(P, t))
      BY FiniteParts DEF Recent
    <2>2. /\ \A x \in Recent(P, t) : ExposureOf[x] \in Int /\ ExposureOf[x] <= CountOf[x]
          /\ \A x \in Recent(P, t) : CountOf[x] \in Nat
      BY <1>2, <1>3, <2>1
    <2>3. Total(ExposureOf, Recent(P, t)) <= Total(CountOf, Recent(P, t))
      BY <2>1, <2>2, TotalAtMost
    <2>4. CommittedIn(P, t) = Total(CountOf, Recent(P, t))
      BY <1>1 DEF CountsAreNumbers
    <2> QED
      BY <2>1, <2>2, <2>3, <2>4, TotalIsInt, SumOfExposure
  <1>5. ASSUME NEW t \in Int
        PROVE  /\ RecentRounds(t) \in SUBSET Rounds /\ IsFiniteSet(RecentRounds(t))
               /\ Total(ExposureOf, RecentRounds(t)) \in Int
               /\ Total(ExposureOf, RecentRounds(t)) <= SpendIn(t)
               /\ MapThenSumSet(Exposure, RecentRounds(t)) = Total(ExposureOf, RecentRounds(t))
    <2>1. RecentRounds(t) \in SUBSET Rounds /\ IsFiniteSet(RecentRounds(t))
      BY FiniteParts DEF RecentRounds
    <2>2. /\ \A x \in RecentRounds(t) : ExposureOf[x] \in Int /\ ExposureOf[x] <= FeeOf[x]
          /\ \A x \in RecentRounds(t) : FeeOf[x] \in Nat
      BY <1>2, <1>3, <2>1
    <2>3. Total(ExposureOf, RecentRounds(t)) <= Total(FeeOf, RecentRounds(t))
      BY <2>1, <2>2, TotalAtMost
    <2>4. SpendIn(t) = Total(FeeOf, RecentRounds(t))
      BY <1>1 DEF CountsAreNumbers
    <2> QED
      BY <2>1, <2>2, <2>3, <2>4, TotalIsInt, SumOfExposure
  <1>6. PICK t \in Int : t = clock - Hour
    BY <1>1
  <1>7. PICK d \in Int : d = clock - Day
    BY <1>1
  <1>8. /\ NetworkCommitted(t) <= NetworkCap /\ SpendIn(d) <= DailyCap
        /\ \A c \in Callers : CommittedIn(OfCaller(c), t) <= CallerCap
    BY <1>6, <1>7 DEF AdmittedWithin, CountsWithinBudget
  <1>9. MapThenSumSet(Exposure, Recent(Payments, t) \cup RecentRounds(t)) <= NetworkCap
    <2>1. /\ Recent(Payments, t) \in SUBSET Payments /\ IsFiniteSet(Recent(Payments, t))
          /\ Total(ExposureOf, Recent(Payments, t)) \in Int
          /\ Total(ExposureOf, Recent(Payments, t)) <= CommittedIn(Payments, t)
      BY <1>4
    <2>2. /\ RecentRounds(t) \in SUBSET Rounds /\ IsFiniteSet(RecentRounds(t))
          /\ Total(ExposureOf, RecentRounds(t)) \in Int
          /\ Total(ExposureOf, RecentRounds(t)) <= SpendIn(t)
      BY <1>5
    <2>3. Recent(Payments, t) \cap RecentRounds(t) = {}
      BY <2>1, <2>2, BudgetNumbers
    <2>4. \A x \in Recent(Payments, t) \cup RecentRounds(t) : ExposureOf[x] \in Int
      BY <1>2, <2>1, <2>2
    <2>5. Total(ExposureOf, Recent(Payments, t) \cup RecentRounds(t))
          = Total(ExposureOf, Recent(Payments, t)) + Total(ExposureOf, RecentRounds(t))
      BY <2>1, <2>2, <2>3, <2>4, TotalOfBoth
    <2>6. MapThenSumSet(Exposure, Recent(Payments, t) \cup RecentRounds(t))
          = Total(ExposureOf, Recent(Payments, t) \cup RecentRounds(t))
      <3>1. Recent(Payments, t) \cup RecentRounds(t) \in SUBSET (Payments \cup Rounds)
        BY <2>1, <2>2
      <3> QED
        BY <3>1, SumOfExposure
    <2>7. /\ NetworkCommitted(t) = CommittedIn(Payments, t) + SpendIn(t)
          /\ CommittedIn(Payments, t) \in Int /\ SpendIn(t) \in Int
      BY <1>1 DEF SumsFit
    <2>8. Total(ExposureOf, Recent(Payments, t)) + Total(ExposureOf, RecentRounds(t)) <= NetworkCap
      BY <1>8, <2>1, <2>2, <2>7
    <2> QED
      BY <2>5, <2>6, <2>8
  <1>10. ASSUME NEW c \in Callers
         PROVE  MapThenSumSet(Exposure, Recent(OfCaller(c), t)) <= CallerCap
    <2>1. PICK P \in SUBSET Payments : P = OfCaller(c)
      OBVIOUS
    <2>2. /\ Total(ExposureOf, Recent(P, t)) \in Int
          /\ Total(ExposureOf, Recent(P, t)) <= CommittedIn(P, t)
          /\ MapThenSumSet(Exposure, Recent(P, t)) = Total(ExposureOf, Recent(P, t))
      BY <1>4
    <2>3. CommittedIn(P, t) <= CallerCap /\ CommittedIn(P, t) \in Int
      BY <1>1, <1>8, <2>1 DEF SumsFit
    <2>4. MapThenSumSet(Exposure, Recent(P, t)) <= CallerCap
      BY <2>2, <2>3
    <2> QED
      BY <2>1, <2>4
  <1>11. MapThenSumSet(Exposure, RecentRounds(d)) <= DailyCap
    <2>1. /\ Total(ExposureOf, RecentRounds(d)) \in Int
          /\ Total(ExposureOf, RecentRounds(d)) <= SpendIn(d)
          /\ MapThenSumSet(Exposure, RecentRounds(d)) = Total(ExposureOf, RecentRounds(d))
      BY <1>5
    <2>2. SpendIn(d) \in Int
      BY <1>1 DEF SumsFit
    <2> QED
      BY <1>8, <2>1, <2>2
  <1> QED
    BY <1>6, <1>7, <1>9, <1>10, <1>11 DEF SpendWithinBudget, Recent, RecentRounds

\* What the ledger counts as spent is within the limits in every behaviour.
LEMMA PartStaysWithin == PartsSpec => [](subject = "budget" => BudgetSound /\ AdmittedWithin)
  <1>1. PartsInit => (subject = "budget" => BudgetSound /\ AdmittedWithin)
    BY BudgetStart, WithinStart DEF PartsInit
  <1>2. ASSUME subject = "budget" => BudgetSound /\ AdmittedWithin, [PartsNext]_partsVars
        PROVE  (subject = "budget" => BudgetSound /\ AdmittedWithin)'
    <2> SUFFICES ASSUME subject' = "budget" PROVE (BudgetSound /\ AdmittedWithin)'
      OBVIOUS
    <2>1. subject = "budget" /\ [BudgetNext]_budgetVars
      BY <1>2 DEF PartsNext, partsVars
    <2>2. BudgetSound /\ AdmittedWithin
      BY <1>2, <2>1
    <2>3. BudgetSound'
      BY <2>1, <2>2, BudgetStep
    <2> QED
      BY <2>1, <2>2, <2>3, WithinStep
  <1> QED
    BY <1>1, <1>2, PTL DEF PartsSpec

\* What was begun within any hour never costs more than the network's budget,
\* nor a caller's settlements more than the caller's, nor the keeper's rounds of
\* a day more than theirs, for any number of payments, callers and rounds
\* (SpendWithinBudget: claim and reserveSponsorSpend).
THEOREM WithinBudgetForGood == PartsSpec => []SpendCapped
  <1>1. (subject = "budget" => BudgetSound /\ AdmittedWithin) => SpendCapped
    BY WithinCaps DEF SpendCapped
  <1> QED
    BY <1>1, PartStaysWithin, PTL

-----------------------------------------------------------------------------
(* BuyerBudget: what moves is budgeted for, and a key pays once.             *)

CallRecord == [at : HandedOut \cup {"start", "signing", "refused"}, read : Ledgers]
RunRecord == [at : {"idle", "latest", "range", "events", "lookup"}, call : BuyerCalls \cup {0},
              row : RowType, latest : Ledgers, checked : Ledgers, found : BOOLEAN]

LEMMA BuyerFacts ==
  ASSUME BuyerSound
  PROVE  /\ Price \in Nat /\ ValidFor \in Nat /\ BuyerEnd \in Nat /\ Lag \in Nat /\ EventsLag \in Nat
         /\ newest \in 0..BuyerEnd /\ newest \in Nat /\ session \in 1..2 /\ terms \in Terms
         /\ rows \in [BuyerCalls -> RowType]
         /\ calls \in [BuyerCalls -> CallRecord] /\ runs \in [Runs -> RunRecord]
         /\ used \in [BuyerCalls -> [ledger : Ledgers \cup {Never}, amount : 0..Price]]
         /\ \A c \in BuyerCalls :
              /\ rows[c].signedAt \in Nat /\ rows[c].settled \in 0..Price
              /\ calls[c].read \in Ledgers /\ used[c].amount \in 0..Price
  <1>1. /\ Price \in Nat /\ ValidFor \in Nat /\ BuyerEnd \in Nat /\ Lag \in Nat /\ EventsLag \in Nat
        /\ newest \in 0..BuyerEnd /\ session \in 1..2 /\ terms \in Terms
        /\ rows \in [BuyerCalls -> RowType]
        /\ calls \in [BuyerCalls -> CallRecord] /\ runs \in [Runs -> RunRecord]
        /\ used \in [BuyerCalls -> [ledger : Ledgers \cup {Never}, amount : 0..Price]]
    BY BuyerAssumption DEF BuyerSound, BuyerTypeOK, CallRecord, RunRecord, Ledgers
  <1>2. \A c \in BuyerCalls : rows[c] \in RowType /\ calls[c] \in CallRecord
          /\ used[c] \in [ledger : Ledgers \cup {Never}, amount : 0..Price]
    BY <1>1
  <1>3. \A c \in BuyerCalls : rows[c].signedAt \in Ledgers /\ rows[c].settled \in 0..Price
    BY <1>2 DEF RowType
  <1>4. \A c \in BuyerCalls : calls[c].read \in Ledgers
    BY <1>2 DEF CallRecord
  <1>5. \A c \in BuyerCalls : used[c].amount \in 0..Price
    BY <1>2
  <1> QED
    BY <1>1, <1>3, <1>4, <1>5 DEF Ledgers

LEMMA BuyerStart == BuyerInit => BuyerSound
  <1> SUFFICES ASSUME BuyerInit PROVE BuyerSound
    OBVIOUS
  <1>0. 0 \in Ledgers /\ 0 \in 0..Price /\ Price \in Nat /\ BuyerEnd \in Nat
    BY BuyerAssumption DEF Ledgers
  <1>1. NoRow \in RowType /\ NoRow.state = "none" /\ NoRow.signedAt = 0
    BY <1>0 DEF NoRow, RowType, Pending
  <1>2. NoRun \in RunRecord /\ NoRun.at = "idle"
    BY <1>0, <1>1 DEF NoRun, RunRecord
  <1>3. /\ newest = 0 /\ session = 1 /\ terms \in Terms
        /\ \A c \in BuyerCalls :
             /\ rows[c] = NoRow /\ calls[c].at = "start" /\ calls[c].read = 0
             /\ used[c].ledger = Never /\ used[c].amount = 0
        /\ \A n \in Runs : runs[n] = NoRun
    BY DEF BuyerInit
  <1>4. BuyerTypeOK
    BY <1>0, <1>1 DEF BuyerInit, BuyerTypeOK
  <1>5. /\ calls \in [BuyerCalls -> CallRecord] /\ runs \in [Runs -> RunRecord]
    BY <1>0, <1>2 DEF BuyerInit, CallRecord
  <1>6. \A c \in BuyerCalls : CallFits(c)
    BY <1>0, <1>1, <1>3 DEF CallFits, HandedOut
  <1>7. \A n \in Runs : RunFits(n)
    BY <1>2, <1>3 DEF RunFits
  <1>8. KeyAlone
    BY <1>1, <1>3 DEF KeyAlone
  <1> QED
    BY <1>3, <1>4, <1>5, <1>6, <1>7, <1>8 DEF BuyerSound, CallRecord, RunRecord

\* A step of one call: its row, and how far it is.
LEMMA CallSound ==
  ASSUME BuyerSound, NEW c \in BuyerCalls, NEW r \in RowType, NEW d \in CallRecord,
         UNCHANGED <<newest, terms, session, used>>,
         rows' = [rows EXCEPT ![c] = r], calls' = [calls EXCEPT ![c] = d],
         runs' \in [Runs -> RunRecord], \A n \in Runs : runs'[n] = runs[n] \/ RunFits(n)',
         calls[c].at \in HandedOut => d.at \in HandedOut /\ r.signedAt = rows[c].signedAt,
         CallFits(c)',
         \/ r.state \in {"none", "released"} \/ rows[c].state \notin {"none", "released"}
         \/ KeyIsFree(c)
  PROVE  BuyerSound'
  <1> USE BuyerFacts
  <1>1. /\ rows'[c] = r /\ \A o \in BuyerCalls : o # c => rows'[o] = rows[o]
        /\ calls'[c] = d /\ \A o \in BuyerCalls : o # c => calls'[o] = calls[o]
        /\ rows' \in [BuyerCalls -> RowType] /\ calls' \in [BuyerCalls -> CallRecord]
    OBVIOUS
  <1>2. BuyerTypeOK'
    BY <1>1 DEF BuyerSound, BuyerTypeOK
  <1>3. \A o \in BuyerCalls : CallFits(o)'
    <2> SUFFICES ASSUME NEW o \in BuyerCalls, o # c PROVE CallFits(o)'
      OBVIOUS
    <2>1. CallFits(o) /\ rows'[o] = rows[o] /\ calls'[o] = calls[o]
      BY <1>1 DEF BuyerSound
    <2> QED
      BY <2>1 DEF CallFits, Usable, Expiration
  <1>4. \A n \in Runs : RunFits(n)'
    <2> SUFFICES ASSUME NEW n \in Runs, runs'[n] = runs[n] PROVE RunFits(n)'
      OBVIOUS
    <2>1. RunFits(n)
      BY DEF BuyerSound
    <2>2. CASE runs[n].call = c
      BY <1>1, <2>1, <2>2 DEF RunFits, EndOf, Expired, Expiration
    <2>3. CASE runs[n].call # c
      BY <1>1, <2>1, <2>3 DEF RunFits, EndOf, Expired, Expiration
    <2> QED
      BY <2>2, <2>3
  <1>5. KeyAlone'
    <2>1. KeyAlone
      BY DEF BuyerSound
    <2>2. CASE r.state \in {"none", "released"}
      BY <1>1, <2>1, <2>2 DEF KeyAlone
    <2>3. CASE rows[c].state \notin {"none", "released"}
      BY <1>1, <2>1, <2>3 DEF KeyAlone
    <2>4. CASE KeyIsFree(c)
      BY <1>1, <2>1, <2>4 DEF KeyAlone, KeyIsFree
    <2> QED
      BY <2>2, <2>3, <2>4
  <1> QED
    BY <1>1, <1>2, <1>3, <1>4, <1>5 DEF BuyerSound, CallRecord, RunRecord

\* What may become of the row of a call whose signature was handed out.
MayBecome(c, r) ==
  /\ r \in RowType /\ r.signedAt = rows[c].signedAt
  /\ r.state \in Signed \cup {"released"}
  /\ r.state = "released" => ~Usable(c) /\ (EventsLag = 0 => used[c].amount = 0)
  /\ r.state = "settled" /\ r.verified =>
       ~Usable(c) /\ (EventsLag = 0 => used[c].amount <= r.settled)
  /\ rows[c].state = "released" => r.state = "released"

RowMoves(c) == \E r \in RowType : MayBecome(c, r) /\ rows' = [rows EXCEPT ![c] = r]

LEMMA HandedOutRow ==
  ASSUME BuyerSound, NEW c \in BuyerCalls, calls[c].at \in HandedOut
  PROVE  MayBecome(c, rows[c])
  <1>1. CallFits(c) /\ rows[c] \in RowType
    BY BuyerFacts DEF BuyerSound
  <1>2. rows[c].state \notin {"none", "reserved"}
    BY <1>1 DEF CallFits, HandedOut
  <1>3. rows[c].state \in Signed \cup {"released"}
    BY <1>1, <1>2 DEF RowType, Signed, Pending
  <1> QED
    BY <1>1, <1>3 DEF MayBecome, CallFits

LEMMA RowStays ==
  ASSUME BuyerSound, NEW c \in BuyerCalls, calls[c].at \in HandedOut, rows' = rows
  PROVE  RowMoves(c)
  BY HandedOutRow, BuyerFacts DEF RowMoves

LEMMA TransitionMoves ==
  ASSUME BuyerSound, NEW c \in BuyerCalls, calls[c].at \in HandedOut, NEW from, NEW r,
         TransitionsTo(c, from, r), rows[c].state \in from => MayBecome(c, r)
  PROVE  RowMoves(c)
  <1>1. CASE rows[c].state \in from
    BY <1>1 DEF TransitionsTo, RowMoves, MayBecome
  <1>2. CASE rows[c].state \notin from
    BY <1>2, RowStays DEF TransitionsTo
  <1> QED
    BY <1>1, <1>2

LEMMA StateMoves ==
  ASSUME BuyerSound, NEW c \in BuyerCalls, calls[c].at \in HandedOut,
         NEW from \in SUBSET Signed, NEW s \in {"transmitted", "unresolved", "released"},
         TransitionsTo(c, from, [rows[c] EXCEPT !.state = s]),
         s = "released" => ~Usable(c) /\ (EventsLag = 0 => used[c].amount = 0)
  PROVE  RowMoves(c)
  <1> DEFINE r == [rows[c] EXCEPT !.state = s]
  <1>1. rows[c] \in RowType
    BY BuyerFacts
  <1>2. r \in RowType /\ r.state = s /\ r.signedAt = rows[c].signedAt
    BY <1>1 DEF RowType, Pending
  <1>3. rows[c].state \in from => MayBecome(c, r)
    BY <1>2 DEF MayBecome, Signed
  <1> QED
    BY <1>3, TransitionMoves

LEMMA SettlementMoves ==
  ASSUME BuyerSound, NEW c \in BuyerCalls, calls[c].at \in HandedOut,
         NEW hash \in {"none", "own", "other"}, NEW amount \in 0..Price, NEW verified \in BOOLEAN,
         SettlesRow(c, hash, amount, verified),
         verified => ~Usable(c) /\ (EventsLag = 0 => used[c].amount <= amount)
  PROVE  RowMoves(c)
  <1> DEFINE r == [rows[c] EXCEPT !.state = "settled", !.settled = amount,
                     !.verified = verified \/ @, !.hash = IF hash = "none" THEN @ ELSE hash]
  <1>1. rows[c] \in RowType
    BY BuyerFacts
  <1>2. CASE rows[c].unprovable \/ (rows[c].verified /\ ~verified)
    BY <1>2, RowStays DEF SettlesRow
  <1>3. CASE ~(rows[c].unprovable \/ (rows[c].verified /\ ~verified))
    <2>1. r \in RowType
      BY <1>1 DEF RowType
    <2>2. r.state = "settled" /\ r.signedAt = rows[c].signedAt /\ r.settled = amount
      BY <1>1 DEF RowType
    <2>3. r.verified => verified
      BY <1>1, <1>3 DEF RowType
    <2> HIDE DEF r
    <2>4. rows[c].state \in Signed => MayBecome(c, r)
      BY <2>1, <2>2, <2>3 DEF MayBecome, Signed
    <2>5. TransitionsTo(c, Signed, r)
      BY <1>3 DEF SettlesRow, r
    <2> QED
      BY <2>4, <2>5, TransitionMoves
  <1> QED
    BY <1>2, <1>3

LEMMA UnprovableMoves ==
  ASSUME BuyerSound, NEW c \in BuyerCalls, calls[c].at \in HandedOut, MarksUnprovable(c)
  PROVE  RowMoves(c)
  <1> DEFINE r == [rows[c] EXCEPT !.state = "settled", !.settled = Price, !.unprovable = TRUE]
  <1>1. rows[c] \in RowType /\ Price \in Nat
    BY BuyerFacts
  <1>2. CASE rows[c].verified
    BY <1>2, RowStays DEF MarksUnprovable
  <1>3. CASE ~rows[c].verified
    <2>0. Price \in 0..Price
      BY <1>1
    <2>a. r \in RowType
      BY <1>1, <2>0 DEF RowType
    <2>b. r.state = "settled" /\ r.signedAt = rows[c].signedAt /\ r.verified = rows[c].verified
      BY <1>1 DEF RowType
    <2>1. /\ r \in RowType /\ r.state = "settled" /\ r.signedAt = rows[c].signedAt /\ ~r.verified
      BY <1>3, <2>a, <2>b
    <2>2. TransitionsTo(c, Signed, r)
      BY <1>3 DEF MarksUnprovable
    <2> HIDE DEF r
    <2>3. rows[c].state \in Signed => MayBecome(c, r)
      BY <2>1 DEF MayBecome, Signed
    <2> QED
      BY <2>2, <2>3, TransitionMoves
  <1> QED
    BY <1>2, <1>3

\* A step on the row of a call whose signature was handed out.
LEMMA HandedOutSound ==
  ASSUME BuyerSound, NEW c \in BuyerCalls, calls[c].at \in HandedOut, RowMoves(c),
         calls' = calls \/ \E at \in HandedOut : Goes(c, at),
         UNCHANGED <<newest, terms, session, used>>,
         runs' \in [Runs -> RunRecord], \A n \in Runs : runs'[n] = runs[n] \/ runs'[n].at = "idle"
           \/ RunFits(n)'
  PROVE  BuyerSound'
  <1> USE BuyerFacts
  <1>1. PICK r \in RowType : MayBecome(c, r) /\ rows' = [rows EXCEPT ![c] = r]
    BY DEF RowMoves
  <1>2. PICK d \in CallRecord :
          /\ calls' = [calls EXCEPT ![c] = d] /\ d.at \in HandedOut /\ d.read = calls[c].read
    <2>1. CASE calls' = calls
      BY <2>1
    <2>2. ASSUME NEW at \in HandedOut, Goes(c, at)
          PROVE  \E d \in CallRecord :
                   /\ calls' = [calls EXCEPT ![c] = d] /\ d.at \in HandedOut /\ d.read = calls[c].read
      <3> DEFINE d == [calls[c] EXCEPT !.at = at]
      <3>1. d \in CallRecord /\ d.at = at /\ d.read = calls[c].read
        BY DEF CallRecord
      <3>2. calls' = [calls EXCEPT ![c] = d]
        BY <2>2 DEF Goes
      <3> QED
        BY <3>1, <3>2
    <2> QED
      BY <2>1, <2>2
  <1>3. /\ rows'[c] = r /\ calls'[c] = d
    BY <1>1, <1>2
  <1>4. CallFits(c) /\ rows[c].state # "none"
    BY DEF BuyerSound, CallFits, HandedOut
  <1>5. Usable(c)' => Usable(c)
    BY <1>1, <1>3 DEF Usable, MayBecome, Expiration, HandedOut
  <1>6. CallFits(c)'
    <2>1. /\ r.signedAt = rows[c].signedAt /\ r.state \in Signed \cup {"released"}
          /\ r.state = "released" => ~Usable(c) /\ (EventsLag = 0 => used[c].amount = 0)
          /\ r.state = "settled" /\ r.verified =>
               ~Usable(c) /\ (EventsLag = 0 => used[c].amount <= r.settled)
      BY <1>1 DEF MayBecome
    <2>2. r.state \notin {"none", "reserved"} /\ d.at \notin {"start", "signing", "refused"}
      BY <1>2, <2>1 DEF Signed, HandedOut
    <2> QED
      BY <1>2, <1>3, <1>4, <1>5, <2>1, <2>2 DEF CallFits, Expiration
  <1>7. r.state \in {"none", "released"} \/ rows[c].state \notin {"none", "released"}
    BY <1>1, <1>4 DEF MayBecome
  <1>8. r.signedAt = rows[c].signedAt
    BY <1>1 DEF MayBecome
  <1>9. \A n \in Runs : runs'[n] = runs[n] \/ RunFits(n)'
    BY DEF RunFits
  <1> QED
    BY <1>1, <1>2, <1>6, <1>7, <1>8, <1>9, CallSound

LEMMA ChainSteps ==
  ASSUME BuyerSound,
         ClosesEmpty \/ \E c \in BuyerCalls : \E amount \in 0..Price : ClosesWith(c, amount)
  PROVE  BuyerSound'
  <1> USE BuyerFacts
  <1>1. /\ newest < BuyerEnd /\ newest' = newest + 1
        /\ UNCHANGED <<terms, session, rows, calls, runs>>
    BY DEF ClosesEmpty, ClosesWith
  <1>2. newest' \in Ledgers /\ newest' \in Nat /\ newest' > newest
    BY <1>1 DEF Ledgers
  <1>3. \A c \in BuyerCalls :
          \/ used'[c] = used[c]
          \/ Usable(c) /\ used'[c].ledger = newest + 1 /\ used'[c].amount \in 0..Price
    <2>1. CASE ClosesEmpty
      BY <2>1 DEF ClosesEmpty
    <2>2. ASSUME NEW c \in BuyerCalls, NEW amount \in 0..Price, ClosesWith(c, amount)
          PROVE  \A o \in BuyerCalls :
                   \/ used'[o] = used[o]
                   \/ Usable(o) /\ used'[o].ledger = newest + 1 /\ used'[o].amount \in 0..Price
      <3> DEFINE u == [ledger |-> newest + 1, amount |-> amount]
      <3>1. Usable(c) /\ used' = [used EXCEPT ![c] = u] /\ u.ledger = newest + 1 /\ u.amount = amount
        BY <2>2 DEF ClosesWith
      <3> HIDE DEF u
      <3> QED
        BY <3>1
    <2> QED
      BY <2>1, <2>2
  <1>4. used' \in [BuyerCalls -> [ledger : Ledgers \cup {Never}, amount : 0..Price]]
    <2>1. CASE ClosesEmpty
      BY <2>1 DEF ClosesEmpty
    <2>2. ASSUME NEW c \in BuyerCalls, NEW amount \in 0..Price, ClosesWith(c, amount)
          PROVE  used' \in [BuyerCalls -> [ledger : Ledgers \cup {Never}, amount : 0..Price]]
      <3> DEFINE u == [ledger |-> newest + 1, amount |-> amount]
      <3>1. used' = [used EXCEPT ![c] = u] /\ u \in [ledger : Ledgers \cup {Never}, amount : 0..Price]
        BY <1>1, <1>2, <2>2 DEF ClosesWith
      <3> HIDE DEF u
      <3> QED
        BY <3>1
    <2> QED
      BY <2>1, <2>2
  <1>5. ASSUME NEW c \in BuyerCalls PROVE CallFits(c)'
    <2>0. CallFits(c) /\ Never \notin Nat /\ rows'[c] = rows[c] /\ calls'[c] = calls[c]
      BY <1>1 DEF BuyerSound, Never
    <2>1. CASE used'[c] = used[c]
      <3>1. Usable(c)' => Usable(c)
        BY <1>1, <1>2, <2>1 DEF Usable, Expiration
      <3>2. used[c].ledger # Never => used[c].ledger \in rows[c].signedAt..newest'
        BY <1>1, <1>2, <2>0 DEF CallFits
      <3>3. calls[c].read <= newest' /\ rows[c].signedAt <= newest'
        BY <1>1, <1>2, <2>0 DEF CallFits, Ledgers
      <3> QED
        BY <2>0, <2>1, <3>1, <3>2, <3>3 DEF CallFits, Expiration
    <2>2. CASE Usable(c) /\ used'[c].ledger = newest + 1 /\ used'[c].amount \in 0..Price
      <3>1. used'[c].ledger # Never /\ ~Usable(c)'
        BY <1>1, <1>2, <2>2 DEF Usable, Never
      <3>2. used'[c].ledger \in rows[c].signedAt..newest' /\ used'[c].ledger <= Expiration(rows[c])
        BY <1>1, <1>2, <2>0, <2>2 DEF CallFits, Usable, Expiration
      <3>3. calls[c].at \in HandedOut /\ calls[c].read <= newest' /\ rows[c].signedAt <= newest'
        BY <1>1, <1>2, <2>0, <2>2 DEF CallFits, Usable, HandedOut, Ledgers
      <3>4. rows[c].state # "released" /\ ~(rows[c].state = "settled" /\ rows[c].verified)
        BY <2>0, <2>2 DEF CallFits
      <3> QED
        BY <2>0, <3>1, <3>2, <3>3, <3>4 DEF CallFits, Expiration
    <2> QED
      BY <1>3, <2>1, <2>2
  <1>6. ASSUME NEW n \in Runs PROVE RunFits(n)'
    <2> SUFFICES ASSUME runs[n].at # "idle" PROVE RunFits(n)'
      BY <1>1 DEF RunFits
    <2>1. RunFits(n) /\ runs[n].latest \in Nat /\ runs'[n] = runs[n] /\ runs[n].call \in BuyerCalls
      BY <1>1 DEF BuyerSound, RunFits, RunRecord, Ledgers
    <2>2. Expired(runs[n].row, runs[n].latest) => used'[runs[n].call] = used[runs[n].call]
      <3>1. SUFFICES ASSUME Expired(runs[n].row, runs[n].latest) PROVE ~Usable(runs[n].call)
        BY <1>3, <2>1
      <3>2. rows[runs[n].call].signedAt = runs[n].row.signedAt /\ runs[n].latest <= newest
        BY <2>1 DEF RunFits
      <3>3. rows[runs[n].call].signedAt \in Nat
        BY <2>1
      <3> QED
        BY <2>1, <3>1, <3>2, <3>3 DEF Expired, Usable, Expiration
    <2>3. EndOf(n)' = EndOf(n) /\ runs[n].latest <= newest'
      BY <1>1, <1>2, <2>1 DEF RunFits, EndOf, Expiration
    <2> QED
      BY <1>1, <2>1, <2>2, <2>3 DEF RunFits, Expired, Expiration
  <1>7. KeyAlone' /\ BuyerTypeOK'
    BY <1>1, <1>2, <1>4 DEF BuyerSound, BuyerTypeOK, KeyAlone
  <1> QED
    BY <1>1, <1>5, <1>6, <1>7 DEF BuyerSound

LEMMA CallStepsSound ==
  ASSUME BuyerSound, NEW c \in BuyerCalls, CallSteps(c) \/ ReleasesAbandoned(c)
  PROVE  BuyerSound'
  <1> USE BuyerFacts
  <1>0. CallFits(c) /\ rows[c] \in RowType /\ calls[c] \in CallRecord
    BY DEF BuyerSound
  <1>r. ASSUME runs' = runs PROVE runs' \in [Runs -> RunRecord] /\ \A n \in Runs : runs'[n] = runs[n]
    BY <1>r
  \* Before the signature is handed out nothing can be used.
  <1>b. ASSUME calls[c].at \notin HandedOut, NEW r \in RowType, NEW d \in CallRecord,
               UNCHANGED <<newest, terms, session, used, runs>>,
               rows' = [rows EXCEPT ![c] = r], calls' = [calls EXCEPT ![c] = d],
               d.read <= newest, r.signedAt <= newest,
               \/ r.state \in {"reserved", "released"} /\ d.at \in {"signing", "refused"}
               \/ r.state = "signed" /\ d.at = "signed",
               r.state = "released" \/ rows[c].state = "reserved" \/ KeyIsFree(c)
        PROVE  BuyerSound'
    <2>1. rows'[c] = r /\ calls'[c] = d
      BY <1>b
    <2>2. used[c].ledger = Never /\ used[c].amount = 0
      BY <1>0, <1>b DEF CallFits
    <2>3. r.state = "released" => ~Usable(c)'
      BY <1>b, <2>1 DEF Usable
    <2>4. d.at # "start" /\ r.state # "none" /\ r.state # "settled"
      BY <1>b
    <2>5. CallFits(c)'
      BY <1>b, <2>1, <2>2, <2>3, <2>4 DEF CallFits
    <2> QED
      BY <1>b, <2>5, CallSound
  <1>1. CASE ReservesBudget(c)
    <2>1. PICK l \in Readings : calls' = [calls EXCEPT ![c] = [at |-> "signing", read |-> l]]
      BY <1>1 DEF ReservesBudget
    <2> DEFINE r == [NoRow EXCEPT !.state = "reserved", !.window = session, !.created = newest]
               d == [at |-> "signing", read |-> l]
    <2>2. /\ calls[c].at = "start" /\ KeyIsFree(c) /\ rows' = [rows EXCEPT ![c] = r]
          /\ UNCHANGED <<newest, terms, session, used, runs>>
      BY <1>1 DEF ReservesBudget
    <2>3. l \in Ledgers /\ l <= newest
      BY DEF Readings
    <2>a. 0 \in Ledgers /\ 0 \in 0..Price /\ newest \in Ledgers /\ session \in 0..2
      BY DEF Ledgers
    <2>4. r \in RowType /\ r.state = "reserved" /\ r.signedAt = 0
      BY <2>a DEF NoRow, RowType, Pending
    <2>5. d \in CallRecord /\ d.at = "signing" /\ d.read = l
      BY <2>3 DEF CallRecord
    <2> HIDE DEF r, d
    <2>6. calls' = [calls EXCEPT ![c] = d]
      BY <2>1 DEF d
    <2>7. calls[c].at \notin HandedOut
      BY <2>2 DEF HandedOut
    <2>8. d.read <= newest /\ r.signedAt <= newest
      BY <2>3, <2>4, <2>5
    <2>9. r.state \in {"reserved", "released"} /\ d.at \in {"signing", "refused"}
      BY <2>4, <2>5
    <2> QED
      BY <1>b, <2>2, <2>4, <2>5, <2>6, <2>7, <2>8, <2>9
  <1>2. CASE SignsPayment(c)
    <2> DEFINE r == [rows[c] EXCEPT !.state = "signed", !.signedAt = calls[c].read, !.created = 0]
               d == [at |-> "signed", read |-> 0]
    <2>1. /\ calls[c].at = "signing" /\ rows[c].state = "reserved"
          /\ rows' = [rows EXCEPT ![c] = r] /\ calls' = [calls EXCEPT ![c] = d]
          /\ UNCHANGED <<newest, terms, session, used, runs>>
      BY <1>2 DEF SignsPayment
    <2>2. 0 \in Ledgers
      BY DEF Ledgers
    <2>3. r \in RowType /\ r.state = "signed" /\ r.signedAt = calls[c].read
      BY <1>0, <2>2 DEF RowType, Pending
    <2>4. d \in CallRecord /\ d.at = "signed" /\ d.read = 0
      BY <2>2 DEF CallRecord, HandedOut
    <2>5. calls[c].read <= newest /\ calls[c].at \notin HandedOut
      BY <1>0, <2>1 DEF CallFits, HandedOut
    <2> HIDE DEF r, d
    <2>6. d.read <= newest /\ r.signedAt <= newest
      BY <2>3, <2>4, <2>5
    <2> QED
      BY <1>b, <2>1, <2>3, <2>4, <2>5, <2>6
  <1>3. CASE FailsSigning(c) \/ ReleasesAbandoned(c)
    <2>1. /\ TransitionsTo(c, {"reserved"}, [rows[c] EXCEPT !.state = "released"])
          /\ UNCHANGED <<newest, terms, session, used, runs>>
          /\ \/ calls[c].at = "signing" /\ Goes(c, "refused")
             \/ rows[c].state = "reserved" /\ calls' = calls
      BY <1>3 DEF FailsSigning, ReleasesAbandoned, ReleasesRow
    <2>2. calls[c].at \in {"signing", "refused"} /\ rows[c].state \in {"reserved", "released"}
      BY <1>0, <2>1 DEF CallFits
    <2> DEFINE r == [rows[c] EXCEPT !.state = "released"]
               d == [calls[c] EXCEPT !.at = "refused"]
    <2>3. r \in RowType /\ r.state = "released" /\ r.signedAt = rows[c].signedAt
      BY <1>0 DEF RowType
    <2>4. rows' = [rows EXCEPT ![c] = r]
      <3>1. CASE rows[c].state = "reserved"
        BY <2>1, <3>1 DEF TransitionsTo
      <3>2. CASE rows[c].state = "released"
        <4>1. rows' = rows
          BY <2>1, <3>2 DEF TransitionsTo
        <4>2. r = rows[c]
          BY <1>0, <3>2 DEF RowType
        <4> QED
          BY <4>1, <4>2
      <3> QED
        BY <2>2, <3>1, <3>2
    <2>5. d \in CallRecord /\ d.at = "refused" /\ d.read = calls[c].read
      BY <1>0 DEF CallRecord
    <2>6. calls' = [calls EXCEPT ![c] = d] \/ calls' = [calls EXCEPT ![c] = calls[c]]
      BY <2>1 DEF Goes
    <2>7. calls[c].read <= newest /\ rows[c].signedAt <= newest /\ calls[c].at \notin HandedOut
      BY <1>0, <2>2 DEF CallFits, HandedOut
    <2> HIDE DEF r, d
    <2> QED
      BY <1>0, <1>b, <2>1, <2>2, <2>3, <2>4, <2>5, <2>6, <2>7
  <1>4. CASE SendsPayment(c)
    <2>1. /\ calls[c].at \in HandedOut /\ Goes(c, "sent") /\ "sent" \in HandedOut
          /\ TransitionsTo(c, {"signed"}, [rows[c] EXCEPT !.state = "transmitted"])
          /\ UNCHANGED <<newest, terms, session, used, runs>>
      BY <1>4 DEF SendsPayment, HandedOut
    <2>2. {"signed"} \in SUBSET Signed
      BY DEF Signed
    <2>3. RowMoves(c)
      BY <2>1, <2>2, StateMoves
    <2> QED
      BY <1>r, <2>1, <2>3, HandedOutSound
  <1>5. CASE LeavesPending(c)
    <2>1. /\ calls[c].at \in HandedOut /\ Goes(c, "over") /\ "over" \in HandedOut
          /\ TransitionsTo(c, {"signed", "transmitted"}, [rows[c] EXCEPT !.state = "unresolved"])
          /\ UNCHANGED <<newest, terms, session, used, runs>>
      BY <1>5 DEF LeavesPending, HandedOut
    <2>2. {"signed", "transmitted"} \in SUBSET Signed
      BY DEF Signed
    <2>3. RowMoves(c)
      BY <2>1, <2>2, StateMoves
    <2> QED
      BY <1>r, <2>1, <2>3, HandedOutSound
  <1>6. ASSUME NEW hash \in {"own", "other"}, NEW amount \in 0..Price, ClaimsSettled(c, hash, amount)
        PROVE  BuyerSound'
    <2>1. /\ calls[c].at \in HandedOut /\ \E at \in HandedOut : Goes(c, at)
          /\ SettlesRow(c, hash, amount, FALSE)
          /\ UNCHANGED <<newest, terms, session, used, runs>>
      BY <1>6 DEF ClaimsSettled, HandedOut
    <2>2. RowMoves(c)
      BY <2>1, SettlementMoves
    <2> QED
      BY <1>r, <2>1, <2>2, HandedOutSound
  <1>7. CASE ClaimsZero(c)
    <2>1. /\ calls[c].at \in HandedOut /\ Goes(c, "over") /\ "over" \in HandedOut
          /\ SettlesRow(c, "none", 0, FALSE)
          /\ UNCHANGED <<newest, terms, session, used, runs>>
      BY <1>7 DEF ClaimsZero, HandedOut
    <2>2. RowMoves(c)
      <3>1. 0 \in 0..Price /\ FALSE \in BOOLEAN /\ "none" \in {"none", "own", "other"}
        OBVIOUS
      <3> QED
        BY <2>1, <3>1, SettlementMoves
    <2> QED
      BY <1>r, <2>1, <2>2, HandedOutSound
  <1>8. CASE VerifiesClaim(c)
    <2>1. /\ calls[c].at \in HandedOut /\ Goes(c, "over") /\ "over" \in HandedOut
          /\ UNCHANGED <<newest, terms, session, used, runs>>
          /\ \/ used[c].ledger # Never /\ SettlesRow(c, "own", used[c].amount, TRUE)
             \/ rows' = rows
      BY <1>8 DEF VerifiesClaim, HandedOut
    <2>2. used[c].ledger # Never => ~Usable(c)
      BY DEF Usable
    <2>3. used[c].amount <= used[c].amount
      OBVIOUS
    <2>4. RowMoves(c)
      BY <2>1, <2>2, <2>3, SettlementMoves, RowStays
    <2> QED
      BY <1>r, <2>1, <2>4, HandedOutSound
  <1>9. CASE BuyerDies(c)
    <2>1. /\ calls[c].at \in {"signing", "signed", "sent", "claimed"}
          /\ Goes(c, IF calls[c].at = "signing" THEN "refused" ELSE "over")
          /\ UNCHANGED <<newest, terms, session, rows, used, runs>>
      BY <1>9 DEF BuyerDies
    <2>2. CASE calls[c].at = "signing"
      <3> DEFINE d == [calls[c] EXCEPT !.at = "refused"]
      <3>1. d \in CallRecord /\ d.at = "refused" /\ d.read = calls[c].read
        BY <1>0 DEF CallRecord
      <3>2. calls' = [calls EXCEPT ![c] = d] /\ rows' = [rows EXCEPT ![c] = rows[c]]
        BY <2>1, <2>2 DEF Goes
      <3> HIDE DEF d
      <3>3. /\ rows[c].state \in {"reserved", "released"} /\ calls[c].at \notin HandedOut
            /\ calls[c].read <= newest /\ rows[c].signedAt <= newest
        BY <1>0, <2>2 DEF CallFits, HandedOut
      <3> QED
        BY <1>0, <1>b, <2>1, <3>1, <3>2, <3>3
    <2>3. CASE calls[c].at # "signing"
      <3>1. calls[c].at \in HandedOut /\ Goes(c, "over") /\ "over" \in HandedOut
        BY <2>1, <2>3 DEF HandedOut
      <3> QED
        BY <1>r, <2>1, <3>1, RowStays, HandedOutSound
    <2> QED
      BY <2>2, <2>3
  <1> QED
    BY <1>1, <1>2, <1>3, <1>4, <1>5, <1>6, <1>7, <1>8, <1>9 DEF CallSteps

\* What the run at a row knows: its call was handed out, and its row is as signed.
LEMMA RunKnows ==
  ASSUME BuyerSound, NEW n \in Runs, runs[n].at # "idle"
  PROVE  LET c == runs[n].call IN
         /\ c \in BuyerCalls /\ calls[c].at \in HandedOut
         /\ runs[n].row.signedAt = rows[c].signedAt /\ runs[n].row.signedAt \in Nat
         /\ Expiration(runs[n].row) = Expiration(rows[c]) /\ Expiration(rows[c]) \in Nat
         /\ runs[n].latest \in Ledgers /\ runs[n].latest \in Nat /\ runs[n].latest <= newest
         /\ runs[n].checked \in Nat
         /\ CallFits(c) /\ used[c].amount \in 0..Price
         /\ Expired(runs[n].row, runs[n].latest) =>
              ~Usable(c) /\ EndOf(n) = Expiration(rows[c])
  <1> USE BuyerFacts
  <1> DEFINE c == runs[n].call
  <1>1. RunFits(n) /\ runs[n] \in RunRecord
    BY DEF BuyerSound
  <1>2. /\ c \in BuyerCalls /\ calls[c].at \in HandedOut
        /\ runs[n].row.signedAt = rows[c].signedAt /\ runs[n].latest <= newest
    BY <1>1 DEF RunFits
  <1>3. /\ rows[c].signedAt \in Nat /\ used[c].amount \in 0..Price
        /\ runs[n].latest \in Ledgers /\ runs[n].latest \in Nat /\ runs[n].checked \in Nat
    BY <1>1, <1>2 DEF RunRecord, Ledgers
  <1>4. Expiration(runs[n].row) = Expiration(rows[c]) /\ Expiration(rows[c]) \in Nat
    BY <1>2, <1>3 DEF Expiration
  <1>5. ASSUME Expired(runs[n].row, runs[n].latest)
        PROVE  ~Usable(c) /\ EndOf(n) = Expiration(rows[c])
    <2>1. runs[n].latest > Expiration(rows[c]) /\ newest > Expiration(rows[c])
      BY <1>2, <1>3, <1>4, <1>5 DEF Expired
    <2>2. ~Usable(c)
      BY <1>4, <2>1 DEF Usable
    <2>3. EndOf(n) = Expiration(rows[c])
      BY <1>3, <1>4, <2>1 DEF EndOf, Least
    <2> QED
      BY <2>2, <2>3
  <1>6. CallFits(c)
    BY <1>2 DEF BuyerSound
  <1> QED
    BY <1>2, <1>3, <1>4, <1>5, <1>6

LEMMA NoRunRecord == NoRun \in RunRecord /\ NoRun.at = "idle"
  <1>1. 0 \in Ledgers /\ 0 \in 0..Price
    BY BuyerAssumption DEF Ledgers
  <1>2. NoRow \in RowType
    BY <1>1 DEF NoRow, RowType, Pending
  <1> QED
    BY <1>1, <1>2 DEF NoRun, RunRecord

\* A run stays at its row, or comes to one, of a call whose signature was handed out.
LEMMA RunGoesOn ==
  ASSUME BuyerSound, NEW n \in Runs, NEW c \in BuyerCalls, calls[c].at \in HandedOut,
         RowMoves(c), NEW u \in RunRecord,
         runs' = [runs EXCEPT ![n] = u], UNCHANGED <<newest, terms, session, calls, used>>,
         u.at # "idle" => RunFits(n)'
  PROVE  BuyerSound'
  <1> USE BuyerFacts
  <1>1. runs' \in [Runs -> RunRecord] /\ runs'[n] = u /\ \A m \in Runs : m # n => runs'[m] = runs[m]
    OBVIOUS
  <1>2. \A m \in Runs : runs'[m] = runs[m] \/ runs'[m].at = "idle" \/ RunFits(m)'
    BY <1>1
  <1> QED
    BY <1>1, <1>2, HandedOutSound

LEMMA RunEnds ==
  ASSUME BuyerSound, NEW n \in Runs, NEW c \in BuyerCalls, calls[c].at \in HandedOut,
         RowMoves(c), runs' = [runs EXCEPT ![n] = NoRun],
         UNCHANGED <<newest, terms, session, calls, used>>
  PROVE  BuyerSound'
  BY NoRunRecord, RunGoesOn

LEMMA TakesRowSound ==
  ASSUME BuyerSound, NEW n \in Runs, NEW c \in BuyerCalls, TakesRow(n, c)
  PROVE  BuyerSound'
  <1> USE BuyerFacts
  <1> DEFINE u == [NoRun EXCEPT !.at = "latest", !.call = c, !.row = rows[c]]
  <1>1. /\ Unfinished(rows[c]) /\ rows[c].state # "reserved" /\ runs' = [runs EXCEPT ![n] = u]
        /\ UNCHANGED <<newest, terms, session, rows, calls, used>>
    BY DEF TakesRow
  <1>2. /\ u \in RunRecord /\ u.at = "latest" /\ u.call = c /\ u.row = rows[c] /\ u.latest = 0
    BY NoRunRecord DEF RunRecord, NoRun
  <1> HIDE DEF u
  <1>3. CallFits(c) /\ calls[c] \in CallRecord
    BY DEF BuyerSound
  <1>4. rows[c].state \notin {"none", "released"}
    BY <1>1 DEF Unfinished, Pending
  <1>5. calls[c].at \notin {"start", "signing", "refused"}
    BY <1>1, <1>3, <1>4 DEF CallFits
  <1>6. calls[c].at \in HandedOut
    BY <1>3, <1>5 DEF CallRecord
  <1>7. runs'[n] = u
    BY <1>1
  <1>8. RunFits(n)'
    BY <1>1, <1>2, <1>6, <1>7 DEF RunFits
  <1> QED
    BY <1>1, <1>2, <1>6, <1>8, RowStays, RunGoesOn

LEMMA ReadsLatestSound ==
  ASSUME BuyerSound, NEW n \in Runs, ReadsLatest(n)
  PROVE  BuyerSound'
  <1> USE BuyerFacts
  <1> DEFINE c == runs[n].call
  <1>1. runs[n].at = "latest" /\ UNCHANGED <<newest, terms, session, calls, used>>
    BY DEF ReadsLatest, Reconciles
  <1>2. PICK l \in Readings :
          \/ runs' = [runs EXCEPT ![n] = NoRun] /\ rows' = rows
          \/ /\ \/ TransitionsTo(c, {"signed", "transmitted"}, [rows[c] EXCEPT !.state = "unresolved"])
                \/ rows' = rows
             /\ runs' = [runs EXCEPT ![n].at = "range", ![n].latest = l]
    BY DEF ReadsLatest
  <1> DEFINE u == [runs[n] EXCEPT !.at = "range", !.latest = l]
  <1>3. c \in BuyerCalls /\ calls[c].at \in HandedOut /\ runs[n].row.signedAt = rows[c].signedAt
    BY <1>1, RunKnows
  <1>4. l \in Ledgers /\ l <= newest /\ runs[n] \in RunRecord
    BY DEF Readings
  <1>5. u \in RunRecord /\ u.at = "range" /\ u.call = c /\ u.row = runs[n].row /\ u.latest = l
    BY <1>4 DEF RunRecord
  <1>6. runs' = [runs EXCEPT ![n] = NoRun] \/ runs' = [runs EXCEPT ![n] = u]
    BY <1>2
  <1> HIDE DEF u, c
  <1>7. {"signed", "transmitted"} \in SUBSET Signed
    BY DEF Signed
  <1>8. RowMoves(c)
    BY <1>2, <1>3, <1>7, RowStays, StateMoves
  <1>9. CASE runs' = [runs EXCEPT ![n] = u]
    <2>1. runs'[n] = u /\ rows'[c].signedAt = rows[c].signedAt
      BY <1>3, <1>8, <1>9 DEF RowMoves, MayBecome
    <2>2. RunFits(n)'
      BY <1>1, <1>3, <1>4, <1>5, <2>1 DEF RunFits
    <2> QED
      BY <1>1, <1>3, <1>5, <1>8, <1>9, <2>2, RunGoesOn
  <1> QED
    BY <1>1, <1>3, <1>6, <1>8, <1>9, RunEnds

LEMMA ChecksRangeSound ==
  ASSUME BuyerSound, NEW n \in Runs, ChecksRange(n)
  PROVE  BuyerSound'
  <1> USE BuyerFacts
  <1> DEFINE c == runs[n].call
  <1>1. runs[n].at = "range" /\ UNCHANGED <<newest, terms, session, calls, used>>
    BY DEF ChecksRange, Reconciles
  <1>2. PICK rpc \in Rpcs :
          \/ /\ MarksUnprovable(c) \/ rows' = rows
             /\ runs' = [runs EXCEPT ![n] = NoRun]
          \/ /\ ~NotIngested(n, rpc) /\ rows' = rows
             /\ runs' = [runs EXCEPT ![n].at = "events", ![n].checked = rpc.newest]
    BY DEF ChecksRange
  <1>3. /\ c \in BuyerCalls /\ calls[c].at \in HandedOut
        /\ runs[n].row.signedAt = rows[c].signedAt /\ runs[n].row.signedAt \in Nat
        /\ runs[n].latest \in Nat /\ runs[n].latest <= newest
    BY <1>1, RunKnows
  <1>4. CASE /\ MarksUnprovable(c) \/ rows' = rows
             /\ runs' = [runs EXCEPT ![n] = NoRun]
    <2>1. RowMoves(c)
      BY <1>3, <1>4, RowStays, UnprovableMoves
    <2> QED
      BY <1>1, <1>3, <1>4, <2>1, RunEnds
  <1>5. CASE /\ ~NotIngested(n, rpc) /\ rows' = rows
             /\ runs' = [runs EXCEPT ![n].at = "events", ![n].checked = rpc.newest]
    <2> DEFINE u == [runs[n] EXCEPT !.at = "events", !.checked = rpc.newest]
    <2>1. rpc.newest \in Ledgers /\ rpc.newest \in Nat /\ runs[n] \in RunRecord
      BY DEF Rpcs, Readings, Ledgers
    <2>2. /\ u \in RunRecord /\ u.at = "events" /\ u.call = c /\ u.row = runs[n].row
          /\ u.latest = runs[n].latest /\ u.checked = rpc.newest
      BY <2>1 DEF RunRecord
    <2>3. runs' = [runs EXCEPT ![n] = u]
      BY <1>5
    <2> HIDE DEF u, c
    <2>4. runs'[n] = u
      BY <2>3
    <2>5. EndOf(n)' = EndOf(n) /\ EndOf(n) \in Nat
      BY <1>3, <2>2, <2>4 DEF EndOf, Expiration, Least
    <2>6. EndOf(n) <= rpc.newest
      BY <1>5, <2>1, <2>5 DEF NotIngested
    <2>7. RunFits(n)'
      BY <1>1, <1>3, <1>5, <2>2, <2>4, <2>5, <2>6 DEF RunFits
    <2> QED
      BY <1>1, <1>3, <1>5, <2>2, <2>3, <2>7, RowStays, RunGoesOn
  <1> QED
    BY <1>2, <1>4, <1>5

\* Who holds the whole range, and is not behind its check, has indexed the use of
\* an expired authorization.
LEMMA ReadsEventsSound ==
  ASSUME BuyerSound, NEW n \in Runs, ReadsEvents(n)
  PROVE  BuyerSound'
  <1> USE BuyerFacts
  <1> DEFINE c == runs[n].call
  <1>1. runs[n].at = "events" /\ UNCHANGED <<newest, terms, session, rows, calls, used>>
    BY DEF ReadsEvents, Reconciles
  <1>2. PICK rpc \in Rpcs :
          /\ rpc.newest + EventsLag >= runs[n].checked
          /\ runs' = [runs EXCEPT ![n].at = "lookup", ![n].checked = 0, ![n].found = Indexed(n, rpc)]
    BY Zenon DEF ReadsEvents
  <1> DEFINE u == [runs[n] EXCEPT !.at = "lookup", !.checked = 0, !.found = Indexed(n, rpc)]
  <1>3. /\ c \in BuyerCalls /\ calls[c].at \in HandedOut /\ CallFits(c)
        /\ runs[n].row.signedAt = rows[c].signedAt /\ runs[n].row.signedAt \in Nat
        /\ Expiration(runs[n].row) = Expiration(rows[c]) /\ Expiration(rows[c]) \in Nat
        /\ runs[n].latest <= newest /\ runs[n].checked \in Nat /\ used[c].amount \in 0..Price
        /\ Expired(runs[n].row, runs[n].latest) => EndOf(n) = Expiration(rows[c])
    BY <1>1, RunKnows
  <1>4. rpc.newest \in Nat /\ 0 \in Ledgers /\ runs[n] \in RunRecord
    BY DEF Rpcs, Readings, Ledgers
  <1>5. Indexed(n, rpc) \in BOOLEAN
    BY DEF Indexed
  <1>6. /\ u \in RunRecord /\ u.at = "lookup" /\ u.call = c /\ u.row = runs[n].row
        /\ u.latest = runs[n].latest /\ u.found = Indexed(n, rpc)
    BY <1>4, <1>5 DEF RunRecord
  <1>7. runs' = [runs EXCEPT ![n] = u]
    BY <1>2
  <1> HIDE DEF u
  <1>8. runs'[n] = u
    BY <1>7
  <1>9. ASSUME ~Indexed(n, rpc), Expired(runs[n].row, runs[n].latest), EventsLag = 0
        PROVE  used[c].amount = 0
    <2>1. CASE used[c].ledger = Never
      BY <1>3, <2>1 DEF CallFits
    <2>2. CASE used[c].ledger # Never
      <3>1. /\ used[c].ledger \in rows[c].signedAt..newest
            /\ used[c].ledger <= Expiration(rows[c]) /\ EndOf(n) = Expiration(rows[c])
        BY <1>3, <1>9, <2>2 DEF CallFits
      <3>2. EndOf(n) <= runs[n].checked
        BY <1>1 DEF BuyerSound, RunFits
      <3>3. used[c].ledger <= rpc.newest /\ used[c].ledger \in runs[n].row.signedAt..EndOf(n)
        BY <1>2, <1>3, <1>4, <1>9, <3>1, <3>2
      <3>4. ~(used[c].amount > 0)
        BY <1>9, <3>3 DEF Indexed
      <3> QED
        BY <1>3, <3>4
    <2> QED
      BY <2>1, <2>2
  <1> HIDE DEF c
  <1>10. RunFits(n)'
    BY <1>1, <1>3, <1>6, <1>8, <1>9 DEF RunFits, Expired, Expiration
  <1> QED
    BY <1>1, <1>3, <1>6, <1>7, <1>10, RowStays, RunGoesOn

LEMMA LooksUpSound ==
  ASSUME BuyerSound, NEW n \in Runs, LooksUp(n)
  PROVE  BuyerSound'
  <1> USE BuyerFacts
  <1> DEFINE c == runs[n].call
             row == runs[n].row
             expired == Expired(row, runs[n].latest)
  <1>1. /\ runs[n].at = "lookup" /\ UNCHANGED <<newest, terms, session, calls, used>>
        /\ runs' = [runs EXCEPT ![n] = NoRun]
        /\ \/ used[c].ledger # Never /\ SettlesRow(c, "own", used[c].amount, TRUE)
           \/ ~runs[n].found /\ Absent(c, row, expired)
    BY DEF LooksUp, Reconciles
  <1>2. /\ c \in BuyerCalls /\ calls[c].at \in HandedOut /\ used[c].amount \in 0..Price
        /\ expired => ~Usable(c)
    BY <1>1, RunKnows
  <1>3. ~runs[n].found /\ expired => (EventsLag = 0 => used[c].amount = 0)
    BY <1>1 DEF BuyerSound, RunFits
  <1>4. RowMoves(c)
    <2>1. CASE used[c].ledger # Never /\ SettlesRow(c, "own", used[c].amount, TRUE)
      <3>1. ~Usable(c) /\ used[c].amount <= used[c].amount
        BY <1>2, <2>1 DEF Usable
      <3>2. TRUE \in BOOLEAN /\ "own" \in {"none", "own", "other"}
        OBVIOUS
      <3> HIDE DEF c
      <3> QED
        BY <1>2, <2>1, <3>1, <3>2, SettlementMoves
    <2>2. CASE ~runs[n].found /\ expired /\ Absent(c, row, expired)
      <3> HIDE DEF c, row, expired
      <3>1. ~Usable(c) /\ (EventsLag = 0 => used[c].amount = 0)
        BY <1>2, <1>3, <2>2
      <3>2. \/ SettlesRow(c, "none", 0, TRUE)
            \/ ReleasesRow(c, IF row.state = "settled" THEN {"settled"}
                              ELSE {"signed", "transmitted", "unresolved"})
        BY <2>2 DEF Absent
      <3>3. CASE SettlesRow(c, "none", 0, TRUE)
        <4>1. /\ 0 \in 0..Price /\ TRUE \in BOOLEAN /\ "none" \in {"none", "own", "other"}
              /\ EventsLag = 0 => used[c].amount <= 0
          BY <3>1
        <4> QED
          BY <1>2, <3>1, <3>3, <4>1, SettlementMoves
      <3>4. ASSUME NEW from \in SUBSET Signed, ReleasesRow(c, from) PROVE RowMoves(c)
        BY <1>2, <3>1, <3>4, StateMoves DEF ReleasesRow
      <3>5. {"settled"} \in SUBSET Signed /\ {"signed", "transmitted", "unresolved"} \in SUBSET Signed
        BY DEF Signed
      <3> QED
        BY <3>2, <3>3, <3>4, <3>5
    <2>3. CASE ~expired /\ Absent(c, row, expired)
      BY <1>2, <2>3, RowStays DEF Absent
    <2> QED
      BY <1>1, <2>1, <2>2, <2>3
  <1> HIDE DEF c
  <1> QED
    BY <1>1, <1>2, <1>4, RunEnds

LEMMA RunSteps ==
  ASSUME BuyerSound, NEW n \in Runs,
         \/ ReadsLatest(n) \/ ChecksRange(n) \/ ReadsEvents(n) \/ LooksUp(n) \/ GivesUp(n)
         \/ \E c \in BuyerCalls : TakesRow(n, c)
  PROVE  BuyerSound'
  <1>1. CASE GivesUp(n)
    <2>1. /\ runs[n].at # "idle" /\ UNCHANGED <<newest, terms, session, calls, used>>
          /\ rows' = rows /\ runs' = [runs EXCEPT ![n] = NoRun]
      BY <1>1 DEF GivesUp, Reconciles
    <2>2. runs[n].call \in BuyerCalls /\ calls[runs[n].call].at \in HandedOut
      BY <2>1, RunKnows
    <2> QED
      BY <2>1, <2>2, RowStays, RunEnds
  <1> QED
    BY <1>1, TakesRowSound, ReadsLatestSound, ChecksRangeSound, ReadsEventsSound, LooksUpSound

LEMMA BuyerStep == BuyerSound /\ [BuyerNext]_buyerVars => BuyerSound'
  <1> SUFFICES ASSUME BuyerSound, [BuyerNext]_buyerVars PROVE BuyerSound'
    OBVIOUS
  <1>1. CASE RenewsWindow \/ UNCHANGED buyerVars
    <2>1. UNCHANGED <<newest, terms, rows, calls, used, runs>> /\ session' \in 1..2
      BY <1>1, BuyerFacts DEF RenewsWindow, buyerVars
    <2>2. BuyerTypeOK' /\ KeyAlone'
      BY <2>1 DEF BuyerSound, BuyerTypeOK, KeyAlone
    <2>3. \A c \in BuyerCalls : CallFits(c)'
      BY <2>1 DEF BuyerSound, CallFits, Usable, Expiration
    <2>4. \A n \in Runs : RunFits(n)'
      BY <2>1 DEF BuyerSound, RunFits, EndOf
    <2> QED
      BY <2>1, <2>2, <2>3, <2>4 DEF BuyerSound
  <1>2. CASE ClosesEmpty \/ \E c \in BuyerCalls : \E amount \in 0..Price : ClosesWith(c, amount)
    BY <1>2, ChainSteps
  <1>3. ASSUME NEW c \in BuyerCalls, CallSteps(c) \/ ReleasesAbandoned(c) PROVE BuyerSound'
    BY <1>3, CallStepsSound
  <1>4. ASSUME NEW n \in Runs,
               \/ ReadsLatest(n) \/ ChecksRange(n) \/ ReadsEvents(n) \/ LooksUp(n) \/ GivesUp(n)
               \/ \E c \in BuyerCalls : TakesRow(n, c)
        PROVE  BuyerSound'
    BY <1>4, RunSteps
  <1> QED
    BY <1>1, <1>2, <1>3, <1>4 DEF BuyerNext

LEMMA SoundBudgetHolds ==
  ASSUME EventsLag = 0, BuyerSound
  PROVE  BudgetHoldsWhatMoves /\ KeyPaysOnce
  <1> USE BuyerFacts
  <1>1. ASSUME NEW c \in BuyerCalls
        PROVE  /\ UsageOf(rows[c]) >= MayMove(c)
               /\ MayMove(c) >= used[c].amount
               /\ rows[c].state \in {"none", "released"} => MayMove(c) = 0
    <2>0. /\ CallFits(c) /\ rows[c] \in RowType /\ calls[c] \in CallRecord
          /\ Price \in Nat /\ used[c].amount \in 0..Price /\ rows[c].settled \in 0..Price
      BY DEF BuyerSound
    <2>1. MayMove(c) = IF Usable(c) THEN Price ELSE used[c].amount
      BY DEF MayMove
    <2>2. CASE rows[c].state \in {"none", "released"}
      <3>1. ~Usable(c) /\ used[c].amount = 0
        BY <2>0, <2>2 DEF CallFits, Usable, HandedOut
      <3>2. UsageOf(rows[c]) = 0
        BY <2>2 DEF UsageOf, Pending
      <3> QED
        BY <2>0, <2>1, <3>1, <3>2
    <2>3. CASE rows[c].state \in Pending
      <3>1. UsageOf(rows[c]) = Price /\ rows[c].state \notin {"none", "released"}
        BY <2>3 DEF UsageOf, Pending
      <3> QED
        BY <2>0, <2>1, <3>1
    <2>4. CASE rows[c].state = "settled" /\ rows[c].verified
      <3>1. CarriedPending(rows[c]) = 0
        BY <2>4 DEF CarriedPending, Pending
      <3>2. UsageOf(rows[c]) = rows[c].settled + CarriedPending(rows[c])
        BY <2>4 DEF UsageOf, Pending
      <3>3. ~Usable(c) /\ used[c].amount <= rows[c].settled
        BY <2>0, <2>4 DEF CallFits
      <3> QED
        BY <2>0, <2>1, <2>4, <3>1, <3>2, <3>3
    <2>5. CASE rows[c].state = "settled" /\ ~rows[c].verified
      <3>1. CarriedPending(rows[c]) = Price - rows[c].settled
        BY <2>5 DEF CarriedPending, Pending
      <3>2. UsageOf(rows[c]) = rows[c].settled + CarriedPending(rows[c])
        BY <2>5 DEF UsageOf, Pending
      <3>3. UsageOf(rows[c]) = Price
        BY <2>0, <3>1, <3>2
      <3> QED
        BY <2>0, <2>1, <2>5, <3>3
    <2> QED
      BY <2>0, <2>2, <2>3, <2>4, <2>5 DEF RowType
  <1>2. KeyPaysOnce
    <2> SUFFICES ASSUME terms.oneKey, NEW c \in BuyerCalls, NEW o \in BuyerCalls,
                        used[c].amount > 0, MayMove(o) > 0
                 PROVE  c = o
      BY DEF KeyPaysOnce
    <2>1. /\ rows[o].state \in {"none", "released"} => MayMove(o) = 0
          /\ rows[c].state \in {"none", "released"} => MayMove(c) = 0
          /\ MayMove(c) >= used[c].amount
      BY <1>1
    <2>2. used[c].amount \in Nat /\ MayMove(c) \in Nat
      BY DEF MayMove
    <2>3. rows[o].state \notin {"none", "released"} /\ rows[c].state \notin {"none", "released"}
      BY <2>1, <2>2
    <2> QED
      BY <2>3 DEF BuyerSound, KeyAlone
  <1> QED
    BY <1>1, <1>2 DEF BudgetHoldsWhatMoves

\* The buyer's part of every behaviour: each row, call and run of reconcile fits
\* what may have become of the row's authorization (BuyerSound).
THEOREM BuyerIsSound == PartsSpec => [](subject = "buyer" => BuyerSound)
  <1>1. PartsInit => (subject = "buyer" => BuyerSound)
    BY BuyerStart DEF PartsInit
  <1>2. ASSUME subject = "buyer" => BuyerSound, [PartsNext]_partsVars
        PROVE  (subject = "buyer" => BuyerSound)'
    <2> SUFFICES ASSUME subject' = "buyer" PROVE BuyerSound'
      OBVIOUS
    <2>1. subject = "buyer" /\ [BuyerNext]_buyerVars
      BY <1>2 DEF PartsNext, partsVars
    <2> QED
      BY <1>2, <2>1, BuyerStep
  <1> QED
    BY <1>1, <1>2, PTL DEF PartsSpec

\* If the events of a proof are not read behind the check of their range, the
\* budget of an authorization that moved money, or still can, never returns,
\* whatever the seller reports, whichever RPC answers each of the other reads and
\* whichever runs of reconcile act on old rows, for any number of calls and runs
\* (BudgetHoldsWhatMoves: the buyer's ledger and reconcile.ts).
THEOREM KeptForGood ==
  ASSUME EventsLag = 0
  PROVE  PartsSpec => []BudgetKept
  <1>1. (subject = "buyer" => BuyerSound) => BudgetKept
    BY SoundBudgetHolds DEF BudgetKept
  <1> QED
    BY <1>1, BuyerIsSound, PTL

\* If the events of a proof are not read behind the check of their range, the
\* calls that carry one idempotency key move money at most once, in whatever
\* windows they were made (KeyPaysOnce: keyReusable and takeKey of the buyer's
\* ledger).
THEOREM KeyOnceForGood ==
  ASSUME EventsLag = 0
  PROVE  PartsSpec => []KeyKept
  <1>1. (subject = "buyer" => BuyerSound) => KeyKept
    BY SoundBudgetHolds DEF KeyKept
  <1> QED
    BY <1>1, BuyerIsSound, PTL

-----------------------------------------------------------------------------
(* BuyerBudget: what a window's authorizations move stays within its cap.    *)

-----------------------------------------------------------------------------
CountedFor(c) ==
  IF rows[c].window = session THEN UsageOf(rows[c]) ELSE CarriedPending(rows[c])
MovesIn(c, w) ==
  IF rows[c].window = w THEN MayMove(c)
  ELSE IF Usable(c) /\ rows[c].window < w THEN Price - rows[c].settled ELSE 0

CountFor == [c \in BuyerCalls |-> CountedFor(c)]
TakesOf(w) == [c \in BuyerCalls |-> Takes(c, w)]
MovesOf(w) == [c \in BuyerCalls |-> MovesIn(c, w)]

LEMMA FiniteCalls ==
  ASSUME NEW S \in SUBSET BuyerCalls
  PROVE  IsFiniteSet(S)
  BY BuyerAssumption, FS_Subset

\* What a row counts and takes, and what may move, are numbers.
LEMMA CapNumbersOf ==
  ASSUME BuyerSound
  PROVE  /\ \A c \in BuyerCalls : CountedFor(c) \in Nat /\ CountFor[c] = CountedFor(c)
         /\ \A c \in BuyerCalls, w \in Int :
              /\ Takes(c, w) \in 0..Price /\ TakesOf(w)[c] = Takes(c, w)
              /\ MovesIn(c, w) \in Nat /\ MovesOf(w)[c] = MovesIn(c, w)
              /\ MovesIn(c, w) <= Takes(c, w)
  <1>1. ASSUME NEW c \in BuyerCalls
        PROVE  /\ Price \in Nat /\ rows[c].settled \in 0..Price /\ used[c].amount \in 0..Price
               /\ Price - rows[c].settled \in 0..Price
    BY BuyerFacts
  <1>2. ASSUME NEW c \in BuyerCalls PROVE CountedFor(c) \in Nat
    <2>1. CarriedPending(rows[c]) \in 0..Price
      BY <1>1 DEF CarriedPending
    <2>2. UsageOf(rows[c]) \in Nat
      BY <1>1, <2>1 DEF UsageOf
    <2> QED
      BY <1>1, <2>1, <2>2 DEF CountedFor
  <1>3. ASSUME NEW c \in BuyerCalls, NEW w \in Int
        PROVE  Takes(c, w) \in 0..Price /\ MovesIn(c, w) \in Nat /\ MovesIn(c, w) <= Takes(c, w)
    BY <1>1 DEF Takes, MovesIn, MayMove, CouldMove
  <1> QED
    BY <1>2, <1>3 DEF CountFor, TakesOf, MovesOf

LEMMA SumOfUsage ==
  ASSUME BuyerSound, NEW S \in SUBSET BuyerCalls
  PROVE  MapThenSumSet(CountedFor, S) = Total(CountFor, S)
  <1> DEFINE E(g) == g = [s \in SUBSET S |-> IF s = {} THEN 0
                ELSE CountedFor(Some(s)) + g[s \ {Some(s)}]]
  <1>1. PICK h : h = CHOOSE g : E(g)
    OBVIOUS
  <1>2. MapThenSumSet(CountedFor, S) = h[S]
    BY <1>1 DEF MapThenSumSet, MapThenFoldSet, Some
  <1>3. ASSUME NEW g PROVE E(g) <=> IsSum(g, CountFor, S)
    <2>1. ASSUME NEW s \in SUBSET S, s # {} PROVE CountedFor(Some(s)) = CountFor[Some(s)]
      <3>1. Some(s) \in BuyerCalls
        BY <2>1, SomeOf
      <3> QED
        BY <3>1, CapNumbersOf
    <2> DEFINE A == [s \in SUBSET S |-> IF s = {} THEN 0
                  ELSE CountedFor(Some(s)) + g[s \ {Some(s)}]]
               B == [s \in SUBSET S |-> Sums(g, CountFor, s)]
    <2>2. A = B
      BY <2>1 DEF Sums
    <2>3. E(g) <=> g = A
      OBVIOUS
    <2>4. IsSum(g, CountFor, S) <=> g = B
      BY DEF IsSum
    <2> HIDE DEF A, B, E
    <2> QED
      BY <2>2, <2>3, <2>4
  <1>4. IsFiniteSet(S) /\ \A x \in S : CountFor[x] \in Int
    BY FiniteCalls, CapNumbersOf
  <1> HIDE DEF E
  <1>5. \E g : E(g)
    BY <1>3, <1>4, SumIsTotal
  <1>6. E(h)
    BY <1>1, <1>5
  <1> QED
    BY <1>2, <1>3, <1>4, <1>6, SumIsTotal

LEMMA SumOfTakes ==
  ASSUME BuyerSound, NEW w \in Int, NEW S \in SUBSET BuyerCalls
  PROVE  MapThenSumSet(LAMBDA c : Takes(c, w), S) = Total(TakesOf(w), S)
  <1> DEFINE E(g) == g = [s \in SUBSET S |-> IF s = {} THEN 0
                ELSE Takes(Some(s), w) + g[s \ {Some(s)}]]
  <1>1. PICK h : h = CHOOSE g : E(g)
    OBVIOUS
  <1>2. MapThenSumSet(LAMBDA c : Takes(c, w), S) = h[S]
    BY <1>1 DEF MapThenSumSet, MapThenFoldSet, Some
  <1>3. ASSUME NEW g PROVE E(g) <=> IsSum(g, TakesOf(w), S)
    <2>1. ASSUME NEW s \in SUBSET S, s # {} PROVE Takes(Some(s), w) = TakesOf(w)[Some(s)]
      <3>1. Some(s) \in BuyerCalls
        BY <2>1, SomeOf
      <3> QED
        BY <3>1, CapNumbersOf
    <2> DEFINE A == [s \in SUBSET S |-> IF s = {} THEN 0
                  ELSE Takes(Some(s), w) + g[s \ {Some(s)}]]
               B == [s \in SUBSET S |-> Sums(g, TakesOf(w), s)]
    <2>2. A = B
      BY <2>1 DEF Sums
    <2>3. E(g) <=> g = A
      OBVIOUS
    <2>4. IsSum(g, TakesOf(w), S) <=> g = B
      BY DEF IsSum
    <2> HIDE DEF A, B, E
    <2> QED
      BY <2>2, <2>3, <2>4
  <1>4. IsFiniteSet(S) /\ \A x \in S : TakesOf(w)[x] \in Int
    BY FiniteCalls, CapNumbersOf
  <1> HIDE DEF E
  <1>5. \E g : E(g)
    BY <1>3, <1>4, SumIsTotal
  <1>6. E(h)
    BY <1>1, <1>5
  <1> QED
    BY <1>2, <1>3, <1>4, <1>6, SumIsTotal

LEMMA SumOfMoves ==
  ASSUME BuyerSound, NEW w \in Int, NEW S \in SUBSET BuyerCalls
  PROVE  MapThenSumSet(LAMBDA c : MovesIn(c, w), S) = Total(MovesOf(w), S)
  <1> DEFINE E(g) == g = [s \in SUBSET S |-> IF s = {} THEN 0
                ELSE MovesIn(Some(s), w) + g[s \ {Some(s)}]]
  <1>1. PICK h : h = CHOOSE g : E(g)
    OBVIOUS
  <1>2. MapThenSumSet(LAMBDA c : MovesIn(c, w), S) = h[S]
    BY <1>1 DEF MapThenSumSet, MapThenFoldSet, Some
  <1>3. ASSUME NEW g PROVE E(g) <=> IsSum(g, MovesOf(w), S)
    <2>1. ASSUME NEW s \in SUBSET S, s # {} PROVE MovesIn(Some(s), w) = MovesOf(w)[Some(s)]
      <3>1. Some(s) \in BuyerCalls
        BY <2>1, SomeOf
      <3> QED
        BY <3>1, CapNumbersOf
    <2> DEFINE A == [s \in SUBSET S |-> IF s = {} THEN 0
                  ELSE MovesIn(Some(s), w) + g[s \ {Some(s)}]]
               B == [s \in SUBSET S |-> Sums(g, MovesOf(w), s)]
    <2>2. A = B
      BY <2>1 DEF Sums
    <2>3. E(g) <=> g = A
      OBVIOUS
    <2>4. IsSum(g, MovesOf(w), S) <=> g = B
      BY DEF IsSum
    <2> HIDE DEF A, B, E
    <2> QED
      BY <2>2, <2>3, <2>4
  <1>4. IsFiniteSet(S) /\ \A x \in S : MovesOf(w)[x] \in Int
    BY FiniteCalls, CapNumbersOf
  <1> HIDE DEF E
  <1>5. \E g : E(g)
    BY <1>3, <1>4, SumIsTotal
  <1>6. E(h)
    BY <1>1, <1>5
  <1> QED
    BY <1>2, <1>3, <1>4, <1>6, SumIsTotal

LEMMA SumIsTakes ==
  ASSUME BuyerSound, NEW w \in Int
  PROVE  /\ MapThenSumSet(LAMBDA c : Takes(c, w), BuyerCalls) = Total(TakesOf(w), BuyerCalls)
         /\ Total(TakesOf(w), BuyerCalls) \in Int
  <1>1. BuyerCalls \in SUBSET BuyerCalls /\ IsFiniteSet(BuyerCalls)
    BY FiniteCalls
  <1>2. \A c \in BuyerCalls : TakesOf(w)[c] \in Int
    BY CapNumbersOf
  <1> QED
    BY <1>1, <1>2, SumOfTakes, TotalIsInt

\* WindowsWithinCap, in totals.
CapFits ==
  /\ \A w \in 1..session : Total(TakesOf(w), BuyerCalls) <= SessionCap
  /\ \A w \in Int : Total(TakesOf(w), BuyerCalls) \in Int
  /\ \A c \in BuyerCalls, w \in Int : TakesOf(w)[c] \in 0..Price /\ TakesOf(w)[c] = Takes(c, w)

RowsFit ==
  \A c \in BuyerCalls :
    /\ rows[c].window <= session
    /\ CouldMove(c) /\ calls[c].at \notin {"claimed", "over"} => rows[c].settled = 0

LEMMA WindowsAreTotals == BuyerSound => (WindowsWithinCap <=> CapFits /\ RowsFit)
  <1> SUFFICES ASSUME BuyerSound PROVE WindowsWithinCap <=> CapFits /\ RowsFit
    OBVIOUS
  <1>1. \A w \in 1..session : w \in Int
    OBVIOUS
  <1>2. \A w \in Int :
          /\ MapThenSumSet(LAMBDA c : Takes(c, w), BuyerCalls) = Total(TakesOf(w), BuyerCalls)
          /\ Total(TakesOf(w), BuyerCalls) \in Int
    BY SumIsTakes
  <1>3. \A c \in BuyerCalls, w \in Int : TakesOf(w)[c] \in 0..Price /\ TakesOf(w)[c] = Takes(c, w)
    BY CapNumbersOf
  <1> QED
    BY <1>1, <1>2, <1>3 DEF WindowsWithinCap, CapFits, RowsFit

LEMMA WindowsAreTotalsAfter == BuyerSound' => (WindowsWithinCap' <=> CapFits' /\ RowsFit')
  BY WindowsAreTotals, PTL

TotalsAfter == \A w \in Int : Total(TakesOf(w), BuyerCalls) \in Int
               /\ \A c \in BuyerCalls : TakesOf(w)[c] \in 0..Price /\ TakesOf(w)[c] = Takes(c, w)

LEMMA TotalsDoFit == BuyerSound => TotalsAfter
  BY SumIsTakes, CapNumbersOf DEF TotalsAfter

LEMMA TotalsFitAfter == BuyerSound' => TotalsAfter'
  BY TotalsDoFit, PTL

\* Rows that take no more add up to no more.
LEMMA TakesNoMore ==
  ASSUME BuyerSound, BuyerSound', NEW v \in Int, NEW w \in Int,
         \A c \in BuyerCalls : Takes(c, v)' <= Takes(c, w)
  PROVE  Total(TakesOf(v), BuyerCalls)' <= Total(TakesOf(w), BuyerCalls)
  <1>1. TotalsAfter /\ TotalsAfter'
    BY TotalsDoFit, TotalsFitAfter
  <1>2. PICK f : f = TakesOf(v)'
    OBVIOUS
  <1>3. PICK e : e = TakesOf(w)
    OBVIOUS
  <1>4. Price \in Nat
    BY BuyerAssumption
  <1>5. \A c \in BuyerCalls : f[c] \in Int /\ f[c] <= e[c] /\ e[c] \in Nat
    BY <1>1, <1>2, <1>3, <1>4 DEF TotalsAfter
  <1>6. IsFiniteSet(BuyerCalls) /\ BuyerCalls \in SUBSET BuyerCalls
    BY FiniteCalls
  <1>7. Total(f, BuyerCalls) <= Total(e, BuyerCalls)
    BY <1>5, <1>6, TotalAtMost
  <1> QED
    BY <1>2, <1>3, <1>7

\* What a step may do to a row: nothing moves that could not, and what a row
\* counts as settled changes once while its authorization can be used.
RowShrinks(c) ==
  /\ rows'[c].window = rows[c].window
  /\ CouldMove(c)' => CouldMove(c) /\ (rows'[c].settled = rows[c].settled \/ rows[c].settled = 0)
  /\ used'[c].amount = used[c].amount \/ CouldMove(c)
  /\ CouldMove(c)' /\ calls'[c].at \notin {"claimed", "over"} => rows'[c].settled = 0

LEMMA ShrinkingTakesNoMore ==
  ASSUME BuyerSound, BuyerSound', NEW c \in BuyerCalls, RowShrinks(c), NEW w \in Int
  PROVE  Takes(c, w)' <= Takes(c, w)
  <1>1. /\ Price \in Nat /\ rows[c].settled \in 0..Price /\ used[c].amount \in 0..Price
        /\ rows[c].window \in Int
    BY BuyerFacts DEF RowType
  <1>2. rows'[c].settled \in 0..Price /\ used'[c].amount \in 0..Price
    BY DEF BuyerSound, BuyerTypeOK, RowType
  <1>3. CASE rows[c].window = w
    BY <1>1, <1>2, <1>3 DEF RowShrinks, Takes
  <1>4. CASE rows[c].window # w
    BY <1>1, <1>2, <1>4 DEF RowShrinks, Takes
  <1> QED
    BY <1>3, <1>4

LEMMA ShrinkStep ==
  ASSUME BuyerSound, BuyerSound', WindowsWithinCap, session' = session,
         \A c \in BuyerCalls : RowShrinks(c)
  PROVE  WindowsWithinCap'
  <1>1. CapFits /\ RowsFit
    BY WindowsAreTotals
  <1>2. TotalsAfter /\ TotalsAfter'
    BY TotalsDoFit, TotalsFitAfter
  <1>3. ASSUME NEW w \in 1..session PROVE Total(TakesOf(w), BuyerCalls)' <= SessionCap
    <2>1. \A c \in BuyerCalls : Takes(c, w)' <= Takes(c, w)
      BY ShrinkingTakesNoMore
    <2>2. Total(TakesOf(w), BuyerCalls)' <= Total(TakesOf(w), BuyerCalls)
      BY <2>1, TakesNoMore
    <2>3. Total(TakesOf(w), BuyerCalls) <= SessionCap
      BY <1>1 DEF CapFits
    <2>4. Total(TakesOf(w), BuyerCalls)' \in Int /\ Total(TakesOf(w), BuyerCalls) \in Int
      BY <1>2 DEF TotalsAfter
    <2>5. SessionCap \in Nat
      BY BuyerAssumption
    <2> QED
      BY <2>2, <2>3, <2>4, <2>5
  <1>4. CapFits'
    BY <1>2, <1>3 DEF CapFits, TotalsAfter
  <1>5. RowsFit'
    BY <1>1 DEF RowsFit, RowShrinks
  <1> QED
    BY <1>4, <1>5, WindowsAreTotalsAfter

\* A row of an authorization that was signed and not used can be used later only
\* if it can now.
LEMMA UsableBefore ==
  ASSUME BuyerSound, BuyerSound', NEW c \in BuyerCalls, calls[c].at \in HandedOut,
         rows'[c].signedAt = rows[c].signedAt, used' = used, newest' = newest
  PROVE  CouldMove(c)' => CouldMove(c) \/ rows'[c].state = "reserved"
  BY DEF CouldMove, Usable, Expiration, HandedOut

\* A step on the row of one call, after its signature was handed out.
LEMMA HandedOutShrinks ==
  ASSUME BuyerSound, BuyerSound', WindowsWithinCap, NEW c \in BuyerCalls,
         calls[c].at \in HandedOut, calls'[c].at \in HandedOut,
         UNCHANGED <<newest, session, used>>,
         \A o \in BuyerCalls \ {c} : rows'[o] = rows[o] /\ calls'[o] = calls[o],
         rows'[c].window = rows[c].window, rows'[c].signedAt = rows[c].signedAt,
         \/ rows'[c].settled = rows[c].settled
         \/ rows'[c].state = "settled" /\ rows'[c].verified
         \/ rows'[c].state = "settled" /\ ~Usable(c)
         \/ calls[c].at = "sent" /\ calls'[c].at \in {"claimed", "over"},
         calls[c].at \in {"claimed", "over"} => calls'[c].at \in {"claimed", "over"}
  PROVE  WindowsWithinCap'
  <1>1. RowsFit
    BY WindowsAreTotals
  <1>2. CallFits(c) /\ CallFits(c)'
    BY DEF BuyerSound
  <1>3. rows'[c].state # "reserved" /\ rows[c].state # "reserved"
    BY <1>2 DEF CallFits, HandedOut
  <1>4. CouldMove(c)' => CouldMove(c)
    BY <1>3, UsableBefore
  <1>5. rows'[c].state = "settled" /\ rows'[c].verified => ~CouldMove(c)'
    BY <1>2, <1>3 DEF CallFits, CouldMove
  <1>6. ~Usable(c) => ~CouldMove(c)'
    BY <1>3, <1>4 DEF CouldMove
  <1>7. CouldMove(c)' /\ calls[c].at = "sent" => rows[c].settled = 0
    BY <1>1, <1>4 DEF RowsFit
  <1>8. RowShrinks(c)
    BY <1>1, <1>4, <1>5, <1>6, <1>7 DEF RowShrinks, RowsFit
  <1>9. ASSUME NEW o \in BuyerCalls \ {c} PROVE RowShrinks(o)
    BY <1>1, <1>9 DEF RowShrinks, RowsFit, CouldMove, Usable, Expiration
  <1> QED
    BY <1>8, <1>9, ShrinkStep

\* What the ledger's transitions keep of a row.
LEMMA TransitionKeeps ==
  ASSUME BuyerSound, NEW c \in BuyerCalls, NEW from, NEW s,
         TransitionsTo(c, from, [rows[c] EXCEPT !.state = s])
  PROVE  /\ \A o \in BuyerCalls \ {c} : rows'[o] = rows[o]
         /\ rows'[c].window = rows[c].window /\ rows'[c].signedAt = rows[c].signedAt
         /\ rows'[c].settled = rows[c].settled
         /\ rows'[c].state \in {s, rows[c].state}
  <1>1. rows[c] \in RowType /\ rows \in [BuyerCalls -> RowType]
    BY BuyerFacts
  <1> DEFINE r == [rows[c] EXCEPT !.state = s]
  <1>2. /\ r.window = rows[c].window /\ r.signedAt = rows[c].signedAt
        /\ r.settled = rows[c].settled /\ r.state = s
    BY <1>1 DEF RowType
  <1>3. rows' = rows \/ rows' = [rows EXCEPT ![c] = r]
    BY DEF TransitionsTo
  <1> HIDE DEF r
  <1> QED
    BY <1>1, <1>2, <1>3

LEMMA SettlementKeeps ==
  ASSUME BuyerSound, NEW c \in BuyerCalls, NEW hash, NEW amount, NEW verified \in BOOLEAN,
         SettlesRow(c, hash, amount, verified)
  PROVE  /\ \A o \in BuyerCalls \ {c} : rows'[o] = rows[o]
         /\ rows'[c].window = rows[c].window /\ rows'[c].signedAt = rows[c].signedAt
         /\ \/ rows'[c].settled = rows[c].settled
            \/ rows'[c].state = "settled" /\ (verified => rows'[c].verified)
  <1>1. rows[c] \in RowType /\ rows \in [BuyerCalls -> RowType]
    BY BuyerFacts
  <1> DEFINE r == [rows[c] EXCEPT !.state = "settled", !.settled = amount,
                     !.verified = verified \/ @, !.hash = IF hash = "none" THEN @ ELSE hash]
  <1>2. /\ r.window = rows[c].window /\ r.signedAt = rows[c].signedAt
        /\ r.state = "settled"
    BY <1>1 DEF RowType
  <1>4. verified => r.verified
    BY <1>1 DEF RowType
  <1>3. rows' = rows \/ rows' = [rows EXCEPT ![c] = r]
    BY DEF SettlesRow, TransitionsTo
  <1> HIDE DEF r
  <1> QED
    BY <1>1, <1>2, <1>3, <1>4

LEMMA UnprovableKeeps ==
  ASSUME BuyerSound, NEW c \in BuyerCalls, MarksUnprovable(c)
  PROVE  /\ \A o \in BuyerCalls \ {c} : rows'[o] = rows[o]
         /\ rows'[c].window = rows[c].window /\ rows'[c].signedAt = rows[c].signedAt
         /\ rows'[c].settled = rows[c].settled \/ rows'[c].state = "settled"
  <1>1. rows[c] \in RowType /\ rows \in [BuyerCalls -> RowType]
    BY BuyerFacts
  <1> DEFINE r == [rows[c] EXCEPT !.state = "settled", !.settled = Price, !.unprovable = TRUE]
  <1>2. /\ r.window = rows[c].window /\ r.signedAt = rows[c].signedAt
        /\ r.state = "settled"
    BY <1>1 DEF RowType
  <1>3. rows' = rows \/ rows' = [rows EXCEPT ![c] = r]
    BY DEF MarksUnprovable, TransitionsTo
  <1> HIDE DEF r
  <1> QED
    BY <1>1, <1>2, <1>3

LEMMA GoesTo ==
  ASSUME BuyerSound, NEW c \in BuyerCalls, NEW at, Goes(c, at)
  PROVE  calls'[c].at = at /\ \A o \in BuyerCalls \ {c} : calls'[o] = calls[o]
  BY BuyerFacts DEF Goes, CallRecord

\* The calls before their signature is handed out.
LEMMA ReservationShrinks ==
  ASSUME BuyerSound, BuyerSound', WindowsWithinCap, NEW c \in BuyerCalls,
         SignsPayment(c) \/ FailsSigning(c) \/ ReleasesAbandoned(c)
         \/ (BuyerDies(c) /\ calls[c].at = "signing")
  PROVE  WindowsWithinCap'
  <1>1. RowsFit
    BY WindowsAreTotals
  <1>2. CallFits(c) /\ CallFits(c)' /\ rows[c] \in RowType /\ calls[c] \in CallRecord
    BY BuyerFacts DEF BuyerSound
  <1>3. UNCHANGED <<newest, session, used>>
    BY DEF SignsPayment, FailsSigning, ReleasesAbandoned, BuyerDies
  <1>4. ASSUME SignsPayment(c)
        PROVE  /\ rows'[c].window = rows[c].window /\ rows'[c].settled = rows[c].settled
               /\ rows[c].state = "reserved" /\ calls[c].at = "signing"
               /\ \A o \in BuyerCalls \ {c} : rows'[o] = rows[o] /\ calls'[o] = calls[o]
    <2> DEFINE r == [rows[c] EXCEPT !.state = "signed", !.signedAt = calls[c].read, !.created = 0]
    <2>1. r.window = rows[c].window /\ r.settled = rows[c].settled
      BY <1>2 DEF RowType
    <2>2. /\ rows' = [rows EXCEPT ![c] = r] /\ rows[c].state = "reserved" /\ calls[c].at = "signing"
          /\ calls' = [calls EXCEPT ![c] = [at |-> "signed", read |-> 0]]
      BY <1>4 DEF SignsPayment
    <2> HIDE DEF r
    <2> QED
      BY <2>1, <2>2, BuyerFacts
  <1>5. ASSUME FailsSigning(c) \/ ReleasesAbandoned(c)
        PROVE  /\ rows'[c].window = rows[c].window /\ rows'[c].settled = rows[c].settled
               /\ calls'[c].at \notin HandedOut /\ rows'[c].state # "reserved"
               /\ \A o \in BuyerCalls \ {c} : rows'[o] = rows[o] /\ calls'[o] = calls[o]
    <2>1. /\ TransitionsTo(c, {"reserved"}, [rows[c] EXCEPT !.state = "released"])
          /\ \/ calls[c].at = "signing" /\ Goes(c, "refused")
             \/ rows[c].state = "reserved" /\ calls' = calls
      BY <1>5 DEF FailsSigning, ReleasesAbandoned, ReleasesRow
    <2>2. calls[c].at \in {"signing", "refused"} /\ rows[c].state \in {"reserved", "released"}
      BY <1>2, <2>1 DEF CallFits
    <2>3. calls'[c].at \notin HandedOut /\ \A o \in BuyerCalls \ {c} : calls'[o] = calls[o]
      BY <2>1, <2>2, GoesTo DEF HandedOut
    <2>4. rows'[c].state # "reserved"
      <3> DEFINE r == [rows[c] EXCEPT !.state = "released"]
      <3>1. r.state = "released"
        BY <1>2 DEF RowType
      <3>2. CASE rows[c].state = "reserved"
        <4>1. rows' = [rows EXCEPT ![c] = r]
          BY <2>1, <3>2 DEF TransitionsTo
        <4> HIDE DEF r
        <4> QED
          BY <3>1, <4>1, BuyerFacts
      <3>3. CASE rows[c].state # "reserved"
        BY <2>1, <3>3 DEF TransitionsTo
      <3> QED
        BY <3>2, <3>3
    <2> QED
      BY <2>1, <2>3, <2>4, TransitionKeeps
  <1>6. ASSUME BuyerDies(c), calls[c].at = "signing"
        PROVE  /\ rows' = rows /\ calls'[c].at = "refused"
               /\ \A o \in BuyerCalls \ {c} : calls'[o] = calls[o]
    BY <1>6, GoesTo DEF BuyerDies
  <1>7. RowShrinks(c)
    <2>1. CASE SignsPayment(c)
      BY <1>1, <1>3, <1>4, <2>1 DEF RowShrinks, CouldMove, RowsFit
    <2>2. CASE FailsSigning(c) \/ ReleasesAbandoned(c)
      <3>1. ~CouldMove(c)'
        BY <1>5, <2>2 DEF CouldMove, Usable, HandedOut
      <3> QED
        BY <1>3, <1>5, <2>2, <3>1 DEF RowShrinks
    <2>3. CASE BuyerDies(c) /\ calls[c].at = "signing"
      <3>1. CouldMove(c)' => rows[c].state = "reserved"
        BY <1>6, <2>3 DEF CouldMove, Usable
      <3> QED
        BY <1>1, <1>3, <1>6, <2>3, <3>1 DEF RowShrinks, CouldMove, RowsFit
    <2> QED
      BY <2>1, <2>2, <2>3
  <1>8. ASSUME NEW o \in BuyerCalls \ {c} PROVE RowShrinks(o)
    <2>1. rows'[o] = rows[o] /\ calls'[o] = calls[o]
      BY <1>4, <1>5, <1>6
    <2> QED
      BY <1>1, <1>3, <2>1 DEF RowShrinks, RowsFit, CouldMove, Usable, Expiration
  <1> QED
    BY <1>3, <1>7, <1>8, ShrinkStep

\* The calls after it, and what the seller reports of them.
LEMMA HandedOutCallsShrink ==
  ASSUME BuyerSound, BuyerSound', WindowsWithinCap, NEW c \in BuyerCalls,
         \/ SendsPayment(c) \/ LeavesPending(c) \/ ClaimsZero(c) \/ VerifiesClaim(c)
         \/ BuyerDies(c) /\ calls[c].at # "signing"
         \/ \E hash \in {"own", "other"}, amount \in 0..Price : ClaimsSettled(c, hash, amount)
  PROVE  WindowsWithinCap'
  <1>1. /\ UNCHANGED <<newest, session, used>> /\ calls[c].at \in HandedOut
        /\ \/ Goes(c, "over") \/ Goes(c, "sent") \/ Goes(c, "claimed")
    BY DEF SendsPayment, LeavesPending, ClaimsZero, VerifiesClaim, BuyerDies, ClaimsSettled, HandedOut
  <1>2. /\ calls'[c].at \in HandedOut
        /\ \A o \in BuyerCalls \ {c} : calls'[o] = calls[o]
    BY <1>1, GoesTo DEF HandedOut
  <1>3. ASSUME SendsPayment(c) \/ LeavesPending(c) PROVE WindowsWithinCap'
    <2>1. \E from, s : TransitionsTo(c, from, [rows[c] EXCEPT !.state = s])
      BY <1>3 DEF SendsPayment, LeavesPending
    <2>2. /\ \A o \in BuyerCalls \ {c} : rows'[o] = rows[o]
          /\ rows'[c].window = rows[c].window /\ rows'[c].signedAt = rows[c].signedAt
          /\ rows'[c].settled = rows[c].settled
      BY <2>1, TransitionKeeps
    <2>3. calls[c].at \notin {"claimed", "over"}
      BY <1>3 DEF SendsPayment, LeavesPending
    <2> QED
      BY <1>1, <1>2, <2>2, <2>3, HandedOutShrinks
  <1>4. ASSUME NEW hash, NEW amount, SettlesRow(c, hash, amount, FALSE),
               calls[c].at = "sent", Goes(c, "claimed") \/ Goes(c, "over")
        PROVE  WindowsWithinCap'
    <2>1. FALSE \in BOOLEAN /\ calls'[c].at \in {"claimed", "over"}
      BY <1>4, GoesTo
    <2>2. /\ \A o \in BuyerCalls \ {c} : rows'[o] = rows[o]
          /\ rows'[c].window = rows[c].window /\ rows'[c].signedAt = rows[c].signedAt
      BY <1>4, <2>1, SettlementKeeps
    <2> QED
      BY <1>1, <1>2, <1>4, <2>1, <2>2, HandedOutShrinks
  <1>5. ASSUME VerifiesClaim(c) PROVE WindowsWithinCap'
    <2>1. /\ calls'[c].at = "over"
          /\ SettlesRow(c, "own", used[c].amount, TRUE) \/ rows' = rows
      BY <1>5, GoesTo DEF VerifiesClaim
    <2>2. TRUE \in BOOLEAN
      OBVIOUS
    <2>3. /\ \A o \in BuyerCalls \ {c} : rows'[o] = rows[o]
          /\ rows'[c].window = rows[c].window /\ rows'[c].signedAt = rows[c].signedAt
          /\ \/ rows'[c].settled = rows[c].settled
             \/ rows'[c].state = "settled" /\ rows'[c].verified
      BY <2>1, <2>2, SettlementKeeps
    <2> QED
      BY <1>1, <1>2, <2>1, <2>3, HandedOutShrinks
  <1>6. ASSUME BuyerDies(c), calls[c].at # "signing" PROVE WindowsWithinCap'
    <2>1. rows' = rows /\ calls'[c].at = "over"
      BY <1>6, GoesTo DEF BuyerDies
    <2> QED
      BY <1>1, <1>2, <2>1, HandedOutShrinks
  <1> QED
    BY <1>3, <1>4, <1>5, <1>6 DEF ClaimsZero, ClaimsSettled

\* A run of reconcile: it lowers what a row counts as settled only once its
\* authorization cannot be used.
LEMMA RunsShrink ==
  ASSUME BuyerSound, BuyerSound', WindowsWithinCap, NEW n \in Runs,
         \/ ReadsLatest(n) \/ ChecksRange(n) \/ ReadsEvents(n) \/ LooksUp(n) \/ GivesUp(n)
         \/ \E c \in BuyerCalls : TakesRow(n, c)
  PROVE  WindowsWithinCap'
  <1>1. UNCHANGED <<newest, session, used, calls>>
    BY Zenon DEF ReadsLatest, ChecksRange, ReadsEvents, LooksUp, GivesUp, TakesRow, Reconciles
  <1>3. ASSUME rows' = rows PROVE WindowsWithinCap'
    <2>1. RowsFit
      BY WindowsAreTotals
    <2>2. \A c \in BuyerCalls : RowShrinks(c)
      BY <1>1, <1>3, <2>1 DEF RowShrinks, RowsFit, CouldMove, Usable, Expiration
    <2> QED
      BY <1>1, <2>2, ShrinkStep
  <1>4. ASSUME NEW c \in BuyerCalls, calls[c].at \in HandedOut,
               \E from, s : TransitionsTo(c, from, [rows[c] EXCEPT !.state = s])
        PROVE  WindowsWithinCap'
    <2>1. /\ \A o \in BuyerCalls \ {c} : rows'[o] = rows[o]
          /\ rows'[c].window = rows[c].window /\ rows'[c].signedAt = rows[c].signedAt
          /\ rows'[c].settled = rows[c].settled
      BY <1>4, TransitionKeeps
    <2> QED
      BY <1>1, <1>4, <2>1, HandedOutShrinks
  <1>5. ASSUME NEW c \in BuyerCalls, calls[c].at \in HandedOut, NEW hash, NEW amount,
               SettlesRow(c, hash, amount, TRUE)
        PROVE  WindowsWithinCap'
    <2>1. TRUE \in BOOLEAN
      OBVIOUS
    <2>2. /\ \A o \in BuyerCalls \ {c} : rows'[o] = rows[o]
          /\ rows'[c].window = rows[c].window /\ rows'[c].signedAt = rows[c].signedAt
          /\ \/ rows'[c].settled = rows[c].settled
             \/ rows'[c].state = "settled" /\ rows'[c].verified
      BY <1>5, <2>1, SettlementKeeps
    <2> QED
      BY <1>1, <1>5, <2>2, HandedOutShrinks
  <1>6. ASSUME NEW c \in BuyerCalls, calls[c].at \in HandedOut, MarksUnprovable(c), ~Usable(c)
        PROVE  WindowsWithinCap'
    <2>1. /\ \A o \in BuyerCalls \ {c} : rows'[o] = rows[o]
          /\ rows'[c].window = rows[c].window /\ rows'[c].signedAt = rows[c].signedAt
          /\ rows'[c].settled = rows[c].settled \/ rows'[c].state = "settled"
      BY <1>6, UnprovableKeeps
    <2> QED
      BY <1>1, <1>6, <2>1, HandedOutShrinks
  <1>7. ASSUME ReadsLatest(n) PROVE WindowsWithinCap'
    <2>1. PICK c \in BuyerCalls : c = runs[n].call /\ calls[c].at \in HandedOut
      BY <1>7, RunKnows DEF ReadsLatest
    <2>2. \/ rows' = rows
          \/ TransitionsTo(c, {"signed", "transmitted"}, [rows[c] EXCEPT !.state = "unresolved"])
      BY <1>7, <2>1 DEF ReadsLatest
    <2> QED
      BY <1>3, <1>4, <2>1, <2>2
  <1>8. ASSUME ChecksRange(n) PROVE WindowsWithinCap'
    <2>1. PICK c \in BuyerCalls :
            /\ c = runs[n].call /\ calls[c].at \in HandedOut
            /\ Expired(runs[n].row, runs[n].latest) => ~Usable(c)
      BY <1>8, RunKnows DEF ChecksRange
    <2>2. \/ rows' = rows
          \/ Expired(runs[n].row, runs[n].latest) /\ MarksUnprovable(c)
      BY <1>8, <2>1 DEF ChecksRange
    <2> QED
      BY <1>3, <1>6, <2>1, <2>2
  <1>9. ASSUME LooksUp(n) PROVE WindowsWithinCap'
    <2>1. PICK c \in BuyerCalls : c = runs[n].call /\ calls[c].at \in HandedOut
      BY <1>9, RunKnows DEF LooksUp
    <2>2. PICK row : row = runs[n].row
      OBVIOUS
    <2>3. \/ SettlesRow(c, "own", used[c].amount, TRUE)
          \/ Absent(c, row, Expired(row, runs[n].latest))
      BY <1>9, <2>1, <2>2 DEF LooksUp
    <2>4. Absent(c, row, Expired(row, runs[n].latest)) =>
            \/ rows' = rows \/ SettlesRow(c, "none", 0, TRUE)
            \/ \E from, s : TransitionsTo(c, from, [rows[c] EXCEPT !.state = s])
      BY Zenon DEF Absent, ReleasesRow
    <2> QED
      BY <1>3, <1>4, <1>5, <2>1, <2>3, <2>4
  <1>10. ASSUME ReadsEvents(n) \/ GivesUp(n) \/ \E c \in BuyerCalls : TakesRow(n, c)
         PROVE  WindowsWithinCap'
    BY <1>3, <1>10, Zenon DEF ReadsEvents, GivesUp, TakesRow
  <1> QED
    BY <1>7, <1>8, <1>9, <1>10

\* The chain: what can be used is, at most for its price.
LEMMA ChainShrinks ==
  ASSUME BuyerSound, BuyerSound', WindowsWithinCap,
         ClosesEmpty \/ \E c \in BuyerCalls : \E amount \in 0..Price : ClosesWith(c, amount)
  PROVE  WindowsWithinCap'
  <1>1. /\ UNCHANGED <<rows, calls, session>> /\ newest' = newest + 1 /\ newest \in Nat
    BY BuyerFacts DEF ClosesEmpty, ClosesWith
  <1>2. \A c \in BuyerCalls :
          used'[c] = used[c] \/ (Usable(c) /\ used'[c].ledger = newest + 1)
    <2>1. CASE ClosesEmpty
      BY <2>1 DEF ClosesEmpty
    <2>2. ASSUME NEW c \in BuyerCalls, NEW amount \in 0..Price, ClosesWith(c, amount)
          PROVE  \A o \in BuyerCalls :
                   used'[o] = used[o] \/ (Usable(o) /\ used'[o].ledger = newest + 1)
      <3> DEFINE u == [ledger |-> newest + 1, amount |-> amount]
      <3>1. Usable(c) /\ used' = [used EXCEPT ![c] = u] /\ u.ledger = newest + 1
        BY <2>2 DEF ClosesWith
      <3> HIDE DEF u
      <3> QED
        BY <3>1, BuyerFacts
    <2> QED
      BY <2>1, <2>2
  <1>3. RowsFit
    BY WindowsAreTotals
  <1>4. ASSUME NEW c \in BuyerCalls PROVE RowShrinks(c)
    <2>1. CASE used'[c] = used[c]
      <3>1. Usable(c)' => Usable(c)
        <4>1. Expiration(rows[c]) \in Nat
          BY BuyerFacts DEF Expiration
        <4> QED
          BY <1>1, <2>1, <4>1 DEF Usable, Expiration
      <3> QED
        BY <1>1, <1>3, <2>1, <3>1 DEF RowShrinks, RowsFit, CouldMove
    <2>2. CASE Usable(c) /\ used'[c].ledger = newest + 1
      <3>1. ~Usable(c)'
        BY <1>1, <2>2 DEF Usable, Never
      <3> QED
        BY <1>1, <1>3, <2>2, <3>1 DEF RowShrinks, RowsFit, CouldMove
    <2> QED
      BY <1>2, <2>1, <2>2
  <1> QED
    BY <1>1, <1>4, ShrinkStep

\* A window renews: what earlier calls may still move counts in the new one.
LEMMA RenewalWithin ==
  ASSUME BuyerSound, BuyerSound', WindowsWithinCap, RenewsWindow
  PROVE  WindowsWithinCap'
  <1>1. /\ session = 1 /\ session' = 2 /\ UNCHANGED <<newest, terms, rows, calls, used, runs>>
    BY DEF RenewsWindow
  <1>2. CapFits /\ RowsFit
    BY WindowsAreTotals
  <1>3. ASSUME NEW c \in BuyerCalls PROVE Takes(c, 1)' <= Takes(c, 1) /\ Takes(c, 2)' <= Takes(c, 1)
    <2>1. /\ Price \in Nat /\ rows[c].settled \in 0..Price /\ used[c].amount \in 0..Price
          /\ rows[c].window \in 0..2 /\ rows[c].window <= 1
      BY <1>1, <1>2, BuyerFacts DEF RowType, RowsFit
    <2>2. CouldMove(c)' = CouldMove(c)
      BY <1>1 DEF CouldMove, Usable, Expiration
    <2> QED
      BY <1>1, <2>1, <2>2 DEF Takes
  <1>4. /\ Total(TakesOf(1), BuyerCalls)' <= Total(TakesOf(1), BuyerCalls)
        /\ Total(TakesOf(2), BuyerCalls)' <= Total(TakesOf(1), BuyerCalls)
    <2>1. 1 \in Int /\ 2 \in Int
      OBVIOUS
    <2> QED
      BY <1>3, <2>1, TakesNoMore
  <1>5. TotalsAfter /\ TotalsAfter' /\ Total(TakesOf(1), BuyerCalls) <= SessionCap /\ SessionCap \in Nat
    BY <1>1, <1>2, TotalsDoFit, TotalsFitAfter, BuyerAssumption DEF CapFits
  <1>6. /\ Total(TakesOf(1), BuyerCalls)' <= SessionCap /\ Total(TakesOf(2), BuyerCalls)' <= SessionCap
    BY <1>4, <1>5 DEF TotalsAfter
  <1>7. CapFits'
    <2>1. \A w \in 1..2 : w = 1 \/ w = 2
      OBVIOUS
    <2>2. \A w \in 1..2 : Total(TakesOf(w), BuyerCalls)' <= SessionCap
      BY <1>6, <2>1
    <2> QED
      BY <1>1, <1>5, <2>2 DEF CapFits, TotalsAfter
  <1>8. RowsFit'
    <2>1. ASSUME NEW c \in BuyerCalls PROVE rows[c].window <= 2
      BY BuyerFacts DEF RowType
    <2>2. \A c \in BuyerCalls : CouldMove(c)' = CouldMove(c)
      BY <1>1 DEF CouldMove, Usable, Expiration
    <2> QED
      BY <1>1, <1>2, <2>1, <2>2 DEF RowsFit
  <1> QED
    BY <1>7, <1>8, WindowsAreTotalsAfter

\* What the open window counts is a total.
Counting == {c \in BuyerCalls : Counts(c)}

LEMMA UsageIsTotal ==
  ASSUME BuyerSound
  PROVE  Usage = Total(CountFor, Counting) /\ Total(CountFor, Counting) \in Int
  <1>1. Counting \in SUBSET BuyerCalls /\ IsFiniteSet(Counting)
    BY FiniteCalls DEF Counting
  <1>2. Usage = MapThenSumSet(CountedFor, Counting)
    BY DEF Usage, Counting, MapThenSumSet, MapThenFoldSet, CountedFor
  <1>3. \A c \in Counting : CountFor[c] \in Int
    BY <1>1, CapNumbersOf
  <1> QED
    BY <1>1, <1>2, <1>3, SumOfUsage, TotalIsInt

\* What a row takes of the cap of the open window, the guard counts.
LEMMA TakesAreCounted ==
  ASSUME EventsLag = 0, BuyerSound, RowsFit, NEW c \in BuyerCalls
  PROVE  /\ Counts(c) => Takes(c, session) <= CountedFor(c)
         /\ ~Counts(c) => \A w \in Int : Takes(c, w) = 0
  <1>1. /\ CallFits(c) /\ rows[c] \in RowType /\ calls[c] \in CallRecord
        /\ used[c] \in [ledger : Ledgers \cup {Never}, amount : 0..Price]
        /\ Price \in Nat /\ rows[c].settled \in 0..Price /\ used[c].amount \in 0..Price
        /\ session \in Int /\ rows[c].window \in Int /\ rows[c].window <= session
    BY BuyerFacts DEF BuyerSound, RowType, RowsFit
  <1>2. rows[c].state \in Pending \cup {"none", "settled", "released"} /\ rows[c].verified \in BOOLEAN
    BY <1>1 DEF RowType
  <1>3. CASE rows[c].state \in Pending
    BY <1>1, <1>3 DEF Takes, CountedFor, UsageOf, CarriedPending, Pending, Counts
  <1>4. CASE rows[c].state = "settled"
    <2>1. rows[c].state \notin Pending /\ rows[c].state # "reserved"
      BY <1>4 DEF Pending
    <2>2. CASE rows[c].verified
      <3>1. ~CouldMove(c) /\ used[c].amount <= rows[c].settled
        BY <1>1, <1>4, <2>2 DEF CallFits, CouldMove
      <3>2. CarriedPending(rows[c]) = 0 /\ UsageOf(rows[c]) = rows[c].settled
        BY <1>1, <1>4, <2>1, <2>2 DEF CarriedPending, UsageOf
      <3> QED
        BY <1>1, <1>4, <3>1, <3>2 DEF Takes, CountedFor, Counts
    <2>3. CASE ~rows[c].verified
      <3>1. CarriedPending(rows[c]) = Price - rows[c].settled /\ UsageOf(rows[c]) = Price
        BY <1>1, <1>4, <2>1, <2>3 DEF CarriedPending, UsageOf
      <3> QED
        BY <1>1, <1>4, <3>1 DEF Takes, CountedFor, Counts
    <2> QED
      BY <2>2, <2>3
  <1>5. CASE rows[c].state = "released"
    <2>1. ~CouldMove(c) /\ used[c].amount = 0
      BY <1>1, <1>5 DEF CallFits, CouldMove
    <2>2. CountedFor(c) = 0
      BY <1>5 DEF CountedFor, UsageOf, CarriedPending, Pending
    <2> QED
      BY <1>1, <1>5, <2>1, <2>2 DEF Takes, Counts
  <1>6. CASE rows[c].state = "none"
    <2>1. calls[c].at = "start" /\ used[c].amount = 0
      BY <1>1, <1>6 DEF CallFits, HandedOut
    <2>2. ~CouldMove(c)
      BY <1>6, <2>1 DEF CouldMove, Usable
    <2> QED
      BY <1>6, <2>1, <2>2 DEF Takes, Counts
  <1> QED
    BY <1>2, <1>3, <1>4, <1>5, <1>6

\* The guard admits a call: the window's rows count all that may move in it, so
\* the new reservation fits beside them.
LEMMA ReservationWithin ==
  ASSUME EventsLag = 0, BuyerSound, BuyerSound', WindowsWithinCap,
         NEW c \in BuyerCalls, ReservesBudget(c)
  PROVE  WindowsWithinCap'
  <1>1. CapFits /\ RowsFit /\ TotalsAfter /\ TotalsAfter'
    BY WindowsAreTotals, TotalsDoFit, TotalsFitAfter
  <1>2. /\ UNCHANGED <<newest, session, used>> /\ calls[c].at = "start"
        /\ Usage + Price <= SessionCap
        /\ calls'[c].at = "signing" /\ rows'[c].window = session /\ rows'[c].settled = 0
        /\ rows'[c].state = "reserved"
        /\ \A o \in BuyerCalls \ {c} : rows'[o] = rows[o] /\ calls'[o] = calls[o]
    <2> DEFINE r == [NoRow EXCEPT !.state = "reserved", !.window = session, !.created = newest]
    <2>1. r.window = session /\ r.settled = 0 /\ r.state = "reserved"
      BY DEF NoRow
    <2>2. rows' = [rows EXCEPT ![c] = r]
      BY DEF ReservesBudget
    <2> HIDE DEF r
    <2>3. \E l \in Readings : calls' = [calls EXCEPT ![c] = [at |-> "signing", read |-> l]]
      BY DEF ReservesBudget
    <2>4. calls'[c].at = "signing" /\ \A o \in BuyerCalls \ {c} : calls'[o] = calls[o]
      BY <2>3, BuyerFacts
    <2>5. rows'[c] = r /\ \A o \in BuyerCalls \ {c} : rows'[o] = rows[o]
      BY <2>2, BuyerFacts
    <2> QED
      BY <2>1, <2>4, <2>5 DEF ReservesBudget
  <1>3. Price \in Nat /\ SessionCap \in Nat /\ session \in Nat /\ used[c].amount \in 0..Price
    BY BuyerFacts, BuyerAssumption
  <1>4. ASSUME NEW o \in BuyerCalls \ {c}, NEW w \in Int PROVE Takes(o, w)' = Takes(o, w)
    BY <1>2, <1>4 DEF Takes, CouldMove, Usable, Expiration
  <1>5. CallFits(c)
    BY DEF BuyerSound
  <1>6. ~Counts(c)
    BY <1>2, <1>5 DEF CallFits, Counts
  <1>7. ASSUME NEW w \in 1..session, w # session
        PROVE  Total(TakesOf(w), BuyerCalls)' <= SessionCap
    <2>1. Takes(c, w)' = 0 /\ Takes(c, w) \in Nat
      <3>1. Takes(c, w) = 0
        BY <1>1, <1>6, <1>7, TakesAreCounted
      <3>2. rows'[c].window # w /\ ~(rows'[c].window < w)
        BY <1>2, <1>3, <1>7
      <3> QED
        BY <3>1, <3>2 DEF Takes
    <2>2. \A o \in BuyerCalls : Takes(o, w)' <= Takes(o, w)
      <3>1. \A o \in BuyerCalls : Takes(o, w) \in Int
        BY <1>3, <1>7, CapNumbersOf
      <3> QED
        BY <1>4, <1>7, <2>1, <3>1
    <2>3. Total(TakesOf(w), BuyerCalls)' <= Total(TakesOf(w), BuyerCalls)
      BY <1>7, <2>2, TakesNoMore
    <2>4. Total(TakesOf(w), BuyerCalls)' \in Int /\ Total(TakesOf(w), BuyerCalls) \in Int
      BY <1>1, <1>7 DEF TotalsAfter
    <2>5. Total(TakesOf(w), BuyerCalls) <= SessionCap
      BY <1>1, <1>7 DEF CapFits
    <2> QED
      BY <1>3, <2>3, <2>4, <2>5
  <1>8. Total(TakesOf(session), BuyerCalls)' <= SessionCap
    <2>1. PICK f : f = TakesOf(session)'
      OBVIOUS
    <2>3. /\ \A o \in BuyerCalls : f[o] = Takes(o, session)' /\ f[o] \in 0..Price
          /\ Total(TakesOf(session), BuyerCalls)' = Total(f, BuyerCalls)
      <3>1. PICK w \in Int : w = session
        BY <1>3
      <3>2. TakesOf(w)' = f
        BY <2>1, <3>1, <1>2 DEF TakesOf, Takes
      <3>3. \A o \in BuyerCalls : Takes(o, w)' = Takes(o, session)'
        BY <3>1, <1>2
      <3> QED
        BY <1>1, <2>1, <3>2, <3>3 DEF TotalsAfter
    <2> DEFINE S == Counting \cup {c}
               N == BuyerCalls \ S
    <2>4. /\ BuyerCalls = S \cup N /\ S \cap N = {}
          /\ IsFiniteSet(S) /\ IsFiniteSet(N) /\ IsFiniteSet(Counting)
      <3>1. S \in SUBSET BuyerCalls /\ N \in SUBSET BuyerCalls /\ Counting \in SUBSET BuyerCalls
        BY DEF Counting
      <3> QED
        BY <3>1, FiniteCalls
    <2>5. ASSUME NEW o \in N PROVE f[o] = 0
      <3>1. o \in BuyerCalls \ {c} /\ ~Counts(o)
        BY DEF Counting
      <3>2. Takes(o, session) = 0
        BY <1>1, <1>3, <3>1, TakesAreCounted
      <3> QED
        BY <1>2, <1>3, <1>4, <2>3, <3>1, <3>2
    <2>6. ASSUME NEW o \in S \ {c} PROVE f[o] <= CountFor[o]
      <3>1. o \in BuyerCalls \ {c} /\ Counts(o)
        BY DEF Counting
      <3>2. Takes(o, session) <= CountedFor(o) /\ CountFor[o] = CountedFor(o)
        BY <1>1, <3>1, TakesAreCounted, CapNumbersOf
      <3> QED
        BY <1>2, <1>3, <1>4, <2>3, <3>1, <3>2
    <2>7. /\ \A o \in S : f[o] \in Int
          /\ \A o \in Counting : CountFor[o] \in Nat
          /\ f[c] <= Price /\ S \subseteq Counting \cup {c}
          /\ \A o \in S \cup N : f[o] \in Int
      <3>1. \A o \in BuyerCalls : f[o] \in Int /\ f[o] <= Price
        BY <1>3, <2>3
      <3>2. Counting \subseteq BuyerCalls /\ S \subseteq BuyerCalls /\ S \cup N = BuyerCalls
        BY DEF Counting
      <3>3. \A o \in Counting : CountFor[o] \in Nat
        BY <3>2, CapNumbersOf
      <3> QED
        BY <3>1, <3>2, <3>3
    <2> HIDE DEF S, N
    <2>8. Total(f, S) <= Price + Total(CountFor, Counting)
      BY <1>3, <2>4, <2>6, <2>7, TotalOneMore
    <2>9. Total(f, N) = 0
      BY <2>4, <2>5, TotalOfNone
    <2>10. Total(f, BuyerCalls) = Total(f, S) + Total(f, N)
      BY <2>4, <2>7, TotalOfBoth
    <2>11. Total(f, S) \in Int
      BY <2>4, <2>7, TotalIsInt
    <2>12. Usage = Total(CountFor, Counting) /\ Total(CountFor, Counting) \in Int
      BY UsageIsTotal
    <2> QED
      BY <1>2, <1>3, <2>3, <2>8, <2>9, <2>10, <2>11, <2>12
  <1>9. CapFits'
    <2>1. ASSUME NEW w \in 1..session PROVE Total(TakesOf(w), BuyerCalls)' <= SessionCap
      <3>1. CASE w = session
        <4>1. TakesOf(w)' = TakesOf(session)'
          BY <1>2, <3>1 DEF TakesOf, Takes
        <4> QED
          BY <1>8, <4>1
      <3> QED
        BY <1>7, <3>1
    <2> QED
      BY <1>1, <1>2, <2>1 DEF CapFits, TotalsAfter
  <1>10. RowsFit'
    <2>1. \A o \in BuyerCalls : rows[o].window \in Int
      BY BuyerFacts DEF RowType
    <2>2. ASSUME NEW o \in BuyerCalls \ {c} PROVE CouldMove(o)' = CouldMove(o)
      BY <1>2, <2>2 DEF CouldMove, Usable, Expiration
    <2> QED
      BY <1>1, <1>2, <1>3, <2>2 DEF RowsFit
  <1> QED
    BY <1>9, <1>10, WindowsAreTotalsAfter

LEMMA WindowsStayStill ==
  ASSUME BuyerSound, BuyerSound', WindowsWithinCap, UNCHANGED buyerVars
  PROVE  WindowsWithinCap'
  <1>1. RowsFit
    BY WindowsAreTotals
  <1>2. \A c \in BuyerCalls : RowShrinks(c)
    BY <1>1 DEF RowShrinks, RowsFit, CouldMove, Usable, Expiration, buyerVars
  <1> QED
    BY <1>2, ShrinkStep DEF buyerVars

LEMMA WindowsStep ==
  ASSUME EventsLag = 0, BuyerSound, BuyerSound', WindowsWithinCap, [BuyerNext]_buyerVars
  PROVE  WindowsWithinCap'
  <1>1. CASE UNCHANGED buyerVars
    BY <1>1, WindowsStayStill
  <1>2. CASE RenewsWindow
    BY <1>2, RenewalWithin
  <1>3. CASE ClosesEmpty \/ \E c \in BuyerCalls : \E amount \in 0..Price : ClosesWith(c, amount)
    BY <1>3, ChainShrinks
  <1>4. ASSUME NEW c \in BuyerCalls, CallSteps(c) \/ ReleasesAbandoned(c)
        PROVE  WindowsWithinCap'
    <2>1. CASE ReservesBudget(c)
      BY <2>1, ReservationWithin
    <2>2. CASE SignsPayment(c) \/ FailsSigning(c) \/ ReleasesAbandoned(c)
               \/ (BuyerDies(c) /\ calls[c].at = "signing")
      BY <2>2, ReservationShrinks
    <2>3. CASE \/ SendsPayment(c) \/ LeavesPending(c) \/ ClaimsZero(c) \/ VerifiesClaim(c)
               \/ BuyerDies(c) /\ calls[c].at # "signing"
               \/ \E hash \in {"own", "other"}, amount \in 0..Price : ClaimsSettled(c, hash, amount)
      BY <2>3, HandedOutCallsShrink
    <2> QED
      BY <1>4, <2>1, <2>2, <2>3 DEF CallSteps
  <1>5. ASSUME NEW n \in Runs,
               \/ ReadsLatest(n) \/ ChecksRange(n) \/ ReadsEvents(n) \/ LooksUp(n) \/ GivesUp(n)
               \/ \E c \in BuyerCalls : TakesRow(n, c)
        PROVE  WindowsWithinCap'
    BY <1>5, RunsShrink
  <1> QED
    BY <1>1, <1>2, <1>3, <1>4, <1>5 DEF BuyerNext

LEMMA WindowsStart ==
  ASSUME BuyerInit
  PROVE  WindowsWithinCap
  <1>1. BuyerSound
    BY BuyerStart
  <1>2. \A c \in BuyerCalls : /\ rows[c] = NoRow /\ calls[c].at = "start" /\ used[c].amount = 0
    BY DEF BuyerInit
  <1>3. \A c \in BuyerCalls : ~CouldMove(c) /\ rows[c].window = 0 /\ rows[c].settled = 0
    BY <1>2 DEF CouldMove, Usable, NoRow
  <1>4. SessionCap \in Nat /\ session = 1
    BY BuyerAssumption DEF BuyerInit
  <1>5. ASSUME NEW w \in 1..session PROVE Total(TakesOf(w), BuyerCalls) <= SessionCap
    <2>1. IsFiniteSet(BuyerCalls) /\ w \in Int
      BY FiniteCalls
    <2>2. \A c \in BuyerCalls : TakesOf(w)[c] = 0
      BY <1>2, <1>3 DEF TakesOf, Takes
    <2>3. Total(TakesOf(w), BuyerCalls) = 0
      BY <2>1, <2>2, TotalOfNone
    <2> QED
      BY <1>4, <2>3
  <1>6. CapFits
    BY <1>1, <1>5, TotalsDoFit DEF CapFits, TotalsAfter
  <1>7. RowsFit
    BY <1>3, <1>4 DEF RowsFit
  <1> QED
    BY <1>1, <1>6, <1>7, WindowsAreTotals

\* What may move in a window is no more than its rows take.
LEMMA WindowsCap ==
  ASSUME BuyerSound, WindowsWithinCap
  PROVE  SessionWithinCap
  <1>1. CapFits
    BY WindowsAreTotals
  <1>2. ASSUME NEW w \in 1..session
        PROVE  MapThenSumSet(LAMBDA c : MovesIn(c, w), BuyerCalls) <= SessionCap
    <2>1. w \in Int /\ SessionCap \in Nat
      BY BuyerAssumption
    <2>2. BuyerCalls \in SUBSET BuyerCalls /\ IsFiniteSet(BuyerCalls)
      BY FiniteCalls
    <2>3. \A c \in BuyerCalls :
            /\ MovesOf(w)[c] \in Int /\ MovesOf(w)[c] <= TakesOf(w)[c] /\ TakesOf(w)[c] \in Nat
      <3>1. Price \in Nat
        BY BuyerAssumption
      <3> QED
        BY <2>1, <3>1, CapNumbersOf
    <2>4. Total(MovesOf(w), BuyerCalls) <= Total(TakesOf(w), BuyerCalls)
      BY <2>2, <2>3, TotalAtMost
    <2>5. Total(MovesOf(w), BuyerCalls) \in Int /\ Total(TakesOf(w), BuyerCalls) \in Int
      BY <2>2, <2>3, TotalIsInt
    <2>6. MapThenSumSet(LAMBDA c : MovesIn(c, w), BuyerCalls) = Total(MovesOf(w), BuyerCalls)
      BY <2>1, <2>2, SumOfMoves
    <2>7. Total(TakesOf(w), BuyerCalls) <= SessionCap
      BY <1>1, <1>2 DEF CapFits
    <2> QED
      BY <2>1, <2>4, <2>5, <2>6, <2>7
  <1> QED
    BY <1>2 DEF SessionWithinCap, MovesIn

\* What may move in a window stays within the cap in every behaviour.
LEMMA PartStaysCapped ==
  ASSUME EventsLag = 0
  PROVE  PartsSpec => [](subject = "buyer" => BuyerSound /\ WindowsWithinCap)
  <1>1. PartsInit => (subject = "buyer" => BuyerSound /\ WindowsWithinCap)
    BY BuyerStart, WindowsStart DEF PartsInit
  <1>2. ASSUME subject = "buyer" => BuyerSound /\ WindowsWithinCap, [PartsNext]_partsVars
        PROVE  (subject = "buyer" => BuyerSound /\ WindowsWithinCap)'
    <2> SUFFICES ASSUME subject' = "buyer" PROVE (BuyerSound /\ WindowsWithinCap)'
      OBVIOUS
    <2>1. subject = "buyer" /\ [BuyerNext]_buyerVars
      BY <1>2 DEF PartsNext, partsVars
    <2>2. BuyerSound /\ WindowsWithinCap
      BY <1>2, <2>1
    <2>3. BuyerSound'
      BY <2>1, <2>2, BuyerStep
    <2> QED
      BY <2>1, <2>2, <2>3, WindowsStep
  <1> QED
    BY <1>1, <1>2, PTL DEF PartsSpec

\* If the events of a proof are not read behind the check of their range, what a
\* session's authorizations move never exceeds its cap, together with what those
\* of earlier sessions can still move, whatever the seller reports and whichever
\* runs of reconcile act on old rows, for any number of calls and runs
\* (SessionWithinCap: the guard, the buyer's ledger and reconcile.ts).
THEOREM CapForGood ==
  ASSUME EventsLag = 0
  PROVE  PartsSpec => []CapKept
  <1>1. (subject = "buyer" => BuyerSound /\ WindowsWithinCap) => CapKept
    BY WindowsCap DEF CapKept
  <1> QED
    BY <1>1, PartStaysCapped, PTL

==============================================================================
