--------------------------- MODULE CountingLemmas ---------------------------
(***************************************************************************)
(* Facts about sets of numbers that the proofs of several components need. *)
(* Induction is used in the form "a set of naturals that is not empty has  *)
(* a least element", on the set of the counterexamples.                    *)
(***************************************************************************)
EXTENDS Integers, FiniteSets, FiniteSetTheorems, WellFoundedInduction, TLAPS

\* Every nonempty set of naturals has a least element.
LEMMA LeastNat ==
    ASSUME NEW S \in SUBSET Nat, S # {}
    PROVE  \E m \in S : \A k \in S : m <= k
<1>1. PICK m \in S : \A k \in S : ~(<<k, m>> \in OpToRel(<, Nat))
  BY NatLessThanWellFounded, WFMin
<1>2. \A k \in S : ~(k < m)
  BY <1>1 DEF OpToRel
<1> QED
  BY <1>2

\* Every nonempty set of naturals that has a bound has a greatest element.
LEMMA GreatestNat ==
    ASSUME NEW b \in Nat, NEW S \in SUBSET (0..b), S # {}
    PROVE  \E m \in S : \A k \in S : k <= m
<1> DEFINE D == {b - k : k \in S}
<1>1. D \in SUBSET Nat /\ D # {}
  <2>1. \A k \in S : b - k \in Nat
    OBVIOUS
  <2>2. D # {}
    BY Zenon
  <2> QED
    BY <2>1, <2>2
<1>2. PICK d \in D : \A e \in D : d <= e
  BY <1>1, LeastNat
<1>3. PICK m \in S : d = b - m
  OBVIOUS
<1>4. \A k \in S : d <= b - k
  BY <1>2
<1> QED
  BY <1>3, <1>4

\* A set of naturals that has a bound can be listed in increasing order.
LEMMA Listing ==
    ASSUME NEW b \in Nat, NEW S \in SUBSET (0..b)
    PROVE  \E f \in [1..Cardinality(S) -> S] : \A j, k \in DOMAIN f : j < k => f[j] < f[k]
<1> DEFINE Listed(T) == \E f \in [1..Cardinality(T) -> T] :
                            \A j, k \in DOMAIN f : j < k => f[j] < f[k]
           Bad == {n \in Nat : \E T \in SUBSET (0..b) : Cardinality(T) = n /\ ~Listed(T)}
<1>1. \A T \in SUBSET (0..b) : IsFiniteSet(T) /\ Cardinality(T) \in Nat
  <2>1. IsFiniteSet(0..b)
    BY FS_Interval
  <2> QED
    BY <2>1, FS_Subset, FS_CardinalityType
<1>2. SUFFICES Bad = {}
  <2>1. Cardinality(S) \in Nat
    BY <1>1
  <2> QED
    BY <2>1, <1>2
<1>3. SUFFICES ASSUME Bad # {} PROVE FALSE
  OBVIOUS
<1>4. PICK n \in Bad : \A k \in Bad : n <= k
  <2>1. Bad \in SUBSET Nat
    OBVIOUS
  <2> HIDE DEF Bad
  <2> QED
    BY <2>1, <1>3, LeastNat
<1>5. PICK T \in SUBSET (0..b) : Cardinality(T) = n /\ ~Listed(T)
  OBVIOUS
<1>t. \A t \in T : t \in Nat
  OBVIOUS
<1>6. T # {}
  <2>1. ASSUME T = {} PROVE FALSE
    <3>1. Cardinality(T) = 0
      BY <2>1, FS_EmptySet
    <3>2. [i \in 1..0 |-> i] \in [1..Cardinality(T) -> T]
      BY <3>1
    <3> QED
      BY <3>1, <3>2, <1>5
  <2> QED
    BY <2>1
<1>7. PICK m \in T : \A k \in T : k <= m
  BY <1>6, GreatestNat
<1> DEFINE U == T \ {m}
<1>8. /\ n \in Nat
      /\ Cardinality(U) = n - 1 /\ n - 1 \in Nat
      /\ U \in SUBSET (0..b)
  <2>1. Cardinality(U) = n - 1
    BY <1>1, <1>5, FS_RemoveElement
  <2>2. Cardinality(U) \in Nat
    BY <1>1
  <2> QED
    BY <2>1, <2>2
<1>9. Listed(U)
  <2>1. n - 1 \notin Bad
    BY <1>4, <1>8
  <2> QED
    BY <2>1, <1>8
<1>10. PICK g \in [1..n - 1 -> U] : \A j, k \in 1..n - 1 : j < k => g[j] < g[k]
  BY <1>9, <1>8
<1> DEFINE f == [i \in 1..n |-> IF i = n THEN m ELSE g[i]]
<1>11. f \in [1..Cardinality(T) -> T]
  BY <1>5, <1>8, <1>10
<1>12. ASSUME NEW j \in 1..n, NEW k \in 1..n, j < k PROVE f[j] < f[k]
  <2>1. j \in 1..n - 1 /\ g[j] \in U /\ f[j] = g[j]
    BY <1>8, <1>10, <1>12
  <2>2. g[j] < m
    <3>1. g[j] \in T /\ g[j] # m
      BY <2>1
    <3>2. g[j] <= m
      BY <3>1, <1>7
    <3>3. g[j] \in Nat /\ m \in Nat
      BY <3>1, <1>t
    <3> QED
      BY <3>1, <3>2, <3>3
  <2>3. CASE k = n
    BY <2>1, <2>2, <2>3
  <2>4. CASE k # n
    <3>1. k \in 1..n - 1 /\ f[k] = g[k]
      BY <2>4, <1>8
    <3> QED
      BY <3>1, <2>1, <1>10, <1>12
  <2> QED
    BY <2>3, <2>4
<1>13. Listed(T)
  BY <1>11, <1>12, <1>5
<1> QED
  BY <1>13, <1>5

\* A set that holds for the first value of a function and goes from each value
\* to the next one holds all of them.
LEMMA Kept ==
    ASSUME NEW N \in Nat, NEW S, NEW f, f[0] \in S,
           \A n \in 1..N : f[n - 1] \in S => f[n] \in S
    PROVE  \A n \in 0..N : f[n] \in S
<1> DEFINE Bad == {n \in 0..N : f[n] \notin S}
<1>1. SUFFICES ASSUME Bad # {} PROVE FALSE
  OBVIOUS
<1>2. PICK n \in Bad : \A k \in Bad : n <= k
  <2>1. Bad \in SUBSET Nat
    OBVIOUS
  <2> HIDE DEF Bad
  <2> QED
    BY <2>1, <1>1, LeastNat
<1>3. n \in 1..N /\ n - 1 \in 0..N /\ ~(n <= n - 1)
  OBVIOUS
<1>4. n - 1 \notin Bad
  BY <1>2, <1>3
<1> QED
  BY <1>3, <1>4

\* The values of f are the results of the steps g, taken one after the other
\* from x on.
Iterates(f, N, x, g) == f[0] = x /\ \A n \in 1..N : f[n] = g[n][f[n - 1]]

\* There are such results.
LEMMA Iteration ==
    ASSUME NEW N \in Nat, NEW S, NEW x \in S, NEW g \in [1..N -> [S -> S]]
    PROVE  \E f \in [0..N -> S] : Iterates(f, N, x, g)
<1> DEFINE Good(m) == \E f \in [0..m -> S] : f[0] = x /\ \A n \in 1..m : f[n] = g[n][f[n - 1]]
           Bad == {m \in 0..N : ~Good(m)}
<1>1. SUFFICES Bad = {}
  <2>1. N \in 0..N
    OBVIOUS
  <2> QED
    BY <2>1, <1>1, Zenon DEF Iterates
<1>2. SUFFICES ASSUME Bad # {} PROVE FALSE
  OBVIOUS
<1>3. PICK m \in Bad : \A k \in Bad : m <= k
  <2>1. Bad \in SUBSET Nat
    OBVIOUS
  <2> HIDE DEF Bad
  <2> QED
    BY <2>1, <1>2, LeastNat
<1>4. m \in 0..N /\ ~Good(m)
  OBVIOUS
<1>5. CASE m = 0
  <2>1. PICK f : f = [i \in 0..0 |-> x]
    OBVIOUS
  <2>3. f \in [0..0 -> S] /\ f[0] = x
    BY <2>1
  <2>4. \A n \in 1..0 : f[n] = g[n][f[n - 1]]
    OBVIOUS
  <2>2. Good(0)
    BY <2>3, <2>4, Zenon
  <2> QED
    BY <2>2, <1>4, <1>5
<1>6. CASE m # 0
  <2>1. m \in 1..N /\ m - 1 \in 0..N /\ ~(m <= m - 1)
    BY <1>4, <1>6
  <2>2. m - 1 \notin Bad
    BY <2>1, <1>3
  <2>3. PICK f \in [0..m - 1 -> S] : f[0] = x /\ \A n \in 1..m - 1 : f[n] = g[n][f[n - 1]]
    BY <2>1, <2>2
  <2> DEFINE h == [i \in 0..m |-> IF i = m THEN g[m][f[m - 1]] ELSE f[i]]
  <2>4. g[m][f[m - 1]] \in S
    BY <2>1, <2>3
  <2>5. \A i \in 0..m : i # m => i \in 0..m - 1
    BY <2>1
  <2>6. h \in [0..m -> S]
    BY <2>3, <2>4, <2>5
  <2>7. h[0] = x
    BY <2>1, <2>3
  <2>8. \A n \in 1..m : h[n] = g[n][h[n - 1]]
    BY <2>1, <2>3
  <2>9. Good(m)
    BY <2>6, <2>7, <2>8
  <2> QED
    BY <2>9, <1>4
<1> QED
  BY <1>5, <1>6

\* Induction up to N: a set that holds 0, and n if it holds n - 1.
LEMMA Climb ==
    ASSUME NEW N \in Nat, NEW T, 0 \in T, \A n \in 1..N : n - 1 \in T => n \in T
    PROVE  0..N \subseteq T
<1> DEFINE f == [n \in 0..N |-> n]
<1>1. f[0] \in T /\ \A n \in 1..N : f[n - 1] \in T => f[n] \in T
  OBVIOUS
<1>2. \A n \in 0..N : f[n] \in T
  <2> HIDE DEF f
  <2> QED
    BY <1>1, Kept
<1> QED
  BY <1>2

\* A finite set of n elements.
Counts(S, n) == IsFiniteSet(S) /\ Cardinality(S) = n

\* Two sets that are apart.
LEMMA CountsTogether ==
    ASSUME NEW S, NEW T, NEW m \in Nat, NEW n \in Nat, Counts(S, m), Counts(T, n), S \cap T = {}
    PROVE  Counts(S \cup T, m + n)
<1>1. IsFiniteSet(S \cup T) /\ Cardinality(S \cup T) = Cardinality(S) + Cardinality(T) - Cardinality(S \cap T)
  BY FS_Union DEF Counts
<1>2. Cardinality(S \cap T) = 0
  BY FS_EmptySet
<1> QED
  BY <1>1, <1>2 DEF Counts

\* One more element.
LEMMA CountsOneMore ==
    ASSUME NEW S, NEW x, NEW n \in Nat, Counts(S, n), x \notin S
    PROVE  Counts({x} \cup S, n + 1)
<1>1. IsFiniteSet(S \cup {x}) /\ Cardinality(S \cup {x}) = Cardinality(S) + 1
  BY FS_AddElement DEF Counts
<1>2. S \cup {x} = {x} \cup S
  OBVIOUS
<1> QED
  BY <1>1, <1>2 DEF Counts

\* The first n values of a function that takes none of them twice.
LEMMA CountsValues ==
    ASSUME NEW f, NEW n \in Nat, \A i, j \in 0..(n - 1) : f[i] = f[j] => i = j
    PROVE  Counts({f[i] : i \in 0..(n - 1)}, n)
<1> DEFINE S == 0..(n - 1)
           T == {f[i] : i \in 0..(n - 1)}
           g == [i \in S |-> f[i]]
<1>1. IsFiniteSet(S) /\ Cardinality(S) = n
  <2>1. 0 \in Int /\ n - 1 \in Int
    OBVIOUS
  <2>2. IsFiniteSet(S) /\ Cardinality(S) = IF 0 > n - 1 THEN 0 ELSE (n - 1) - 0 + 1
    BY <2>1, FS_Interval
  <2> QED
    BY <2>2
<1>2. g \in Bijection(S, T)
  BY DEF Bijection, Injection, Surjection, IsInjective
<1>3. ExistsBijection(S, T)
  BY <1>2 DEF ExistsBijection
<1> QED
  BY <1>1, <1>3, FS_Bijection DEF Counts

\* A set that goes one to one into another and misses a member of it is smaller.
LEMMA OneMissed ==
    ASSUME NEW P, IsFiniteSet(P), NEW L, NEW x \in P,
           NEW h, \A y \in L : h[y] \in P /\ h[y] # x, \A y, z \in L : h[y] = h[z] => y = z
    PROVE  IsFiniteSet(L) /\ Cardinality(L) < Cardinality(P)
<1> DEFINE D == P \ {x}
           g == [y \in L |-> h[y]]
<1>1. IsFiniteSet(D) /\ Cardinality(D) = Cardinality(P) - 1
  BY FS_RemoveElement
<1>2. g \in Injection(L, D)
  <2>1. g \in [L -> D] /\ \A y, z \in L : g[y] = g[z] => y = z
    OBVIOUS
  <2> HIDE DEF g, D
  <2> QED
    BY <2>1 DEF Injection, IsInjective
<1>3. IsFiniteSet(L) /\ Cardinality(L) <= Cardinality(D)
  BY <1>1, <1>2, FS_Injection
<1>4. Cardinality(P) \in Nat /\ Cardinality(L) \in Nat
  BY <1>3, FS_CardinalityType
<1>5. PICK m \in Nat, n \in Nat : m = Cardinality(P) /\ n = Cardinality(L)
  BY <1>4
<1>6. n <= m - 1
  BY <1>1, <1>3, <1>5
<1>7. n < m
  BY <1>6
<1> QED
  BY <1>3, <1>5, <1>7
=============================================================================
