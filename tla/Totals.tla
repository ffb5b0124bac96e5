------------------------------- MODULE Totals -------------------------------
(***************************************************************************)
(* Facts about the sum of a function's values over a finite domain, for    *)
(* the proofs about money and Tiberium: FoldFunction adds the values up in *)
(* an order it chooses, and what follows holds of every order.             *)
(***************************************************************************)
EXTENDS Functions, FiniteSetTheorems, TLAPS

Total(f) == FoldFunction(+, 0, f)

\* Induction on the natural numbers, for a set of them.
LEMMA Induction ==
  ASSUME NEW N \in SUBSET Nat, 0 \in N, \A n \in N : n + 1 \in N
  PROVE  N = Nat
  <1> SUFFICES ASSUME Nat \ N # {} PROVE FALSE
    OBVIOUS
  <1>1. IsWellFoundedOn(OpToRel(<, Nat), Nat)
    BY NatLessThanWellFounded
  <1>2. PICK x \in Nat \ N : \A y \in Nat \ N : ~ (<<y, x>> \in OpToRel(<, Nat))
    BY <1>1, WFMin
  <1>3. x - 1 \in Nat /\ x - 1 < x /\ x - 1 + 1 = x
    <2>1. x \in Nat /\ x # 0
      BY <1>2
    <2> QED BY <2>1
  <1>4. <<x - 1, x>> \in OpToRel(<, Nat)
    BY <1>3 DEF OpToRel
  <1>5. x - 1 \in N
    BY <1>2, <1>3, <1>4
  <1> QED BY <1>2, <1>3, <1>5

\* t gives the sum of f over every set of the family D.
First(s) == CHOOSE x \in s : TRUE
Tally(t, f, D) == t = [s \in D |-> IF s = {} THEN 0 ELSE f[First(s)] + t[s \ {First(s)}]]

\* The subsets of K with at most n elements.
Small(K, n) == {s \in SUBSET K : Cardinality(s) <= n}

\* A set loses its first element.
LEMMA WithoutFirst ==
  ASSUME NEW K, IsFiniteSet(K), NEW s \in SUBSET K, s # {}
  PROVE  /\ First(s) \in s /\ s \ {First(s)} \in SUBSET K
         /\ Cardinality(s) \in Nat
         /\ Cardinality(s \ {First(s)}) \in Nat
         /\ Cardinality(s) = Cardinality(s \ {First(s)}) + 1
  <1>1. IsFiniteSet(s)
    BY FS_Subset
  <1>2. First(s) \in s
    BY DEF First
  <1>3. IsFiniteSet(s \ {First(s)}) /\ Cardinality(s \ {First(s)}) = Cardinality(s) - 1
    BY <1>1, <1>2, FS_RemoveElement
  <1>4. Cardinality(s) \in Nat /\ Cardinality(s \ {First(s)}) \in Nat
    BY <1>1, <1>3, FS_CardinalityType
  <1> QED BY <1>2, <1>3, <1>4

LEMMA NoneSmall ==
  ASSUME NEW K, IsFiniteSet(K), NEW s \in SUBSET K
  PROVE  /\ IsFiniteSet(s) /\ Cardinality(s) \in Nat
         /\ Cardinality(s) = 0 <=> s = {}
         /\ Cardinality(s) <= Cardinality(K) /\ Cardinality(K) \in Nat
  <1>1. IsFiniteSet(s) /\ Cardinality(s) <= Cardinality(K)
    BY FS_Subset
  <1> QED BY <1>1, FS_CardinalityType, FS_EmptySet

LEMMA TallyExists ==
  ASSUME NEW K, IsFiniteSet(K), NEW f
  PROVE  \E t : Tally(t, f, SUBSET K)
  <1> DEFINE N == {n \in Nat : \E t : Tally(t, f, Small(K, n))}
  <1>1. 0 \in N
    <2> DEFINE t == [s \in Small(K, 0) |-> 0]
    <2>1. \A s \in Small(K, 0) : s = {}
      BY NoneSmall DEF Small
    <2>2. Tally(t, f, Small(K, 0))
      BY <2>1 DEF Tally
    <2> QED BY <2>2
  <1>2. ASSUME NEW n \in N PROVE n + 1 \in N
    <2>1. n \in Nat /\ n + 1 \in Nat
      OBVIOUS
    <2>2. PICK t : Tally(t, f, Small(K, n))
      OBVIOUS
    <2> DEFINE u == [s \in Small(K, n + 1) |->
                        IF s = {} THEN 0 ELSE f[First(s)] + t[s \ {First(s)}]]
    <2>3. \A s \in Small(K, n) : t[s] = IF s = {} THEN 0 ELSE f[First(s)] + t[s \ {First(s)}]
      BY <2>2, Zenon DEF Tally
    <2>4. \A s \in Small(K, n) : s \in Small(K, n + 1)
      <3> TAKE s \in Small(K, n)
      <3>1. s \in SUBSET K /\ Cardinality(s) <= n
        BY DEF Small
      <3>2. Cardinality(s) \in Nat
        BY <3>1, NoneSmall
      <3> QED BY <2>1, <3>1, <3>2 DEF Small
    <2>5. \A s \in Small(K, n) : u[s] = t[s]
      BY <2>3, <2>4
    <2>6. ASSUME NEW s \in Small(K, n + 1)
          PROVE  u[s] = IF s = {} THEN 0 ELSE f[First(s)] + u[s \ {First(s)}]
      <3>1. CASE s = {}
        BY <3>1
      <3>2. CASE s # {}
        <4>1. s \in SUBSET K /\ Cardinality(s) <= n + 1
          BY DEF Small
        <4>2. s \ {First(s)} \in Small(K, n)
          BY <2>1, <3>2, <4>1, WithoutFirst DEF Small
        <4>3. u[s \ {First(s)}] = t[s \ {First(s)}]
          BY <2>5, <4>2
        <4>4. u[s] = f[First(s)] + t[s \ {First(s)}]
          BY <3>2
        <4> QED BY <3>2, <4>3, <4>4
      <3> QED BY <3>1, <3>2
    <2>7. u = [s \in Small(K, n + 1) |-> u[s]]
      OBVIOUS
    <2> HIDE DEF u
    <2>8. Tally(u, f, Small(K, n + 1))
      BY <2>6, <2>7, Zenon DEF Tally
    <2> QED BY <2>1, <2>8
  <1>3. N = Nat
    <2> HIDE DEF N
    <2>1. N \in SUBSET Nat
      BY DEF N
    <2> QED BY <1>1, <1>2, <2>1, Induction
  <1>4. Cardinality(K) \in N
    BY <1>3, FS_CardinalityType
  <1>5. Small(K, Cardinality(K)) = SUBSET K
    BY NoneSmall DEF Small
  <1> QED BY <1>4, <1>5

\* t is a sum of f over every subset of K.
Sums(t, f, K) ==
    /\ t[{}] = 0
    /\ \A s \in SUBSET K : s # {} => t[s] = f[First(s)] + t[s \ {First(s)}]

LEMMA TotalIs ==
  ASSUME NEW K, IsFiniteSet(K), NEW f, DOMAIN f = K
  PROVE  \E t : Sums(t, f, K) /\ Total(f) = t[K]
  <1> DEFINE iter[s \in SUBSET K] ==
               IF s = {} THEN 0 ELSE LET x == First(s) IN f[x] + iter[s \ {x}]
  <1>1. \E t : t = [s \in SUBSET K |->
                       IF s = {} THEN 0 ELSE f[First(s)] + t[s \ {First(s)}]]
    <2>1. \E t : Tally(t, f, SUBSET K)
      BY TallyExists
    <2> QED BY <2>1, Zenon DEF Tally
  <1>2. iter = [s \in SUBSET K |->
                   IF s = {} THEN 0 ELSE f[First(s)] + iter[s \ {First(s)}]]
    BY <1>1, Zenon DEF iter
  <1>3. Total(f) = iter[K]
    BY Zenon DEF Total, FoldFunction, FoldFunctionOnSet, MapThenFoldSet, First
  <1> HIDE DEF iter
  <1>4. Sums(iter, f, K)
    <2>1. \A s \in SUBSET K :
             iter[s] = IF s = {} THEN 0 ELSE f[First(s)] + iter[s \ {First(s)}]
      BY <1>2, Zenon
    <2>2. {} \in SUBSET K
      OBVIOUS
    <2> QED BY <2>1, <2>2 DEF Sums
  <1> QED BY <1>3, <1>4

\* What holds of the empty set, and of a set when it holds of the set without
\* its first element, holds of every set: here, for a family of sets.
LEMMA SetInduction ==
  ASSUME NEW K, IsFiniteSet(K), NEW D \in SUBSET SUBSET K, {} \in D,
         \A s \in SUBSET K : s # {} /\ s \ {First(s)} \in D => s \in D
  PROVE  K \in D
  <1> DEFINE N == {n \in Nat : \A s \in SUBSET K : Cardinality(s) = n => s \in D}
  <1>1. 0 \in N
    <2>1. \A s \in SUBSET K : Cardinality(s) = 0 => s = {}
      BY NoneSmall
    <2> QED BY <2>1
  <1>2. ASSUME NEW n \in N PROVE n + 1 \in N
    <2> SUFFICES ASSUME NEW s \in SUBSET K, Cardinality(s) = n + 1 PROVE s \in D
      OBVIOUS
    <2>1. s # {}
      BY NoneSmall
    <2>2. s \ {First(s)} \in SUBSET K /\ Cardinality(s \ {First(s)}) = n
      BY <2>1, WithoutFirst
    <2>3. s \ {First(s)} \in D
      BY <2>2
    <2> QED BY <2>1, <2>3
  <1>3. N = Nat
    <2> HIDE DEF N
    <2>1. N \in SUBSET Nat
      BY DEF N
    <2> QED BY <1>1, <1>2, <2>1, Induction
  <1>4. Cardinality(K) \in N
    BY <1>3, FS_CardinalityType
  <1> QED BY <1>4

\* The sum of natural numbers is one, and is 0 when they all are.
LEMMA TotalType ==
  ASSUME NEW K, IsFiniteSet(K), NEW f \in [K -> Nat]
  PROVE  /\ Total(f) \in Nat
         /\ (\A k \in K : f[k] = 0) => Total(f) = 0
  <1>1. PICK t : Sums(t, f, K) /\ Total(f) = t[K]
    BY TotalIs
  <1> DEFINE D == {s \in SUBSET K : t[s] \in Nat /\ ((\A k \in K : f[k] = 0) => t[s] = 0)}
  <1>2. {} \in D
    BY <1>1 DEF Sums
  <1>3. ASSUME NEW s \in SUBSET K, s # {}, s \ {First(s)} \in D PROVE s \in D
    <2>1. First(s) \in K
      BY <1>3, WithoutFirst
    <2>2. t[s] = f[First(s)] + t[s \ {First(s)}]
      BY <1>1, <1>3 DEF Sums
    <2>3. f[First(s)] \in Nat /\ t[s \ {First(s)}] \in Nat
      BY <1>3, <2>1
    <2> QED BY <1>3, <2>1, <2>2, <2>3
  <1>4. K \in D
    <2> HIDE DEF D
    <2>1. D \in SUBSET SUBSET K
      BY DEF D
    <2> QED BY <1>2, <1>3, <2>1, SetInduction
  <1> QED BY <1>1, <1>4

\* One value changes, and the sum by as much.
LEMMA TotalChanged ==
  ASSUME NEW K, IsFiniteSet(K), NEW f \in [K -> Nat], NEW k \in K, NEW v \in Nat
  PROVE  Total([f EXCEPT ![k] = v]) + f[k] = Total(f) + v
  <1> DEFINE g == [f EXCEPT ![k] = v]
  <1>1. g \in [K -> Nat] /\ g[k] = v /\ \A j \in K \ {k} : g[j] = f[j]
    OBVIOUS
  <1> HIDE DEF g
  <1>2. PICK t : Sums(t, f, K) /\ Total(f) = t[K]
    BY TotalIs
  <1>3. PICK u : Sums(u, g, K) /\ Total(g) = u[K]
    BY <1>1, TotalIs
  <1>t. /\ t[{}] = 0
        /\ \A s \in SUBSET K : s # {} => t[s] = f[First(s)] + t[s \ {First(s)}]
    BY <1>2 DEF Sums
  <1>u. /\ u[{}] = 0
        /\ \A s \in SUBSET K : s # {} => u[s] = g[First(s)] + u[s \ {First(s)}]
    BY <1>3 DEF Sums
  <1> DEFINE D == {s \in SUBSET K : /\ t[s] \in Nat /\ u[s] \in Nat
                                    /\ u[s] + (IF k \in s THEN f[k] ELSE 0)
                                       = t[s] + (IF k \in s THEN v ELSE 0)}
  <1>4. {} \in D
    BY <1>t, <1>u
  <1>5. ASSUME NEW s \in SUBSET K, s # {}, s \ {First(s)} \in D PROVE s \in D
    <2>1. First(s) \in K /\ First(s) \in s
      BY <1>5, WithoutFirst
    <2>2. t[s] = f[First(s)] + t[s \ {First(s)}]
      BY <1>5, <1>t
    <2>3. u[s] = g[First(s)] + u[s \ {First(s)}]
      BY <1>5, <1>u
    <2>4. /\ f[First(s)] \in Nat /\ g[First(s)] \in Nat /\ f[k] \in Nat
          /\ t[s \ {First(s)}] \in Nat /\ u[s \ {First(s)}] \in Nat
      BY <1>1, <1>5, <2>1
    <2>5. u[s \ {First(s)}] + (IF k \in s \ {First(s)} THEN f[k] ELSE 0)
          = t[s \ {First(s)}] + (IF k \in s \ {First(s)} THEN v ELSE 0)
      BY <1>5
    <2>6. t[s] \in Nat /\ u[s] \in Nat
      BY <2>2, <2>3, <2>4
    <2>7. CASE First(s) = k
      <3>1. k \in s /\ k \notin s \ {First(s)} /\ g[First(s)] = v /\ f[First(s)] = f[k]
        BY <1>1, <2>1, <2>7
      <3>2. u[s] + f[k] = t[s] + v
        BY <2>2, <2>3, <2>4, <2>5, <3>1
      <3> QED BY <2>6, <3>1, <3>2
    <2>8. CASE First(s) # k
      <3>1. g[First(s)] = f[First(s)] /\ (k \in s <=> k \in s \ {First(s)})
        BY <1>1, <2>1, <2>8
      <3>2. u[s] + (IF k \in s THEN f[k] ELSE 0) = t[s] + (IF k \in s THEN v ELSE 0)
        BY <2>2, <2>3, <2>4, <2>5, <3>1
      <3> QED BY <2>6, <3>2
    <2> QED BY <2>7, <2>8
  <1>6. K \in D
    <2> HIDE DEF D
    <2>1. D \in SUBSET SUBSET K
      BY DEF D
    <2> QED BY <1>4, <1>5, <2>1, SetInduction
  <1>7. u[K] + f[k] = t[K] + v
    BY <1>6
  <1> QED BY <1>2, <1>3, <1>7 DEF g

\* No value grows, and neither does the sum.
LEMMA TotalShrinks ==
  ASSUME NEW K, IsFiniteSet(K), NEW f \in [K -> Nat], NEW g \in [K -> Nat],
         \A k \in K : g[k] <= f[k]
  PROVE  Total(g) <= Total(f)
  <1>1. PICK t : Sums(t, f, K) /\ Total(f) = t[K]
    BY TotalIs
  <1>2. PICK u : Sums(u, g, K) /\ Total(g) = u[K]
    BY TotalIs
  <1>t. /\ t[{}] = 0
        /\ \A s \in SUBSET K : s # {} => t[s] = f[First(s)] + t[s \ {First(s)}]
    BY <1>1 DEF Sums
  <1>u. /\ u[{}] = 0
        /\ \A s \in SUBSET K : s # {} => u[s] = g[First(s)] + u[s \ {First(s)}]
    BY <1>2 DEF Sums
  <1> DEFINE D == {s \in SUBSET K : t[s] \in Nat /\ u[s] \in Nat /\ u[s] <= t[s]}
  <1>3. {} \in D
    BY <1>t, <1>u
  <1>4. ASSUME NEW s \in SUBSET K, s # {}, s \ {First(s)} \in D PROVE s \in D
    <2>1. First(s) \in K
      BY <1>4, WithoutFirst
    <2>2. /\ t[s] = f[First(s)] + t[s \ {First(s)}]
          /\ u[s] = g[First(s)] + u[s \ {First(s)}]
      BY <1>4, <1>t, <1>u
    <2>3. /\ f[First(s)] \in Nat /\ g[First(s)] \in Nat /\ g[First(s)] <= f[First(s)]
          /\ t[s \ {First(s)}] \in Nat /\ u[s \ {First(s)}] \in Nat
          /\ u[s \ {First(s)}] <= t[s \ {First(s)}]
      BY <1>4, <2>1
    <2>4. t[s] \in Nat /\ u[s] \in Nat /\ u[s] <= t[s]
      BY <2>2, <2>3
    <2> QED BY <2>4
  <1>5. K \in D
    <2> HIDE DEF D
    <2>1. D \in SUBSET SUBSET K
      BY DEF D
    <2> QED BY <1>3, <1>4, <2>1, SetInduction
  <1> QED BY <1>1, <1>2, <1>5
=============================================================================
