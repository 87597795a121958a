--------------------------- MODULE CountingProofs ---------------------------
(***************************************************************************)
(* Lemmas about counts, sums and orders, for any sets and sequences, and   *)
(* about the trial plans and the decoder of TrialPlan, for any plan.       *)
(***************************************************************************)
EXTENDS TrialPlan, SequenceTheorems, FiniteSetTheorems, FunctionTheorems, TLAPS

-----------------------------------------------------------------------------
(* Sums *)

\* What SumOver counts: as many pairs <<k, i>> as the number f[k] says.
Units(f, S) == UNION {{k} \X (1 .. f[k]) : k \in S}

\* The pairs that are counted.
LEMMA UnitsAre ==
    ASSUME NEW f, NEW S
    PROVE  \A u : u \in Units(f, S) <=> \E k \in S : \E i \in 1 .. f[k] : u = <<k, i>>
  <1> SUFFICES ASSUME NEW u
               PROVE  u \in Units(f, S) <=> \E k \in S : \E i \in 1 .. f[k] : u = <<k, i>>
    OBVIOUS
  <1>1. u \in Units(f, S) <=> \E k \in S : u \in {k} \X (1 .. f[k])
    BY DEF Units
  <1>2. ASSUME NEW k
        PROVE  u \in {k} \X (1 .. f[k]) <=> \E i \in 1 .. f[k] : u = <<k, i>>
    OBVIOUS
  <1> QED BY <1>1, <1>2

\* A sum of natural numbers over a finite set is a natural number.
LEMMA SumType ==
    ASSUME NEW S, IsFiniteSet(S), NEW f, \A k \in S : f[k] \in Nat
    PROVE  /\ IsFiniteSet(Units(f, S))
           /\ SumOver(f, S) \in Nat
           /\ SumOver(f, S) = Cardinality(Units(f, S))
  <1> DEFINE part == [k \in S |-> {k} \X (1 .. f[k])]
             T    == {{k} \X (1 .. f[k]) : k \in S}
  <1>1. part \in Surjection(S, T)
    BY DEF Surjection
  <1>2. IsFiniteSet(T)
    <2> HIDE DEF part, T
    <2> QED BY <1>1, FS_Surjection
  <1>3. \A k \in S : IsFiniteSet({k} \X (1 .. f[k]))
    <2> SUFFICES ASSUME NEW k \in S PROVE IsFiniteSet({k} \X (1 .. f[k]))
      OBVIOUS
    <2>1. IsFiniteSet({k})
      BY FS_Singleton
    <2>2. IsFiniteSet(1 .. f[k])
      BY FS_Interval
    <2> QED BY <2>1, <2>2, FS_Product
  <1>4. IsFiniteSet(UNION T)
    <2>1. \A t \in T : IsFiniteSet(t)
      BY <1>3
    <2> HIDE DEF T
    <2> QED BY <1>2, <2>1, FS_UNION
  <1>5. IsFiniteSet(Units(f, S)) /\ SumOver(f, S) = Cardinality(Units(f, S))
    BY <1>4 DEF Units, SumOver
  <1> QED BY <1>5, FS_CardinalityType

\* Sums of equal numbers are equal.
LEMMA SumSame ==
    ASSUME NEW S, NEW f, NEW g, \A k \in S : f[k] = g[k]
    PROVE  SumOver(f, S) = SumOver(g, S)
  <1>1. {{k} \X (1 .. f[k]) : k \in S} = {{k} \X (1 .. g[k]) : k \in S}
    OBVIOUS
  <1> QED BY <1>1 DEF SumOver

\* The sum of sums.
LEMMA SumAdds ==
    ASSUME NEW S, IsFiniteSet(S), NEW a, NEW b, NEW c,
           \A k \in S : b[k] \in Nat /\ c[k] \in Nat /\ a[k] = b[k] + c[k]
    PROVE  SumOver(a, S) = SumOver(b, S) + SumOver(c, S)
  <1> DEFINE A == Units(a, S)
             B == Units(b, S)
             C == Units(c, S)
             D == A \ B
             shift == [u \in C |-> <<u[1], b[u[1]] + u[2]>>]
  <1>1. /\ IsFiniteSet(A) /\ IsFiniteSet(B) /\ IsFiniteSet(C)
        /\ SumOver(a, S) = Cardinality(A) /\ SumOver(b, S) = Cardinality(B)
        /\ SumOver(c, S) = Cardinality(C)
        /\ SumOver(b, S) \in Nat /\ SumOver(c, S) \in Nat
    <2>1. \A k \in S : a[k] \in Nat
      OBVIOUS
    <2> QED BY <2>1, SumType
  <1>2. B \subseteq A
    <2> SUFFICES ASSUME NEW u \in B PROVE u \in A
      OBVIOUS
    <2>1. PICK k \in S : \E i \in 1 .. b[k] : u = <<k, i>>
      BY UnitsAre
    <2>2. PICK i \in 1 .. b[k] : u = <<k, i>>
      BY <2>1
    <2>3. i \in 1 .. a[k]
      OBVIOUS
    <2> QED BY <2>2, <2>3, UnitsAre
  <1>3. \A u : u \in D <=> \E k \in S : \E i \in b[k] + 1 .. a[k] : u = <<k, i>>
    <2> SUFFICES ASSUME NEW u
                 PROVE  u \in D <=> \E k \in S : \E i \in b[k] + 1 .. a[k] : u = <<k, i>>
      OBVIOUS
    <2>1. ASSUME u \in D
          PROVE  \E k \in S : \E i \in b[k] + 1 .. a[k] : u = <<k, i>>
      <3>1. PICK k \in S : \E i \in 1 .. a[k] : u = <<k, i>>
        BY <2>1, UnitsAre
      <3>2. PICK i \in 1 .. a[k] : u = <<k, i>>
        BY <3>1
      <3>3. i \notin 1 .. b[k]
        BY <2>1, <3>2, UnitsAre
      <3>4. i \in b[k] + 1 .. a[k]
        BY <3>3
      <3> QED BY <3>2, <3>4
    <2>2. ASSUME NEW k \in S, NEW i \in b[k] + 1 .. a[k], u = <<k, i>>
          PROVE  u \in D
      <3>1. i \in 1 .. a[k] /\ i \notin 1 .. b[k]
        OBVIOUS
      <3>2. u \in A
        BY <2>2, <3>1, UnitsAre
      <3>3. u \notin B
        <4>1. ASSUME u \in B PROVE FALSE
          <5>1. PICK q \in S : \E m \in 1 .. b[q] : u = <<q, m>>
            BY <4>1, UnitsAre
          <5>2. PICK m \in 1 .. b[q] : u = <<q, m>>
            BY <5>1
          <5>3. q = k /\ m = i
            BY <2>2, <5>2
          <5> QED BY <3>1, <5>3
        <4> QED BY <4>1
      <3> QED BY <3>2, <3>3
    <2> QED BY <2>1, <2>2
  <1>4. \A u \in C : \E k \in S : \E i \in 1 .. c[k] : u = <<k, i>> /\ shift[u] = <<k, b[k] + i>>
    BY UnitsAre
  <1> HIDE DEF A, B, C
  <1>5. shift \in [C -> D]
    <2>1. ASSUME NEW u \in C
          PROVE  shift[u] \in D
      <3>1. PICK k \in S : \E i \in 1 .. c[k] : u = <<k, i>> /\ shift[u] = <<k, b[k] + i>>
        BY <1>4
      <3>2. PICK i \in 1 .. c[k] : shift[u] = <<k, b[k] + i>>
        BY <3>1
      <3>3. b[k] + i \in b[k] + 1 .. a[k]
        OBVIOUS
      <3> HIDE DEF D, shift
      <3> QED BY <1>3, <3>2, <3>3
    <2> HIDE DEF D
    <2> QED BY <2>1
  <1>6. ASSUME NEW u \in C, NEW v \in C, shift[u] = shift[v]
        PROVE  u = v
    <2>1. PICK k \in S : \E i \in 1 .. c[k] : u = <<k, i>> /\ shift[u] = <<k, b[k] + i>>
      BY <1>4
    <2>2. PICK i \in 1 .. c[k] : u = <<k, i>> /\ shift[u] = <<k, b[k] + i>>
      BY <2>1
    <2>3. PICK q \in S : \E i_1 \in 1 .. c[q] : v = <<q, i_1>> /\ shift[v] = <<q, b[q] + i_1>>
      BY <1>4
    <2>4. PICK m \in 1 .. c[q] : v = <<q, m>> /\ shift[v] = <<q, b[q] + m>>
      BY <2>3
    <2> HIDE DEF shift
    <2>5. k = q /\ b[k] + i = b[q] + m
      BY <1>6, <2>2, <2>4
    <2>6. i = m
      BY <2>5
    <2> QED BY <2>2, <2>4, <2>5, <2>6
  <1>7. ASSUME NEW u \in D
        PROVE  \E v \in C : shift[v] = u
    <2>1. PICK k \in S : \E i \in b[k] + 1 .. a[k] : u = <<k, i>>
      BY <1>3
    <2>2. PICK i \in b[k] + 1 .. a[k] : u = <<k, i>>
      BY <2>1
    <2>3. i - b[k] \in 1 .. c[k] /\ b[k] + (i - b[k]) = i
      OBVIOUS
    <2>4. <<k, i - b[k]>> \in C
      BY <2>3, UnitsAre DEF C
    <2>5. shift[<<k, i - b[k]>>] = <<k, b[k] + (i - b[k])>>
      BY <2>4
    <2> QED BY <2>2, <2>3, <2>4, <2>5
  <1>8. Cardinality(D) = Cardinality(C) /\ IsFiniteSet(D)
    <2> HIDE DEF shift, D
    <2>1. shift \in Bijection(C, D)
      BY <1>5, <1>6, <1>7, Fun_IsBij
    <2>2. ExistsBijection(C, D)
      BY <2>1 DEF ExistsBijection
    <2> QED BY <1>1, <2>2, FS_Bijection
  <1>9. Cardinality(D) = Cardinality(A) - Cardinality(B)
    <2>1. A \cap B = B
      BY <1>2
    <2>2. Cardinality(A \ B) = Cardinality(A) - Cardinality(A \cap B)
      BY <1>1, FS_Difference
    <2> QED BY <2>1, <2>2
  <1>10. Cardinality(A) \in Nat /\ Cardinality(B) \in Nat /\ Cardinality(C) \in Nat
    BY <1>1, FS_CardinalityType
  <1> HIDE DEF D
  <1> QED BY <1>1, <1>8, <1>9, <1>10

\* A sum of numbers between two bounds.
LEMMA SumBounds ==
    ASSUME NEW S, IsFiniteSet(S), NEW f, NEW lo \in Nat, NEW hi \in Nat,
           \A k \in S : f[k] \in lo .. hi
    PROVE  /\ Cardinality(S) * lo <= SumOver(f, S)
           /\ SumOver(f, S) <= Cardinality(S) * hi
  <1> DEFINE U == Units(f, S)
             L == S \X (1 .. lo)
             H == S \X (1 .. hi)
  <1>1. IsFiniteSet(U) /\ SumOver(f, S) = Cardinality(U)
    <2>1. \A k \in S : f[k] \in Nat
      OBVIOUS
    <2> QED BY <2>1, SumType
  <1>2. ASSUME NEW n \in Nat
        PROVE  IsFiniteSet(S \X (1 .. n)) /\ Cardinality(S \X (1 .. n)) = Cardinality(S) * n
    <2>1. IsFiniteSet(1 .. n) /\ Cardinality(1 .. n) = n
      <3>1. IsFiniteSet(1 .. n) /\ Cardinality(1 .. n) = IF 1 > n THEN 0 ELSE n - 1 + 1
        BY FS_Interval
      <3> QED BY <3>1
    <2>2. IsFiniteSet(S \X (1 .. n)) /\ Cardinality(S \X (1 .. n)) = Cardinality(S) * Cardinality(1 .. n)
      BY <2>1, FS_Product
    <2> QED BY <2>1, <2>2
  <1>3. L \subseteq U
    <2> SUFFICES ASSUME NEW k \in S, NEW i \in 1 .. lo PROVE <<k, i>> \in U
      OBVIOUS
    <2>1. i \in 1 .. f[k]
      OBVIOUS
    <2> QED BY <2>1, UnitsAre
  <1>4. U \subseteq H
    <2> SUFFICES ASSUME NEW u \in U PROVE u \in H
      OBVIOUS
    <2>1. PICK k \in S : \E i \in 1 .. f[k] : u = <<k, i>>
      BY UnitsAre
    <2>2. PICK i \in 1 .. f[k] : u = <<k, i>>
      BY <2>1
    <2>3. i \in 1 .. hi
      OBVIOUS
    <2> QED BY <2>2, <2>3
  <1>5. /\ IsFiniteSet(L) /\ Cardinality(L) = Cardinality(S) * lo
        /\ IsFiniteSet(H) /\ Cardinality(H) = Cardinality(S) * hi
    BY <1>2
  <1> HIDE DEF U, L, H
  <1>6. Cardinality(L) <= Cardinality(U)
    BY <1>1, <1>3, FS_Subset
  <1>7. Cardinality(U) <= Cardinality(H)
    BY <1>4, <1>5, FS_Subset
  <1> QED BY <1>1, <1>5, <1>6, <1>7

\* A sum of numbers of at least lo, one of which is more.
LEMMA SumAbove ==
    ASSUME NEW S, IsFiniteSet(S), NEW f, NEW lo \in Nat,
           \A k \in S : f[k] \in Nat /\ f[k] >= lo, NEW e \in S, f[e] > lo
    PROVE  Cardinality(S) * lo < SumOver(f, S)
  <1> DEFINE U == Units(f, S)
             L == S \X (1 .. lo)
  <1>1. IsFiniteSet(U) /\ SumOver(f, S) = Cardinality(U)
    BY SumType
  <1>2. IsFiniteSet(L) /\ Cardinality(L) = Cardinality(S) * lo
    <2>1. IsFiniteSet(1 .. lo) /\ Cardinality(1 .. lo) = IF 1 > lo THEN 0 ELSE lo - 1 + 1
      BY FS_Interval
    <2>2. Cardinality(1 .. lo) = lo
      BY <2>1
    <2>3. IsFiniteSet(L) /\ Cardinality(L) = Cardinality(S) * Cardinality(1 .. lo)
      BY <2>1, FS_Product
    <2> QED BY <2>2, <2>3
  <1>3. L \subseteq U
    <2> SUFFICES ASSUME NEW k \in S, NEW i \in 1 .. lo PROVE <<k, i>> \in U
      OBVIOUS
    <2>1. i \in 1 .. f[k]
      OBVIOUS
    <2> QED BY <2>1, UnitsAre
  <1>4. <<e, lo + 1>> \in U /\ <<e, lo + 1>> \notin L
    <2>1. lo + 1 \in 1 .. f[e]
      OBVIOUS
    <2>2. <<e, lo + 1>> \in U
      BY <2>1, UnitsAre
    <2> QED BY <2>2
  <1> HIDE DEF U, L
  <1>5. Cardinality(L) < Cardinality(U)
    <2>1. Cardinality(L) <= Cardinality(U) /\ (Cardinality(L) = Cardinality(U) => L = U)
      BY <1>1, <1>3, FS_Subset
    <2>2. Cardinality(L) \in Nat /\ Cardinality(U) \in Nat
      BY <1>1, <1>2, FS_CardinalityType
    <2>3. L # U
      BY <1>4
    <2> QED BY <2>1, <2>2, <2>3
  <1> QED BY <1>1, <1>2, <1>5

-----------------------------------------------------------------------------
(* Occurrences *)

\* Where a value stands in a function, among the places of K.
Places(x, s, K) == {k \in K : s[k] = x}

\* Two places of K that exchange their values.
Exchanged(s, t, i, j, K) ==
    /\ i \in K /\ j \in K
    /\ \A k \in K : t[k] = IF k = i THEN s[j] ELSE IF k = j THEN s[i] ELSE s[k]

\* Two places in K that exchange their values keep the number of places of
\* each value: the exchange maps the old places of x to its new ones.
LEMMA ExchangeKeeps ==
    ASSUME NEW K, IsFiniteSet(K), NEW s, NEW t, NEW i, NEW j, Exchanged(s, t, i, j, K), NEW x
    PROVE  Cardinality(Places(x, t, K)) = Cardinality(Places(x, s, K))
  <1> DEFINE P == Places(x, s, K)
             Q == Places(x, t, K)
             other == [k \in P |-> IF k = i THEN j ELSE IF k = j THEN i ELSE k]
  <1>1. /\ t[i] = s[j] /\ t[j] = s[i]
        /\ \A k \in K : k # i /\ k # j => t[k] = s[k]
        /\ i \in K /\ j \in K
    BY DEF Exchanged
  <1>2. other \in [P -> Q]
    BY <1>1 DEF Places
  <1>3. \A a, b \in P : other[a] = other[b] => a = b
    BY <1>1 DEF Places
  <1>4. \A q \in Q : \E p \in P : other[p] = q
    <2> SUFFICES ASSUME NEW q \in Q PROVE \E p \in P : other[p] = q
      OBVIOUS
    <2>1. CASE q = i
      <3>1. j \in P /\ other[j] = q
        BY <1>1, <2>1 DEF Places
      <3> QED BY <3>1
    <2>2. CASE q = j
      <3>1. i \in P /\ other[i] = q
        BY <1>1, <2>2 DEF Places
      <3> QED BY <3>1
    <2>3. CASE q # i /\ q # j
      <3>1. q \in P /\ other[q] = q
        BY <1>1, <2>3 DEF Places
      <3> QED BY <3>1
    <2> QED BY <2>1, <2>2, <2>3
  <1> HIDE DEF other
  <1>5. IsFiniteSet(P)
    <2>1. P \subseteq K
      BY DEF Places
    <2> HIDE DEF P
    <2> QED BY <2>1, FS_Subset
  <1> HIDE DEF P, Q
  <1>6. other \in Bijection(P, Q)
    BY <1>2, <1>3, <1>4, Fun_IsBij
  <1>7. ExistsBijection(P, Q)
    BY <1>6 DEF ExistsBijection
  <1>8. Cardinality(Q) = Cardinality(P)
    BY <1>5, <1>7, FS_Bijection
  <1> QED BY <1>8 DEF P, Q

-----------------------------------------------------------------------------
(* Order *)

\* A finite set of numbers in order: every one of them is there.
LEMMA OrderedShape ==
    ASSUME NEW S \in SUBSET Int, IsFiniteSet(S)
    PROVE  /\ Cardinality(S) \in Nat
           /\ Ordered(S) \in [1 .. Cardinality(S) -> S]
  <1> DEFINE n        == Cardinality(S)
             Below(x) == {y \in S : y < x}
             rank     == [x \in S |-> Cardinality(Below(x)) + 1]
  <1>1. n \in Nat
    BY FS_CardinalityType
  <1>2. ASSUME NEW x \in S
        PROVE  /\ IsFiniteSet(Below(x)) /\ Cardinality(Below(x)) \in Nat
               /\ Cardinality(Below(x)) < n
    <2>1. Below(x) \in SUBSET S /\ Below(x) # S
      OBVIOUS
    <2> HIDE DEF Below
    <2>2. /\ IsFiniteSet(Below(x)) /\ Cardinality(Below(x)) <= n
          /\ n = Cardinality(Below(x)) => S = Below(x)
      BY <2>1, FS_Subset
    <2>3. Cardinality(Below(x)) \in Nat
      BY <2>2, FS_CardinalityType
    <2> HIDE DEF n
    <2> QED BY <1>1, <2>1, <2>2, <2>3
  <1>3. rank \in [S -> 1 .. n]
    <2> HIDE DEF n, Below
    <2> QED BY <1>1, <1>2
  <1>4. ASSUME NEW x \in S, NEW z \in S, x < z
        PROVE  rank[x] # rank[z]
    <2>0. S \subseteq Int
      OBVIOUS
    <2>1. Below(x) \in SUBSET Below(z) /\ x \in Below(z) /\ x \notin Below(x)
      <3>1. ASSUME NEW y \in S, y < x PROVE y < z
        BY <1>4, <2>0, <3>1
      <3>2. ~ x < x
        BY <2>0
      <3> QED BY <1>4, <3>1, <3>2
    <2>2. /\ Cardinality(Below(x)) <= Cardinality(Below(z))
          /\ Cardinality(Below(z)) = Cardinality(Below(x)) => Below(z) = Below(x)
      <3> HIDE DEF Below
      <3> QED BY <1>2, <2>1, FS_Subset
    <2>3. Cardinality(Below(z)) # Cardinality(Below(x))
      BY <2>1, <2>2
    <2>4. /\ rank[x] = Cardinality(Below(x)) + 1 /\ rank[z] = Cardinality(Below(z)) + 1
          /\ Cardinality(Below(x)) \in Nat /\ Cardinality(Below(z)) \in Nat
      BY <1>2
    <2> HIDE DEF Below, rank
    <2> QED BY <2>3, <2>4
  <1>5. \A x, z \in S : rank[x] = rank[z] => x = z
    <2> SUFFICES ASSUME NEW x \in S, NEW z \in S, x # z PROVE rank[x] # rank[z]
      OBVIOUS
    <2>1. x < z \/ z < x
      OBVIOUS
    <2> HIDE DEF rank
    <2> QED BY <1>4, <2>1
  <1>6. rank \in Injection(S, 1 .. n)
    <2> HIDE DEF rank, n
    <2> QED BY <1>3, <1>5, Fun_IsInj
  <1>7. rank \in Surjection(S, 1 .. n)
    <2>1. IsFiniteSet(1 .. n) /\ Cardinality(1 .. n) = n
      <3>1. IsFiniteSet(1 .. n) /\ Cardinality(1 .. n) = IF 1 > n THEN 0 ELSE n - 1 + 1
        BY <1>1, FS_Interval
      <3> QED BY <1>1, <3>1
    <2>2. Cardinality(S) = Cardinality(1 .. n) <=> rank \in Surjection(S, 1 .. n)
      <3> HIDE DEF rank, n
      <3> QED BY <1>6, <2>1, FS_Injection
    <2> QED BY <2>1, <2>2
  <1>8. ASSUME NEW m \in 1 .. n
        PROVE  \E x \in S : Cardinality({y \in S : y < x}) = m - 1
    <2>1. PICK x \in S : rank[x] = m
      <3>1. \A t \in 1 .. n : \E y \in S : rank[y] = t
        <4> HIDE DEF rank, n
        <4> QED BY <1>7 DEF Surjection
      <3> HIDE DEF rank, n
      <3> QED BY <3>1, <1>8
    <2>2. rank[x] = Cardinality(Below(x)) + 1 /\ Cardinality(Below(x)) \in Nat
      BY <1>2
    <2>3. Cardinality(Below(x)) = m - 1
      <3> HIDE DEF rank, Below
      <3> QED BY <2>1, <2>2
    <2> QED BY <2>3
  <1>9. ASSUME NEW m \in 1 .. n
        PROVE  (CHOOSE x \in S : Cardinality({y \in S : y < x}) = m - 1) \in S
    BY <1>8
  <1>10. Ordered(S) \in [1 .. n -> S]
    BY <1>9 DEF Ordered
  <1> QED BY <1>1, <1>10

-----------------------------------------------------------------------------
(* Means and the middle between them *)

\* A factor keeps the order.
LEMMA TimesKeeps ==
    ASSUME NEW a \in Nat, NEW b \in Nat, NEW c \in Nat, a <= b
    PROVE  a * c <= b * c
  OBVIOUS

\* Two groups of samples whose values are lo .. lo + j and up .. up + j, with
\* up - lo at least three and j at most one, are on different sides of twice
\* the middle of their means (low, high: the sums; n, m: the counts).
LEMMA MiddleSeparates ==
    ASSUME NEW n \in Nat \ {0}, NEW m \in Nat \ {0}, NEW low \in Nat, NEW high \in Nat,
           NEW lo \in Nat, NEW j \in {0, 1},
           n * lo <= low, low <= n * (lo + j),
           m * (lo + 3) <= high, high <= m * (lo + 3 + j),
           NEW x \in Nat
    PROVE  /\ high * n > low * m
           /\ x \in lo .. lo + j => 2 * x * n * m < low * m + high * n
           /\ x \in lo + 3 .. lo + 3 + j => 2 * x * n * m >= low * m + high * n
  <1> DEFINE p == n * m
             A == low * m
             B == high * n
             q == lo * p
  <1>1. p \in Nat /\ p > 0 /\ A \in Nat /\ B \in Nat /\ q \in Nat
    OBVIOUS
  <1>2. n * (lo + j) = n * lo + n * j /\ n * lo \in Nat /\ n * j \in Nat
    OBVIOUS
  <1>3. q <= A
    <2>1. (n * lo) * m <= low * m
      BY <1>2, TimesKeeps
    <2>2. (n * lo) * m = lo * (n * m)
      OBVIOUS
    <2> QED BY <2>1, <2>2
  <1>4. A <= q + j * p
    <2>1. low * m <= (n * (lo + j)) * m
      BY <1>2, TimesKeeps
    <2>2. (n * (lo + j)) * m = lo * (n * m) + j * (n * m)
      OBVIOUS
    <2> QED BY <2>1, <2>2
  <1>5. q + 3 * p <= B
    <2>1. (m * (lo + 3)) * n <= high * n
      <3>1. m * (lo + 3) \in Nat
        OBVIOUS
      <3> QED BY <3>1, TimesKeeps
    <2>2. (m * (lo + 3)) * n = lo * (n * m) + 3 * (n * m)
      OBVIOUS
    <2> QED BY <2>1, <2>2
  <1>6. B <= q + 3 * p + j * p
    <2>1. high * n <= (m * (lo + 3 + j)) * n
      <3>1. m * (lo + 3 + j) \in Nat
        OBVIOUS
      <3> QED BY <3>1, TimesKeeps
    <2>2. (m * (lo + 3 + j)) * n = lo * (n * m) + 3 * (n * m) + j * (n * m)
      OBVIOUS
    <2> QED BY <2>1, <2>2
  <1>7. 2 * x * n * m = 2 * (x * p)
    OBVIOUS
  <1>8. j * p \in {0, p}
    OBVIOUS
  <1>9. ASSUME x \in lo .. lo + j
        PROVE  x * p \in Nat /\ x * p <= q + j * p
    <2>1. x * p <= (lo + j) * p
      BY <1>1, <1>9, TimesKeeps
    <2>2. (lo + j) * p = lo * p + j * p
      BY <1>1
    <2> QED BY <1>1, <2>1, <2>2
  <1>10. ASSUME x \in lo + 3 .. lo + 3 + j
         PROVE  x * p \in Nat /\ q + 3 * p <= x * p
    <2>1. (lo + 3) * p <= x * p
      BY <1>1, <1>10, TimesKeeps
    <2>2. (lo + 3) * p = lo * p + 3 * p
      BY <1>1
    <2> QED BY <1>1, <2>1, <2>2
  <1> HIDE DEF p, A, B, q
  <1>11. B > A
    BY <1>1, <1>4, <1>5, <1>8
  <1>12. ASSUME x \in lo .. lo + j
         PROVE  2 * (x * p) < A + B
    BY <1>1, <1>3, <1>5, <1>8, <1>9, <1>12
  <1>13. ASSUME x \in lo + 3 .. lo + 3 + j
         PROVE  2 * (x * p) >= A + B
    BY <1>1, <1>4, <1>6, <1>8, <1>10, <1>13
  <1> QED BY <1>7, <1>11, <1>12, <1>13 DEF A, B

\* Samples of the fast bit, all of them lo (n of them, low their sum), and of
\* the slow bit, some of them three more (m of them, high their sum): the
\* middle of the means is above lo, and not above lo + 3.
LEMMA MiddleOfDiluted ==
    ASSUME NEW n \in Nat \ {0}, NEW m \in Nat \ {0}, NEW high \in Nat, NEW lo \in Nat,
           m * lo < high, high <= m * (lo + 3)
    PROVE  /\ high * n > (n * lo) * m
           /\ 2 * lo * n * m < (n * lo) * m + high * n
           /\ 2 * (lo + 3) * n * m >= (n * lo) * m + high * n
  <1> DEFINE p == n * m
             B == high * n
             q == lo * p
  <1>1. p \in Nat /\ p > 0 /\ B \in Nat /\ q \in Nat
    OBVIOUS
  <1>2. q + n <= B
    <2>1. m * lo + 1 \in Nat /\ m * lo + 1 <= high
      OBVIOUS
    <2>2. (m * lo + 1) * n <= high * n
      BY <2>1, TimesKeeps
    <2>3. (m * lo + 1) * n = lo * (n * m) + n
      OBVIOUS
    <2> QED BY <2>2, <2>3
  <1>3. B <= q + 3 * p
    <2>1. m * (lo + 3) \in Nat
      OBVIOUS
    <2>2. high * n <= (m * (lo + 3)) * n
      BY <2>1, TimesKeeps
    <2>3. (m * (lo + 3)) * n = lo * (n * m) + 3 * (n * m)
      OBVIOUS
    <2> QED BY <2>2, <2>3
  <1>4. (n * lo) * m = q /\ 2 * lo * n * m = 2 * q /\ 2 * (lo + 3) * n * m = 2 * q + 6 * p
    OBVIOUS
  <1> HIDE DEF p, B, q
  <1>5. B > q /\ 2 * q < q + B /\ 2 * q + 6 * p >= q + B
    BY <1>1, <1>2, <1>3
  <1> QED BY <1>4, <1>5 DEF B

\* If the means are both lo, so is their middle.
LEMMA MiddleOfEqual ==
    ASSUME NEW n \in Nat \ {0}, NEW m \in Nat \ {0}, NEW lo \in Nat, NEW x \in Nat, x >= lo
    PROVE  /\ (m * lo) * n = (n * lo) * m
           /\ 2 * x * n * m >= (n * lo) * m + (m * lo) * n
  <1> DEFINE p == n * m
             q == lo * p
  <1>1. p \in Nat /\ q \in Nat /\ x * p \in Nat
    OBVIOUS
  <1>2. q <= x * p
    BY <1>1, TimesKeeps
  <1>3. (m * lo) * n = q /\ (n * lo) * m = q /\ 2 * x * n * m = 2 * (x * p)
    OBVIOUS
  <1> HIDE DEF p, q
  <1> QED BY <1>1, <1>2, <1>3

-----------------------------------------------------------------------------
(* Dealing out *)

\* A quotient is the largest number of times that the divisor fits.
LEMMA QuotientFits ==
    ASSUME NEW a \in Nat, NEW m \in Nat \ {0}, NEW q \in Nat
    PROVE  /\ a \div m \in Nat
           /\ q <= a \div m <=> q * m <= a
  <1> DEFINE d == a \div m
  <1>1. d \in Nat /\ d * m <= a /\ a < (d + 1) * m
    OBVIOUS
  <1> HIDE DEF d
  <1>2. q * m \in Nat /\ d * m \in Nat /\ (d + 1) * m = d * m + m
    BY <1>1
  <1>3. ASSUME q <= d PROVE q * m <= d * m
    BY <1>1, <1>3, TimesKeeps
  <1>4. ASSUME d + 1 <= q PROVE (d + 1) * m <= q * m
    <2>1. d + 1 \in Nat
      BY <1>1
    <2> QED BY <1>1, <1>4, <2>1, TimesKeeps
  <1> QED BY <1>1, <1>2, <1>3, <1>4 DEF d

\* Quotient and remainder determine the number, and are determined by it.
LEMMA QuotientRemainder ==
    ASSUME NEW i \in Nat, NEW m \in Nat \ {0}
    PROVE  /\ i \div m \in Nat /\ i % m \in 0 .. m - 1
           /\ i = (i % m) + (i \div m) * m
  OBVIOUS

\* A number that is put together from a remainder and a quotient has them.
LEMMA RemainderOf ==
    ASSUME NEW m \in Nat \ {0}, NEW s \in 0 .. m - 1, NEW q \in Nat
    PROVE  (s + q * m) % m = s /\ (s + q * m) \div m = q
  <1> DEFINE i == s + q * m
  <1>1. i \in Nat
    OBVIOUS
  <1>2. PICK d \in Nat : d = i \div m
    BY <1>1, QuotientRemainder
  <1>3. PICK r \in 0 .. m - 1 : r = i % m
    BY <1>1, QuotientRemainder
  <1>4. i = r + d * m
    BY <1>1, <1>2, <1>3, QuotientRemainder
  <1>5. d * m \in Nat /\ q * m \in Nat /\ (d + 1) * m = d * m + m /\ (q + 1) * m = q * m + m
    OBVIOUS
  <1>6. ASSUME d + 1 <= q PROVE (d + 1) * m <= q * m
    <2>1. d + 1 \in Nat
      OBVIOUS
    <2> QED BY <1>6, <2>1, TimesKeeps
  <1>7. ASSUME q + 1 <= d PROVE (q + 1) * m <= d * m
    <2>1. q + 1 \in Nat
      OBVIOUS
    <2> QED BY <1>7, <2>1, TimesKeeps
  <1>8. d = q
    BY <1>4, <1>5, <1>6, <1>7
  <1>9. r = s
    BY <1>4, <1>5, <1>8
  <1> QED BY <1>2, <1>3, <1>8, <1>9

\* Dealing n things out to m players in turn deals every one of them once.
LEMMA DealtOut ==
    ASSUME NEW m \in Nat \ {0}, NEW n \in Nat, NEW f,
           \A s \in 0 .. m - 1 :
               f[s] = IF s < n THEN 1 + (n - s - 1) \div m ELSE 0
    PROVE  SumOver(f, 0 .. m - 1) = n
  <1> DEFINE S    == 0 .. m - 1
             U    == Units(f, S)
             I    == 0 .. n - 1
             deal == [i \in I |-> <<i % m, i \div m + 1>>]
  <1>1. \A s \in S : f[s] \in Nat
    <2> SUFFICES ASSUME NEW s \in S PROVE f[s] \in Nat
      OBVIOUS
    <2>1. CASE s < n
      <3>1. n - s - 1 \in Nat
        BY <2>1
      <3>2. (n - s - 1) \div m \in Nat
        BY <3>1, QuotientFits
      <3> QED BY <2>1, <3>2
    <2>2. CASE ~(s < n)
      BY <2>2
    <2> QED BY <2>1, <2>2
  <1>2. ASSUME NEW s \in S, NEW k \in Nat, k >= 1
        PROVE  k <= f[s] <=> s + (k - 1) * m < n
    <2>1. (k - 1) \in Nat /\ (k - 1) * m \in Nat
      BY <1>2
    <2>2. CASE s < n
      <3>1. n - s - 1 \in Nat
        BY <2>2
      <3>2. PICK d \in Nat : d = (n - s - 1) \div m
        BY <3>1, QuotientFits
      <3>3. (k - 1) <= d <=> (k - 1) * m <= n - s - 1
        BY <2>1, <3>1, <3>2, QuotientFits
      <3>4. f[s] = 1 + d
        BY <2>2, <3>2
      <3> QED BY <2>1, <3>3, <3>4
    <2>3. CASE ~(s < n)
      BY <1>2, <2>1, <2>3
    <2> QED BY <2>2, <2>3
  <1>3. deal \in [I -> U]
    <2> SUFFICES ASSUME NEW i \in I PROVE <<i % m, i \div m + 1>> \in U
      OBVIOUS
    <2>1. PICK s \in S : s = i % m
      BY QuotientRemainder
    <2>2. PICK q \in Nat : q = i \div m
      BY QuotientRemainder
    <2>3. i = s + q * m
      BY <2>1, <2>2, QuotientRemainder
    <2>4. q + 1 <= f[s]
      <3>1. q + 1 \in Nat /\ q + 1 >= 1 /\ q + 1 - 1 = q
        OBVIOUS
      <3> QED BY <1>2, <2>3, <3>1
    <2>5. q + 1 \in 1 .. f[s]
      BY <1>1, <2>4
    <2>6. <<s, q + 1>> \in U
      BY <2>5, UnitsAre
    <2> QED BY <2>1, <2>2, <2>6
  <1>4. \A i, j \in I : deal[i] = deal[j] => i = j
    <2> SUFFICES ASSUME NEW i \in I, NEW j \in I,
                        <<i % m, i \div m + 1>> = <<j % m, j \div m + 1>>
                 PROVE  i = j
      OBVIOUS
    <2>1. /\ i \div m \in Nat /\ i % m \in 0 .. m - 1 /\ i = (i % m) + (i \div m) * m
          /\ j \div m \in Nat /\ j % m \in 0 .. m - 1 /\ j = (j % m) + (j \div m) * m
      <3>1. i \in Nat /\ j \in Nat
        OBVIOUS
      <3> HIDE DEF I
      <3> QED BY <3>1, QuotientRemainder
    <2>2. i % m = j % m /\ i \div m + 1 = j \div m + 1
      OBVIOUS
    <2>3. i \div m = j \div m
      BY <2>1, <2>2
    <2> QED BY <2>1, <2>2, <2>3
  <1>5. \A u \in U : \E i \in I : deal[i] = u
    <2> SUFFICES ASSUME NEW u \in U
                 PROVE  \E i \in I : <<i % m, i \div m + 1>> = u
      OBVIOUS
    <2>1. PICK s \in S : \E k \in 1 .. f[s] : u = <<s, k>>
      BY UnitsAre
    <2>2. PICK k \in 1 .. f[s] : u = <<s, k>>
      BY <2>1
    <2>3. k \in Nat /\ k >= 1 /\ k - 1 \in Nat /\ k <= f[s]
      BY <1>1
    <2>4. s + (k - 1) * m < n
      BY <1>2, <2>3
    <2>5. s + (k - 1) * m \in I
      <3>1. (k - 1) * m \in Nat
        BY <2>3
      <3> QED BY <2>4, <3>1
    <2>6. (s + (k - 1) * m) % m = s /\ (s + (k - 1) * m) \div m = k - 1
      BY <2>3, RemainderOf
    <2>7. k - 1 + 1 = k
      BY <2>3
    <2> QED BY <2>2, <2>5, <2>6, <2>7
  <1>6. deal \in Bijection(I, U)
    <2> HIDE DEF deal, U, I
    <2> QED BY <1>3, <1>4, <1>5, Fun_IsBij
  <1>7. IsFiniteSet(I) /\ Cardinality(I) = n
    <2>1. IsFiniteSet(I) /\ Cardinality(I) = IF 0 > n - 1 THEN 0 ELSE n - 1 - 0 + 1
      BY FS_Interval
    <2> QED BY <2>1
  <1>8. Cardinality(U) = n
    <2>1. ExistsBijection(I, U)
      BY <1>6 DEF ExistsBijection
    <2> HIDE DEF deal, U, I
    <2> QED BY <1>7, <2>1, FS_Bijection
  <1>9. IsFiniteSet(S)
    BY FS_Interval
  <1>10. SumOver(f, S) = Cardinality(U)
    <2> HIDE DEF S
    <2> QED BY <1>1, <1>9, SumType
  <1> QED BY <1>8, <1>10

-----------------------------------------------------------------------------
(* The trial plan *)

\* Finitely many places, and their number.
LEMMA PlacesType ==
    ASSUME NEW K, IsFiniteSet(K), NEW s, NEW x
    PROVE  /\ IsFiniteSet(Places(x, s, K))
           /\ Cardinality(Places(x, s, K)) \in Nat
  <1>1. Places(x, s, K) \subseteq K
    BY DEF Places
  <1>2. IsFiniteSet(Places(x, s, K))
    BY <1>1, FS_Subset
  <1> QED BY <1>2, FS_CardinalityType

\* More places.
LEMMA MorePlaces ==
    ASSUME NEW K, IsFiniteSet(K), NEW L, L \subseteq K, NEW s, NEW x
    PROVE  Cardinality(Places(x, s, L)) <= Cardinality(Places(x, s, K))
  <1>1. Places(x, s, L) \in SUBSET Places(x, s, K)
    BY DEF Places
  <1> QED BY <1>1, PlacesType, FS_Subset

\* A stretch of p that is a copy of the beginning of s.
LEMMA Shifted ==
    ASSUME NEW d \in Nat, NEW n \in Nat, NEW p, NEW s, NEW x,
           \A k \in 1 .. n : p[d + k] = s[k]
    PROVE  Cardinality(Places(x, p, d + 1 .. d + n)) = Cardinality(Places(x, s, 1 .. n))
  <1> DEFINE P == Places(x, s, 1 .. n)
             Q == Places(x, p, d + 1 .. d + n)
             shift == [k \in P |-> d + k]
  <1>1. shift \in [P -> Q]
    <2> SUFFICES ASSUME NEW k \in 1 .. n, s[k] = x
                 PROVE  d + k \in d + 1 .. d + n /\ p[d + k] = x
      BY DEF Places
    <2> QED OBVIOUS
  <1>2. \A a, b \in P : shift[a] = shift[b] => a = b
    <2> SUFFICES ASSUME NEW a \in P, NEW b \in P, d + a = d + b PROVE a = b
      OBVIOUS
    <2>1. a \in Nat /\ b \in Nat
      BY DEF Places
    <2> HIDE DEF P
    <2> QED BY <2>1
  <1>3. \A q \in Q : \E a \in P : shift[a] = q
    <2> SUFFICES ASSUME NEW q \in d + 1 .. d + n, p[q] = x
                 PROVE  \E a \in P : d + a = q
      BY DEF Places
    <2>1. q - d \in 1 .. n /\ d + (q - d) = q
      OBVIOUS
    <2>2. q - d \in P
      BY <2>1 DEF Places
    <2> QED BY <2>1, <2>2
  <1>4. IsFiniteSet(P)
    BY FS_Interval, PlacesType
  <1>5. ExistsBijection(P, Q)
    <2> HIDE DEF P, Q, shift
    <2>1. shift \in Bijection(P, Q)
      BY <1>1, <1>2, <1>3, Fun_IsBij
    <2> QED BY <2>1 DEF ExistsBijection
  <1> HIDE DEF P, Q
  <1>6. Cardinality(Q) = Cardinality(P)
    BY <1>4, <1>5, FS_Bijection
  <1> QED BY <1>6 DEF P, Q

\* Occurrences in a sequence are its places.
LEMMA OccurrencesArePlaces ==
    ASSUME NEW T, NEW s \in Seq(T), NEW x
    PROVE  Occurrences(x, s) = Cardinality(Places(x, s, 1 .. Len(s)))
  <1>1. DOMAIN s = 1 .. Len(s)
    OBVIOUS
  <1> QED BY <1>1 DEF Occurrences, Places

\* Occurrences in a part of a sequence are places in the whole.
LEMMA OccurrencesInPart ==
    ASSUME NEW T, NEW s \in Seq(T), NEW a \in Nat, NEW b \in Nat, a <= b, b <= Len(s), NEW x
    PROVE  Occurrences(x, SubSeq(s, a + 1, b)) = Cardinality(Places(x, s, a + 1 .. b))
  <1> DEFINE r == SubSeq(s, a + 1, b)
             n == b - a
  <1>1. n \in Nat /\ b = a + n
    OBVIOUS
  <1>2. \A k \in a + 1 .. b : s[k] \in T
    OBVIOUS
  <1>3. /\ r \in Seq(T)
        /\ Len(r) = IF a + 1 <= b THEN b - (a + 1) + 1 ELSE 0
        /\ \A k \in 1 .. b - (a + 1) + 1 : r[k] = s[a + 1 + k - 1]
    BY <1>2, SubSeqProperties
  <1>4. Len(r) = n /\ b - (a + 1) + 1 = n
    BY <1>3
  <1>5. \A k \in 1 .. n : s[a + k] = r[k]
    <2> SUFFICES ASSUME NEW k \in 1 .. n PROVE s[a + k] = r[k]
      OBVIOUS
    <2>1. a + 1 + k - 1 = a + k
      OBVIOUS
    <2> HIDE DEF r, n
    <2> QED BY <1>3, <1>4, <2>1
  <1> HIDE DEF r, n
  <1>6. Cardinality(Places(x, s, a + 1 .. a + n)) = Cardinality(Places(x, r, 1 .. n))
    BY <1>1, <1>5, Shifted
  <1>7. Occurrences(x, r) = Cardinality(Places(x, r, 1 .. n))
    BY <1>3, <1>4, OccurrencesArePlaces
  <1> QED BY <1>1, <1>6, <1>7 DEF r

\* The same for the first part.
LEMMA OccurrencesInFront ==
    ASSUME NEW T, NEW s \in Seq(T), NEW b \in Nat, b <= Len(s), NEW x
    PROVE  Occurrences(x, SubSeq(s, 1, b)) = Cardinality(Places(x, s, 1 .. b))
  <1>1. PICK a \in Nat : a = 0
    OBVIOUS
  <1>2. a <= b /\ a + 1 = 1
    BY <1>1
  <1>3. Occurrences(x, SubSeq(s, a + 1, b)) = Cardinality(Places(x, s, a + 1 .. b))
    BY <1>2, OccurrencesInPart
  <1> QED BY <1>2, <1>3

\* The q-th trial of bit b and of the m-th gap in the list that is shuffled
\* for calibration.
TrialAt(per, m, q, b) == (m - 1) * (2 * per) + 2 * (q - 1) + b + 1

\* Such a place is in the list, and the list's formulas find its bit and gap.
LEMMA TrialAtShape ==
    ASSUME NEW n \in Nat, NEW per \in Nat \ {0}, NEW m \in 1 .. n, NEW q \in 1 .. per, NEW b \in Bits
    PROVE  /\ TrialAt(per, m, q, b) \in 1 .. n * per * 2
           /\ (TrialAt(per, m, q, b) - 1) % 2 = b
           /\ (TrialAt(per, m, q, b) - 1) \div (2 * per) = m - 1
           /\ (TrialAt(per, m, q, b) - 1) % (2 * per) = 2 * (q - 1) + b
  <1> DEFINE D == 2 * per
             r == 2 * (q - 1) + b
             i == r + (m - 1) * D
  <1>1. D \in Nat \ {0} /\ r \in 0 .. D - 1 /\ m - 1 \in Nat
    BY DEF Bits
  <1>2. (m - 1) * D \in Nat /\ i \in Nat
    BY <1>1
  <1>3. TrialAt(per, m, q, b) = i + 1 /\ TrialAt(per, m, q, b) - 1 = i
    <2>1. TrialAt(per, m, q, b) = i + 1
      <3>1. PICK z \in Nat : z = (m - 1) * (2 * per)
        BY <1>2
      <3>2. b \in Nat /\ 2 * (q - 1) \in Nat
        BY DEF Bits
      <3>3. z + 2 * (q - 1) + b + 1 = (2 * (q - 1) + b) + z + 1
        BY <3>2
      <3> QED BY <3>1, <3>3 DEF TrialAt
    <2> QED BY <1>2, <2>1
  <1>4. i % D = r /\ i \div D = m - 1
    <2> HIDE DEF D, r
    <2> QED BY <1>1, RemainderOf
  <1>5. i % 2 = b
    <2> DEFINE h == (m - 1) * per + (q - 1)
    <2>1. h \in Nat
      <3>1. (m - 1) * per \in Nat /\ q - 1 \in Nat
        OBVIOUS
      <3> QED BY <3>1
    <2>2. i = b + h * 2
      BY DEF Bits
    <2>3. b \in 0 .. 2 - 1
      BY DEF Bits
    <2> HIDE DEF h, i
    <2> QED BY <2>1, <2>2, <2>3, RemainderOf
  <1>6. i + 1 <= n * per * 2
    <2>1. m * D <= n * D
      <3> HIDE DEF D
      <3> QED BY <1>1, TimesKeeps
    <2>2. m * D = (m - 1) * D + D /\ n * D = n * per * 2
      OBVIOUS
    <2>3. m * D \in Nat /\ n * D \in Nat
      OBVIOUS
    <2> HIDE DEF D, r
    <2> QED BY <1>1, <1>2, <2>1, <2>2, <2>3
  <1>7. i + 1 \in 1 .. n * per * 2
    <2>1. n * per * 2 \in Nat
      OBVIOUS
    <2> HIDE DEF i
    <2> QED BY <1>2, <1>6, <2>1
  <1> HIDE DEF i
  <1> QED BY <1>3, <1>4, <1>5, <1>7 DEF D, r

\* Every place of the list is one of these.
LEMMA TrialAtAll ==
    ASSUME NEW n \in Nat, NEW per \in Nat \ {0}, NEW k \in 1 .. n * per * 2
    PROVE  \E m \in 1 .. n : \E q \in 1 .. per : \E b \in Bits :
              k = TrialAt(per, m, q, b)
  <1> DEFINE D == 2 * per
             i == k - 1
  <1>1. D \in Nat \ {0} /\ i \in Nat /\ n * per * 2 = n * D /\ n * D \in Nat
    OBVIOUS
  <1>2. PICK d \in Nat : d = i \div D
    <2> HIDE DEF D, i
    <2> QED BY <1>1, QuotientRemainder
  <1>3. PICK r \in 0 .. D - 1 : r = i % D
    <2> HIDE DEF D, i
    <2> QED BY <1>1, QuotientRemainder
  <1>4. i = r + d * D
    <2> HIDE DEF D, i
    <2> QED BY <1>1, <1>2, <1>3, QuotientRemainder
  <1>5. PICK h \in Nat : h = r \div 2
    BY <1>1
  <1>6. PICK b \in 0 .. 1 : b = r % 2
    BY <1>1
  <1>7. r = b + h * 2
    BY <1>1, <1>5, <1>6
  <1>8. d + 1 \in 1 .. n
    <2>1. ASSUME n <= d PROVE FALSE
      <3>1. n * D <= d * D
        <4> HIDE DEF D
        <4> QED BY <1>1, <2>1, TimesKeeps
      <3>2. d * D \in Nat
        OBVIOUS
      <3>3. i < n * D
        OBVIOUS
      <3> HIDE DEF D, i
      <3> QED BY <1>1, <1>4, <3>1, <3>2, <3>3
    <2> QED BY <2>1
  <1>9. h + 1 \in 1 .. per
    BY <1>7
  <1>10. k = TrialAt(per, d + 1, h + 1, b)
    <2>1. TrialAt(per, d + 1, h + 1, b) = d * D + 2 * h + b + 1
      BY DEF TrialAt
    <2>2. d * D \in Nat
      OBVIOUS
    <2>3. k = i + 1
      OBVIOUS
    <2> HIDE DEF D, i
    <2> QED BY <1>1, <1>4, <1>7, <2>1, <2>2, <2>3
  <1> QED BY <1>8, <1>9, <1>10 DEF Bits

\* Both bits of every gap are in the list `per` times, times the number of
\* times the gap is listed.
LEMMA CalibrationCounts ==
    ASSUME NEW gaps \in Seq(Nat), NEW per \in Nat, NEW g, NEW b \in Bits
    PROVE  /\ Occurrences([bit |-> b, gap |-> g], CalibrationList(gaps, per))
                  = per * Occurrences(g, gaps)
           /\ Occurrences(g, gaps) \in Nat
  <1> DEFINE n == Len(gaps)
             S == {m \in 1 .. n : gaps[m] = g}
             A == S \X (1 .. per)
             list == CalibrationList(gaps, per)
             t == [bit |-> b, gap |-> g]
             P == {k \in DOMAIN list : list[k] = t}
             place == [a \in A |-> TrialAt(per, a[1], a[2], b)]
  <1>1. n \in Nat /\ DOMAIN gaps = 1 .. n
    OBVIOUS
  <1>2. /\ DOMAIN list = 1 .. n * per * 2
        /\ \A k \in 1 .. n * per * 2 :
              list[k] = [bit |-> (k - 1) % 2, gap |-> gaps[((k - 1) \div (2 * per)) + 1]]
    BY DEF CalibrationList, CalibrationLen
  <1>3. IsFiniteSet(S) /\ Cardinality(S) = Occurrences(g, gaps) /\ Cardinality(S) \in Nat
    <2>1. S \subseteq 1 .. n /\ IsFiniteSet(1 .. n)
      BY <1>1, FS_Interval
    <2>2. Cardinality(S) = Occurrences(g, gaps)
      BY <1>1 DEF Occurrences
    <2>3. IsFiniteSet(S)
      BY <2>1, FS_Subset
    <2> QED BY <2>2, <2>3, FS_CardinalityType
  <1>4. IsFiniteSet(A) /\ Cardinality(A) = per * Cardinality(S)
    <2>1. IsFiniteSet(1 .. per) /\ Cardinality(1 .. per) = per
      <3>1. IsFiniteSet(1 .. per) /\ Cardinality(1 .. per) = IF 1 > per THEN 0 ELSE per - 1 + 1
        BY FS_Interval
      <3> QED BY <3>1
    <2> HIDE DEF S
    <2>2. IsFiniteSet(A) /\ Cardinality(A) = Cardinality(S) * Cardinality(1 .. per)
      BY <1>3, <2>1, FS_Product
    <2> QED BY <1>3, <2>1, <2>2
  <1> HIDE DEF list, n
  <1>5. ASSUME NEW m \in S, NEW q \in 1 .. per
        PROVE  /\ TrialAt(per, m, q, b) \in P
               /\ (TrialAt(per, m, q, b) - 1) \div (2 * per) = m - 1
               /\ (TrialAt(per, m, q, b) - 1) % (2 * per) = 2 * (q - 1) + b
    <2>1. PICK k : k = TrialAt(per, m, q, b)
      OBVIOUS
    <2>2. /\ k \in 1 .. n * per * 2 /\ (k - 1) % 2 = b
          /\ (k - 1) \div (2 * per) = m - 1 /\ (k - 1) % (2 * per) = 2 * (q - 1) + b
      <3>1. per \in Nat \ {0} /\ m \in 1 .. n
        OBVIOUS
      <3>2. n \in Nat
        BY <1>1
      <3>3. /\ TrialAt(per, m, q, b) \in 1 .. n * per * 2
            /\ (TrialAt(per, m, q, b) - 1) % 2 = b
            /\ (TrialAt(per, m, q, b) - 1) \div (2 * per) = m - 1
            /\ (TrialAt(per, m, q, b) - 1) % (2 * per) = 2 * (q - 1) + b
        BY <3>1, <3>2, TrialAtShape, SMTT(30)
      <3> QED BY <2>1, <3>3, Zenon
    <2>3. m - 1 + 1 = m /\ gaps[m] = g
      BY <1>1
    <2>4. list[k] = t
      BY <1>2, <2>2, <2>3
    <2> QED BY <1>2, <2>1, <2>2, <2>4
  <1>6. place \in [A -> P]
    BY <1>5
  <1>7. \A a, c \in A : place[a] = place[c] => a = c
    <2> SUFFICES ASSUME NEW m \in S, NEW q \in 1 .. per, NEW o \in S, NEW u \in 1 .. per,
                        TrialAt(per, m, q, b) = TrialAt(per, o, u, b)
                 PROVE  m = o /\ q = u
      OBVIOUS
    <2>1. m - 1 = o - 1 /\ 2 * (q - 1) + b = 2 * (u - 1) + b
      BY <1>5
    <2>2. m \in Nat /\ o \in Nat /\ q \in Nat /\ u \in Nat /\ b \in Nat
      BY <1>1 DEF Bits
    <2> QED BY <2>1, <2>2
  <1>8. \A k \in P : \E a \in A : place[a] = k
    <2> SUFFICES ASSUME NEW k \in P PROVE \E a \in A : place[a] = k
      OBVIOUS
    <2>1. k \in 1 .. n * per * 2 /\ list[k] = t
      BY <1>2
    <2>2. per \in Nat \ {0}
      BY <1>1, <2>1
    <2>3. PICK m \in 1 .. n, q \in 1 .. per, c \in Bits : k = TrialAt(per, m, q, c)
      BY <1>1, <2>1, <2>2, TrialAtAll
    <2>4. (k - 1) % 2 = c /\ (k - 1) \div (2 * per) = m - 1
      <3>1. n \in Nat
        BY <1>1
      <3>2. /\ (TrialAt(per, m, q, c) - 1) % 2 = c
            /\ (TrialAt(per, m, q, c) - 1) \div (2 * per) = m - 1
        BY <2>2, <3>1, TrialAtShape, SMTT(30)
      <3> QED BY <2>3, <3>2, Zenon
    <2>5. m - 1 + 1 = m
      BY <1>1
    <2>6. t = [bit |-> c, gap |-> gaps[m]]
      BY <1>2, <2>1, <2>4, <2>5
    <2>7. b = c /\ gaps[m] = g
      BY <2>6
    <2>8. <<m, q>> \in A /\ place[<<m, q>>] = k
      BY <2>3, <2>7
    <2> QED BY <2>8
  <1>9. ExistsBijection(A, P)
    <2> HIDE DEF A, P, place
    <2>1. place \in Bijection(A, P)
      BY <1>6, <1>7, <1>8, Fun_IsBij
    <2> QED BY <2>1 DEF ExistsBijection
  <1>10. Cardinality(P) = Cardinality(A)
    <2> HIDE DEF A, P
    <2> QED BY <1>4, <1>9, FS_Bijection
  <1>11. Cardinality(P) = Occurrences(t, list)
    BY DEF Occurrences
  <1> QED BY <1>3, <1>4, <1>10, <1>11 DEF list

-----------------------------------------------------------------------------
(* The decoder *)

\* The latencies around lo, three more for the slow bit.
Band(lo, j, slow) ==
    LET base == lo + (IF slow THEN 3 ELSE 0)
    IN  base .. base + j

\* The mean of samples from a band.
LEMMA MeanOfBand ==
    ASSUME NEW latency, NEW S, IsFiniteSet(S), S # {}, NEW lo \in Nat, NEW j \in {0, 1},
           \A k \in S : latency[k] \in lo .. lo + j
    PROVE  /\ Mean(latency, S).count \in Nat \ {0}
           /\ Mean(latency, S).sum \in Nat
           /\ Mean(latency, S).count * lo <= Mean(latency, S).sum
           /\ Mean(latency, S).sum <= Mean(latency, S).count * (lo + j)
  <1>1. Cardinality(S) \in Nat \ {0}
    BY FS_CardinalityType, FS_EmptySet
  <1>2. Mean(latency, S).count = Cardinality(S) /\ Mean(latency, S).sum = SumOver(latency, S)
    BY DEF Mean
  <1>3. SumOver(latency, S) \in Nat
    <2>1. \A k \in S : latency[k] \in Nat
      OBVIOUS
    <2> QED BY <2>1, SumType
  <1>4. /\ Cardinality(S) * lo <= SumOver(latency, S)
        /\ SumOver(latency, S) <= Cardinality(S) * (lo + j)
    <2>1. lo + j \in Nat
      OBVIOUS
    <2> QED BY <2>1, SumBounds
  <1> QED BY <1>1, <1>2, <1>3, <1>4

\* Samples of one bit around lo and of the other three above it, with a
\* jitter of at most one: every latency is decoded as the bit it comes from,
\* whichever bit is the slow one.
LEMMA DecodeRight ==
    ASSUME NEW latency, NEW Z, IsFiniteSet(Z), Z # {}, NEW O, IsFiniteSet(O), O # {},
           NEW lo \in Nat, NEW j \in {0, 1}, NEW slow \in Bits,
           \A k \in Z : latency[k] \in Band(lo, j, 0 = slow),
           \A k \in O : latency[k] \in Band(lo, j, 1 = slow),
           NEW b \in Bits, NEW x \in Band(lo, j, b = slow)
    PROVE  Decode(Mean(latency, Z), Mean(latency, O), x) = b
  <1>1. /\ Band(lo, j, TRUE) = lo + 3 .. lo + 3 + j /\ Band(lo, j, FALSE) = lo .. lo + j
        /\ lo + 3 \in Nat
    BY DEF Band
  <1>2. x \in Nat
    BY DEF Band
  <1>3. PICK zero : zero = Mean(latency, Z)
    OBVIOUS
  <1>4. PICK one : one = Mean(latency, O)
    OBVIOUS
  <1>5. CASE slow = 1
    <2>1. /\ \A k \in Z : latency[k] \in lo .. lo + j
          /\ \A k \in O : latency[k] \in lo + 3 .. lo + 3 + j
      BY <1>5 DEF Band
    <2>2. PICK n \in Nat \ {0}, low \in Nat :
              n = zero.count /\ low = zero.sum /\ n * lo <= low /\ low <= n * (lo + j)
      BY <1>3, <2>1, MeanOfBand
    <2>3. PICK m \in Nat \ {0}, high \in Nat :
              /\ m = one.count /\ high = one.sum
              /\ m * (lo + 3) <= high /\ high <= m * (lo + 3 + j)
      BY <1>1, <1>4, <2>1, MeanOfBand
    <2>4. /\ high * n > low * m
          /\ x \in lo .. lo + j => 2 * x * n * m < low * m + high * n
          /\ x \in lo + 3 .. lo + 3 + j => 2 * x * n * m >= low * m + high * n
      BY <1>2, <2>2, <2>3, MiddleSeparates
    <2>5. high * n \in Nat /\ low * m \in Nat /\ 2 * x * n * m \in Nat
      BY <1>2
    <2>6. CASE b = 1
      <3>1. x \in lo + 3 .. lo + 3 + j
        BY <1>5, <2>6 DEF Band
      <3>2. 2 * x * n * m >= low * m + high * n /\ high * n >= low * m
        BY <2>4, <2>5, <3>1
      <3>3. Decode(zero, one, x) = 1
        BY <2>2, <2>3, <3>2 DEF Decode
      <3> QED BY <1>3, <1>4, <2>6, <3>3
    <2>7. CASE b = 0
      <3>1. x \in lo .. lo + j
        BY <1>5, <2>7 DEF Band
      <3>2. ~(2 * x * n * m >= low * m + high * n) /\ high * n >= low * m
        BY <2>4, <2>5, <3>1
      <3>3. Decode(zero, one, x) = 0
        BY <2>2, <2>3, <3>2 DEF Decode
      <3> QED BY <1>3, <1>4, <2>7, <3>3
    <2> QED BY <2>6, <2>7 DEF Bits
  <1>6. CASE slow = 0
    <2>1. /\ \A k \in O : latency[k] \in lo .. lo + j
          /\ \A k \in Z : latency[k] \in lo + 3 .. lo + 3 + j
      BY <1>6 DEF Band
    <2>2. PICK n \in Nat \ {0}, low \in Nat :
              n = one.count /\ low = one.sum /\ n * lo <= low /\ low <= n * (lo + j)
      BY <1>4, <2>1, MeanOfBand
    <2>3. PICK m \in Nat \ {0}, high \in Nat :
              /\ m = zero.count /\ high = zero.sum
              /\ m * (lo + 3) <= high /\ high <= m * (lo + 3 + j)
      BY <1>1, <1>3, <2>1, MeanOfBand
    <2>4. /\ high * n > low * m
          /\ x \in lo .. lo + j => 2 * x * n * m < low * m + high * n
          /\ x \in lo + 3 .. lo + 3 + j => 2 * x * n * m >= low * m + high * n
      BY <1>2, <2>2, <2>3, MiddleSeparates
    <2>5. high * n \in Nat /\ low * m \in Nat /\ 2 * x * n * m \in Nat
      BY <1>2
    <2>6. 2 * x * m * n = 2 * x * n * m /\ high * n + low * m = low * m + high * n
      BY <1>2, <2>5
    <2>7. CASE b = 0
      <3>1. x \in lo + 3 .. lo + 3 + j
        BY <1>6, <2>7 DEF Band
      <3>2. 2 * x * m * n >= high * n + low * m /\ ~(low * m >= high * n)
        BY <2>4, <2>5, <2>6, <3>1
      <3>3. Decode(zero, one, x) = 0
        BY <2>2, <2>3, <3>2 DEF Decode
      <3> QED BY <1>3, <1>4, <2>7, <3>3
    <2>8. CASE b = 1
      <3>1. x \in lo .. lo + j
        BY <1>6, <2>8 DEF Band
      <3>2. ~(2 * x * m * n >= high * n + low * m) /\ ~(low * m >= high * n)
        BY <2>4, <2>5, <2>6, <3>1
      <3>3. Decode(zero, one, x) = 1
        BY <2>2, <2>3, <3>2 DEF Decode
      <3> QED BY <1>3, <1>4, <2>8, <3>3
    <2> QED BY <2>7, <2>8 DEF Bits
  <1> QED BY <1>5, <1>6 DEF Bits

\* The mean of samples of which some may be three above lo.
LEMMA MeanOfDiluted ==
    ASSUME NEW latency, NEW S, IsFiniteSet(S), S # {}, NEW lo \in Nat,
           \A k \in S : latency[k] \in {lo, lo + 3}
    PROVE  /\ Mean(latency, S).count \in Nat \ {0}
           /\ Mean(latency, S).sum \in Nat
           /\ Mean(latency, S).sum <= Mean(latency, S).count * (lo + 3)
           /\ (\E k \in S : latency[k] = lo + 3) =>
                  Mean(latency, S).count * lo < Mean(latency, S).sum
           /\ (\A k \in S : latency[k] = lo) =>
                  Mean(latency, S).sum = Mean(latency, S).count * lo
  <1>1. Cardinality(S) \in Nat \ {0}
    BY FS_CardinalityType, FS_EmptySet
  <1>2. Mean(latency, S).count = Cardinality(S) /\ Mean(latency, S).sum = SumOver(latency, S)
    BY DEF Mean
  <1>3. SumOver(latency, S) \in Nat
    <2>1. \A k \in S : latency[k] \in Nat
      OBVIOUS
    <2> QED BY <2>1, SumType
  <1>4. SumOver(latency, S) <= Cardinality(S) * (lo + 3)
    <2>1. lo + 3 \in Nat /\ \A k \in S : latency[k] \in lo .. lo + 3
      OBVIOUS
    <2> QED BY <2>1, SumBounds
  <1>5. ASSUME NEW e \in S, latency[e] = lo + 3
        PROVE  Cardinality(S) * lo < SumOver(latency, S)
    <2>1. latency[e] > lo /\ \A k \in S : latency[k] \in Nat /\ latency[k] >= lo
      BY <1>5
    <2> QED BY <2>1, SumAbove
  <1>6. ASSUME \A k \in S : latency[k] = lo
        PROVE  SumOver(latency, S) = Cardinality(S) * lo
    <2>1. \A k \in S : latency[k] \in lo .. lo
      BY <1>6
    <2>2. /\ Cardinality(S) * lo <= SumOver(latency, S)
          /\ SumOver(latency, S) <= Cardinality(S) * lo
      BY <2>1, SumBounds
    <2>3. PICK c \in Nat : c = Cardinality(S) * lo
      BY <1>1
    <2> QED BY <1>3, <2>2, <2>3
  <1> QED BY <1>1, <1>2, <1>3, <1>4, <1>5, <1>6

\* Samples of one bit at lo and of the other at lo or three above it: every
\* latency is decoded as the bit it comes from if one sample of the slow bit
\* is above lo, and as a one if none is.
LEMMA DecodeDiluted ==
    ASSUME NEW latency, NEW Z, IsFiniteSet(Z), Z # {}, NEW O, IsFiniteSet(O), O # {},
           NEW lo \in Nat, NEW slow \in Bits,
           \A k \in Z : latency[k] \in {lo, lo + 3} /\ (slow = 1 => latency[k] = lo),
           \A k \in O : latency[k] \in {lo, lo + 3} /\ (slow = 0 => latency[k] = lo),
           NEW b \in Bits, NEW x, x = lo + (IF b = slow THEN 3 ELSE 0)
    PROVE  Decode(Mean(latency, Z), Mean(latency, O), x) =
               IF \E k \in (IF slow = 0 THEN Z ELSE O) : latency[k] = lo + 3 THEN b ELSE 1
  <1> DEFINE mixed == \E k \in (IF slow = 0 THEN Z ELSE O) : latency[k] = lo + 3
  <1>1. x \in Nat /\ x >= lo /\ (b = slow => x = lo + 3) /\ (b # slow => x = lo)
    OBVIOUS
  <1>2. PICK zero : zero = Mean(latency, Z)
    OBVIOUS
  <1>3. PICK one : one = Mean(latency, O)
    OBVIOUS
  <1>4. CASE slow = 1
    <2>1. PICK n \in Nat \ {0} : n = zero.count /\ zero.sum = n * lo
      BY <1>2, <1>4, MeanOfDiluted
    <2>2. PICK m \in Nat \ {0}, high \in Nat :
              /\ m = one.count /\ high = one.sum /\ high <= m * (lo + 3)
              /\ mixed => m * lo < high
              /\ ~mixed => high = m * lo
      BY <1>3, <1>4, MeanOfDiluted
    <2>3. (n * lo) * m \in Nat /\ high * n \in Nat /\ 2 * x * n * m \in Nat
      BY <1>1
    <2> HIDE DEF mixed
    <2>4. CASE mixed
      <3>1. /\ high * n > (n * lo) * m
            /\ 2 * lo * n * m < (n * lo) * m + high * n
            /\ 2 * (lo + 3) * n * m >= (n * lo) * m + high * n
        BY <2>2, <2>4, MiddleOfDiluted
      <3>2. CASE b = 1
        <4>1. 2 * x * n * m >= (n * lo) * m + high * n /\ high * n >= (n * lo) * m
          BY <1>1, <1>4, <2>3, <3>1, <3>2
        <4> QED BY <1>2, <1>3, <2>1, <2>2, <2>4, <3>2, <4>1 DEF Decode, mixed
      <3>3. CASE b = 0
        <4>1. ~(2 * x * n * m >= (n * lo) * m + high * n) /\ high * n >= (n * lo) * m
          BY <1>1, <1>4, <2>3, <3>1, <3>3
        <4> QED BY <1>2, <1>3, <2>1, <2>2, <2>4, <3>3, <4>1 DEF Decode, mixed
      <3> QED BY <3>2, <3>3 DEF Bits
    <2>5. CASE ~mixed
      <3>1. high * n = (n * lo) * m /\ 2 * x * n * m >= (n * lo) * m + high * n
        BY <1>1, <2>2, <2>5, MiddleOfEqual
      <3>2. 2 * x * n * m >= (n * lo) * m + high * n /\ high * n >= (n * lo) * m
        BY <2>3, <3>1
      <3> QED BY <1>2, <1>3, <2>1, <2>2, <2>5, <3>2 DEF Decode, mixed
    <2> QED BY <2>4, <2>5
  <1>5. CASE slow = 0
    <2>1. PICK n \in Nat \ {0} : n = one.count /\ one.sum = n * lo
      BY <1>3, <1>5, MeanOfDiluted
    <2>2. PICK m \in Nat \ {0}, high \in Nat :
              /\ m = zero.count /\ high = zero.sum /\ high <= m * (lo + 3)
              /\ mixed => m * lo < high
              /\ ~mixed => high = m * lo
      <3>1. mixed <=> \E k \in Z : latency[k] = lo + 3
        BY <1>5
      <3>2. ~mixed => \A k \in Z : latency[k] = lo
        BY <3>1
      <3>3. \A k \in Z : latency[k] \in {lo, lo + 3}
        OBVIOUS
      <3> HIDE DEF mixed
      <3> QED BY <1>2, <3>1, <3>2, <3>3, MeanOfDiluted
    <2>3. (n * lo) * m \in Nat /\ high * n \in Nat /\ 2 * x * n * m \in Nat
      BY <1>1
    <2>4. 2 * x * m * n = 2 * x * n * m /\ high * n + (n * lo) * m = (n * lo) * m + high * n
      BY <1>1, <2>3
    <2> HIDE DEF mixed
    <2>5. CASE mixed
      <3>1. /\ high * n > (n * lo) * m
            /\ 2 * lo * n * m < (n * lo) * m + high * n
            /\ 2 * (lo + 3) * n * m >= (n * lo) * m + high * n
        BY <2>2, <2>5, MiddleOfDiluted
      <3>2. CASE b = 0
        <4>1. 2 * x * m * n >= high * n + (n * lo) * m /\ ~((n * lo) * m >= high * n)
          BY <1>1, <1>5, <2>3, <2>4, <3>1, <3>2
        <4> QED BY <1>2, <1>3, <2>1, <2>2, <2>5, <3>2, <4>1 DEF Decode, mixed
      <3>3. CASE b = 1
        <4>1. ~(2 * x * m * n >= high * n + (n * lo) * m) /\ ~((n * lo) * m >= high * n)
          BY <1>1, <1>5, <2>3, <2>4, <3>1, <3>3
        <4> QED BY <1>2, <1>3, <2>1, <2>2, <2>5, <3>3, <4>1 DEF Decode, mixed
      <3> QED BY <3>2, <3>3 DEF Bits
    <2>6. CASE ~mixed
      <3>1. high * n = (n * lo) * m /\ 2 * x * n * m >= (n * lo) * m + high * n
        BY <1>1, <2>2, <2>6, MiddleOfEqual
      <3>2. 2 * x * m * n >= high * n + (n * lo) * m /\ (n * lo) * m >= high * n
        BY <2>3, <2>4, <3>1
      <3> QED BY <1>2, <1>3, <2>1, <2>2, <2>6, <3>2 DEF Decode, mixed
    <2> QED BY <2>5, <2>6
  <1> QED BY <1>4, <1>5 DEF Bits

-----------------------------------------------------------------------------
(* Balance *)

\* Gaps that are listed, and the trials that are made of them.
LEMMA GapsShape ==
    ASSUME NEW gaps \in Seq(Nat), NEW per \in Nat
    PROVE  /\ CalibrationLen(gaps, per) \in Nat
           /\ IsFiniteSet(Range(gaps))
           /\ \A g \in Range(gaps) : g \in Nat /\ Occurrences(g, gaps) \in Nat \ {0}
  <1>1. Len(gaps) \in Nat /\ DOMAIN gaps = 1 .. Len(gaps) /\ \A k \in 1 .. Len(gaps) : gaps[k] \in Nat
    OBVIOUS
  <1>2. IsFiniteSet(1 .. Len(gaps))
    BY <1>1, FS_Interval
  <1>3. CalibrationLen(gaps, per) \in Nat
    <2>1. Len(gaps) * per \in Nat
      BY <1>1
    <2> QED BY <2>1 DEF CalibrationLen
  <1>4. IsFiniteSet(Range(gaps))
    <2> DEFINE f == [k \in 1 .. Len(gaps) |-> gaps[k]]
    <2>1. f \in Surjection(1 .. Len(gaps), Range(gaps))
      BY <1>1 DEF Surjection, Range
    <2> HIDE DEF f
    <2> QED BY <1>2, <2>1, FS_Surjection
  <1>5. ASSUME NEW g \in Range(gaps)
        PROVE  g \in Nat /\ Occurrences(g, gaps) \in Nat \ {0}
    <2> DEFINE S == {k \in DOMAIN gaps : gaps[k] = g}
    <2>1. PICK k \in 1 .. Len(gaps) : g = gaps[k]
      BY <1>1 DEF Range
    <2>2. S # {} /\ S \subseteq 1 .. Len(gaps)
      BY <1>1, <2>1
    <2> HIDE DEF S
    <2>3. IsFiniteSet(S)
      BY <1>2, <2>2, FS_Subset
    <2>4. Cardinality(S) \in Nat \ {0}
      BY <2>2, <2>3, FS_CardinalityType, FS_EmptySet
    <2> QED BY <1>1, <2>1, <2>4 DEF S, Occurrences
  <1> QED BY <1>3, <1>4, <1>5

\* The trials that may be in a plan.
TrialsOf(gaps) == [bit : Bits, gap : Range(gaps)]

\* A balanced plan has its calibration trials in its first places.
LEMMA CalibrationBalanced ==
    ASSUME NEW gaps \in Seq(Nat), NEW per \in Nat, NEW trials \in Nat,
           NEW plan \in Seq(TrialsOf(gaps)), IsBalanced(plan, gaps, per, trials),
           CalibrationLen(gaps, per) <= trials, NEW g \in Range(gaps), NEW b \in Bits
    PROVE  LET S == Samples(plan, CalibrationLen(gaps, per), g, b)
           IN  IsFiniteSet(S) /\ (per > 0 => S # {})
  <1> DEFINE start == CalibrationLen(gaps, per)
             t     == [bit |-> b, gap |-> g]
             S     == Samples(plan, start, g, b)
  <1>1. start \in Nat /\ Occurrences(g, gaps) \in Nat \ {0}
    BY GapsShape
  <1>2. S = Places(t, plan, 0 + 1 .. start)
    BY DEF Samples, Places
  <1>3. Len(plan) = trials /\ Occurrences(t, SubSeq(plan, 1, start)) = per * Occurrences(g, gaps)
    BY DEF IsBalanced
  <1> HIDE DEF start, t
  <1>4. Occurrences(t, SubSeq(plan, 0 + 1, start)) = Cardinality(S)
    BY <1>1, <1>2, <1>3, OccurrencesInPart DEF start
  <1>5. Cardinality(S) = per * Occurrences(g, gaps)
    BY <1>3, <1>4
  <1>6. IsFiniteSet(S)
    <2>1. IsFiniteSet(0 + 1 .. start)
      BY <1>1, FS_Interval
    <2> QED BY <1>2, <2>1, PlacesType
  <1>7. ASSUME per > 0 PROVE S # {}
    <2>1. per * Occurrences(g, gaps) # 0
      BY <1>1, <1>7
    <2> HIDE DEF S
    <2> QED BY <1>5, <2>1, FS_EmptySet
  <1> QED BY <1>6, <1>7 DEF start

\* If no gap is listed twice, the analysis takes exactly the calibration
\* trials for calibration.
LEMMA PrefixIsCalibration ==
    ASSUME NEW gaps \in Seq(Nat), NEW per \in Nat, NEW trials \in Nat,
           NEW plan \in Seq(TrialsOf(gaps)), IsBalanced(plan, gaps, per, trials),
           CalibrationLen(gaps, per) <= trials, per > 0,
           Cardinality(Range(gaps)) = Len(gaps)
    PROVE  PrefixLen(plan, per) = CalibrationLen(gaps, per)
  <1> DEFINE start == CalibrationLen(gaps, per)
  <1>1. start \in Nat /\ Len(plan) = trials
    BY GapsShape DEF IsBalanced
  <1>2. {t.gap : t \in Range(plan)} \subseteq Range(gaps)
    <2>1. ASSUME NEW k \in DOMAIN plan PROVE plan[k] \in TrialsOf(gaps)
      <3> DEFINE T == TrialsOf(gaps)
      <3>1. plan \in Seq(T)
        OBVIOUS
      <3> HIDE DEF T
      <3>2. plan[k] \in T
        BY <3>1
      <3> QED BY <3>2 DEF T
    <2>2. \A t \in Range(plan) : t \in TrialsOf(gaps)
      BY <2>1 DEF Range
    <2> QED BY <2>2 DEF TrialsOf
  <1>3. ASSUME NEW g \in Range(gaps)
        PROVE  g \in {t.gap : t \in Range(plan)}
    <2>1. 0 \in Bits
      BY DEF Bits
    <2>2. Samples(plan, start, g, 0) # {}
      BY <2>1, CalibrationBalanced
    <2>3. PICK k \in 1 .. start : plan[k] = [bit |-> 0, gap |-> g]
      BY <2>2 DEF Samples
    <2>4. k \in DOMAIN plan
      <3>1. DOMAIN plan = 1 .. Len(plan)
        OBVIOUS
      <3> QED BY <1>1, <3>1
    <2>5. plan[k] \in Range(plan) /\ plan[k].gap = g
      BY <2>3, <2>4 DEF Range
    <2> QED BY <2>5
  <1>4. {t.gap : t \in Range(plan)} = Range(gaps)
    BY <1>2, <1>3
  <1> QED BY <1>4 DEF PrefixLen, CalibrationLen

\* There are no more gaps than are listed.
LEMMA ListedWithin ==
    ASSUME NEW gaps \in Seq(Nat)
    PROVE  /\ IsFiniteSet(Range(gaps))
           /\ Cardinality(Range(gaps)) \in Nat
           /\ Cardinality(Range(gaps)) <= Len(gaps)
  <1> DEFINE f == [k \in 1 .. Len(gaps) |-> gaps[k]]
  <1>0. Len(gaps) \in Nat /\ DOMAIN gaps = 1 .. Len(gaps)
    OBVIOUS
  <1>1. f \in Surjection(1 .. Len(gaps), Range(gaps))
    BY <1>0 DEF Surjection, Range
  <1>2. IsFiniteSet(1 .. Len(gaps)) /\ Cardinality(1 .. Len(gaps)) = Len(gaps)
    <2>1. PICK n \in Nat : n = Len(gaps)
      BY <1>0
    <2>2. IsFiniteSet(1 .. n) /\ Cardinality(1 .. n) = IF 1 > n THEN 0 ELSE n - 1 + 1
      BY FS_Interval
    <2>3. Cardinality(1 .. n) = n
      BY <2>2
    <2> QED BY <2>1, <2>2, <2>3
  <1> HIDE DEF f
  <1> QED BY <1>1, <1>2, FS_Surjection, FS_CardinalityType

\* However often gaps are listed, the analysis takes no more than the
\* calibration trials for calibration.
LEMMA PrefixWithin ==
    ASSUME NEW gaps \in Seq(Nat), NEW per \in Nat, NEW plan \in Seq(TrialsOf(gaps))
    PROVE  PrefixLen(plan, per) \in Nat /\ PrefixLen(plan, per) <= CalibrationLen(gaps, per)
  <1> DEFINE G == {t.gap : t \in Range(plan)}
  <1>1. G \subseteq Range(gaps)
    <2>1. ASSUME NEW k \in DOMAIN plan PROVE plan[k] \in TrialsOf(gaps)
      <3> DEFINE T == TrialsOf(gaps)
      <3>1. plan \in Seq(T)
        OBVIOUS
      <3> HIDE DEF T
      <3>2. plan[k] \in T
        BY <3>1
      <3> QED BY <3>2 DEF T
    <2>2. \A t \in Range(plan) : t \in TrialsOf(gaps)
      BY <2>1 DEF Range
    <2> QED BY <2>2 DEF TrialsOf
  <1>2. IsFiniteSet(Range(gaps)) /\ Cardinality(Range(gaps)) <= Len(gaps)
    BY ListedWithin
  <1> HIDE DEF G
  <1>3. IsFiniteSet(G) /\ Cardinality(G) <= Cardinality(Range(gaps))
    BY <1>1, <1>2, FS_Subset
  <1>4. PICK c \in Nat, n \in Nat : c = Cardinality(G) /\ n = Len(gaps) /\ c <= n
    <2>1. Cardinality(G) \in Nat /\ Cardinality(Range(gaps)) \in Nat
      BY <1>2, <1>3, FS_CardinalityType
    <2>2. Len(gaps) \in Nat
      OBVIOUS
    <2> QED BY <1>2, <1>3, <2>1, <2>2
  <1>5. c * per \in Nat /\ n * per \in Nat /\ c * per <= n * per
    BY <1>4, TimesKeeps
  <1>6. PrefixLen(plan, per) = c * per * 2 /\ CalibrationLen(gaps, per) = n * per * 2
    BY <1>4 DEF PrefixLen, CalibrationLen, G
  <1> QED BY <1>5, <1>6

-----------------------------------------------------------------------------
(* Making a plan *)

\* What a shuffle makes of CalibrationList(gaps, per).
IsShuffle(s, gaps, per) ==
    /\ s \in Seq(TrialsOf(gaps))
    /\ Len(s) = CalibrationLen(gaps, per)
    /\ \A g \in Range(gaps), b \in Bits :
          Occurrences([bit |-> b, gap |-> g], s) = per * Occurrences(g, gaps)

\* The calibration trials and the first m blocks of a plan are balanced.
HasBlocks(plan, gaps, per, m) ==
    LET start == CalibrationLen(gaps, per)
        size  == 2 * Len(gaps)
    IN  \A g \in Range(gaps), b \in Bits :
            LET t == [bit |-> b, gap |-> g]
            IN  /\ Cardinality(Places(t, plan, 1 .. start)) = per * Occurrences(g, gaps)
                /\ \A n \in 0 .. m - 1 :
                      Cardinality(Places(t, plan, start + n * size + 1 .. start + (n + 1) * size))
                          = Occurrences(g, gaps)

\* A plan of calibration trials and m whole blocks.
IsBeginning(plan, gaps, per, m) ==
    /\ plan \in Seq(TrialsOf(gaps))
    /\ Len(plan) = CalibrationLen(gaps, per) + m * (2 * Len(gaps))
    /\ HasBlocks(plan, gaps, per, m)

\* The list itself.
LEMMA ListIsShuffle ==
    ASSUME NEW gaps \in Seq(Nat), NEW per \in Nat
    PROVE  IsShuffle(CalibrationList(gaps, per), gaps, per)
  <1> DEFINE n == CalibrationLen(gaps, per)
             s == CalibrationList(gaps, per)
             T == TrialsOf(gaps)
  <1>1. n \in Nat /\ n = Len(gaps) * per * 2 /\ Len(gaps) \in Nat /\ DOMAIN gaps = 1 .. Len(gaps)
    BY GapsShape DEF CalibrationLen
  <1>2. ASSUME NEW k \in 1 .. n
        PROVE  [bit |-> (k - 1) % 2, gap |-> gaps[((k - 1) \div (2 * per)) + 1]] \in T
    <2>1. per \in Nat \ {0}
      BY <1>1
    <2>0. PICK l \in Nat : l = Len(gaps) /\ k \in 1 .. l * per * 2
      BY <1>1
    <2>2. PICK m \in 1 .. l, q \in 1 .. per, b \in Bits : k = TrialAt(per, m, q, b)
      BY <2>0, <2>1, TrialAtAll
    <2>3. (k - 1) % 2 = b /\ (k - 1) \div (2 * per) = m - 1
      <3>1. /\ (TrialAt(per, m, q, b) - 1) % 2 = b
            /\ (TrialAt(per, m, q, b) - 1) \div (2 * per) = m - 1
        BY <2>1, TrialAtShape, SMTT(30)
      <3> QED BY <2>2, <3>1, Zenon
    <2>4. m - 1 + 1 = m /\ gaps[m] \in Range(gaps)
      BY <1>1, <2>0 DEF Range
    <2> QED BY <2>3, <2>4 DEF TrialsOf
  <1> HIDE DEF T
  <1>3. s \in [1 .. n -> T]
    BY <1>2 DEF CalibrationList
  <1>4. s \in Seq(T) /\ Len(s) = n
    <2> HIDE DEF s, n
    <2>1. s \in UNION {[1 .. m -> T] : m \in Nat}
      BY <1>1, <1>3
    <2>2. s \in Seq(T)
      BY <2>1, SeqDef, Zenon
    <2>3. DOMAIN s = 1 .. n /\ DOMAIN s = 1 .. Len(s) /\ Len(s) \in Nat
      BY <1>3, <2>2
    <2> QED BY <1>1, <2>2, <2>3
  <1> QED BY <1>4, CalibrationCounts DEF IsShuffle, T

\* One swap of the shuffle.
LEMMA SwapIsShuffle ==
    ASSUME NEW gaps, NEW per, NEW s, IsShuffle(s, gaps, per),
           NEW i \in 1 .. Len(s), NEW j \in 1 .. Len(s)
    PROVE  IsShuffle(Swap(s, i, j), gaps, per)
  <1> DEFINE T == TrialsOf(gaps)
             r == Swap(s, i, j)
             n == Len(s)
  <1>1. s \in Seq(T) /\ n = CalibrationLen(gaps, per)
    BY DEF IsShuffle
  <1> HIDE DEF T
  <1>2. n \in Nat /\ s \in [1 .. n -> T]
    BY <1>1, LenProperties
  <1>3. r \in [1 .. n -> T]
    BY <1>2 DEF Swap
  <1>4. r \in Seq(T) /\ Len(r) = n
    <2> HIDE DEF r, n
    <2>1. r \in UNION {[1 .. m -> T] : m \in Nat}
      BY <1>2, <1>3
    <2>2. r \in Seq(T)
      BY <2>1, SeqDef, Zenon
    <2>3. DOMAIN r = 1 .. n /\ DOMAIN r = 1 .. Len(r) /\ Len(r) \in Nat
      BY <1>3, <2>2
    <2> QED BY <1>2, <2>2, <2>3
  <1>5. ASSUME NEW x
        PROVE  Occurrences(x, r) = Occurrences(x, s)
    <2>1. IsFiniteSet(1 .. n) /\ 1 .. n \subseteq DOMAIN s
      BY <1>2, FS_Interval
    <2>2. \A k \in 1 .. n : r[k] = IF k = i THEN s[j] ELSE IF k = j THEN s[i] ELSE s[k]
      BY <2>1 DEF Swap
    <2>6. i \in 1 .. n /\ j \in 1 .. n
      OBVIOUS
    <2> HIDE DEF r, n
    <2>3. Cardinality(Places(x, r, 1 .. n)) = Cardinality(Places(x, s, 1 .. n))
      <3>1. Exchanged(s, r, i, j, 1 .. n)
        BY <2>2, <2>6 DEF Exchanged
      <3> QED BY <2>1, <3>1, ExchangeKeeps
    <2>4. Occurrences(x, s) = Cardinality(Places(x, s, 1 .. n))
      BY <1>1, OccurrencesArePlaces DEF n
    <2>5. Occurrences(x, r) = Cardinality(Places(x, r, 1 .. n))
      BY <1>4, OccurrencesArePlaces
    <2> QED BY <2>3, <2>4, <2>5
  <1> HIDE DEF r, n
  <1> QED BY <1>1, <1>4, <1>5 DEF IsShuffle, T, r

\* Something at the end of a sequence: its own places stay ...
LEMMA Extended ==
    ASSUME NEW T, NEW p \in Seq(T), NEW s \in Seq(T)
    PROVE  /\ p \o s \in Seq(T) /\ Len(p \o s) = Len(p) + Len(s)
           /\ \A k \in 1 .. Len(p) : (p \o s)[k] = p[k]
           /\ \A k \in 1 .. Len(s) : (p \o s)[Len(p) + k] = s[k]
  <1> DEFINE r == p \o s
             d == Len(p)
             n == Len(s)
  <1>1. /\ r \in Seq(T) /\ Len(r) = d + n /\ d \in Nat /\ n \in Nat
        /\ \A k \in 1 .. d + n : r[k] = IF k <= d THEN p[k] ELSE s[k - d]
    BY ConcatProperties
  <1> HIDE DEF r, d, n
  <1>2. \A k \in 1 .. d : r[k] = p[k]
    BY <1>1
  <1>3. \A k \in 1 .. n : r[d + k] = s[k]
    <2> SUFFICES ASSUME NEW k \in 1 .. n PROVE r[d + k] = s[k]
      OBVIOUS
    <2>1. d + k \in 1 .. d + n /\ ~(d + k <= d) /\ d + k - d = k
      BY <1>1
    <2> QED BY <1>1, <2>1
  <1> QED BY <1>1, <1>2, <1>3 DEF r, d, n

\* What is appended to a sequence leaves the places in it alone ...
LEMMA PlacesKept ==
    ASSUME NEW T, NEW p \in Seq(T), NEW s \in Seq(T), NEW x, NEW K \in SUBSET (1 .. Len(p))
    PROVE  Places(x, p \o s, K) = Places(x, p, K)
  <1>1. \A k \in K : (p \o s)[k] = p[k]
    BY Extended
  <1> QED BY <1>1 DEF Places

\* ... and what is added is counted behind them.
LEMMA PlacesAdded ==
    ASSUME NEW T, NEW p \in Seq(T), NEW s \in Seq(T), NEW x
    PROVE  Cardinality(Places(x, p \o s, Len(p) + 1 .. Len(p) + Len(s))) = Occurrences(x, s)
  <1>1. PICK d \in Nat : d = Len(p)
    OBVIOUS
  <1>2. PICK n \in Nat : n = Len(s)
    OBVIOUS
  <1>3. PICK r : r = p \o s
    OBVIOUS
  <1>4. \A k \in 1 .. n : r[d + k] = s[k]
    BY <1>1, <1>2, <1>3, Extended
  <1>5. Cardinality(Places(x, r, d + 1 .. d + n)) = Cardinality(Places(x, s, 1 .. n))
    BY <1>4, Shifted
  <1>6. Occurrences(x, s) = Cardinality(Places(x, s, 1 .. n))
    BY <1>2, OccurrencesArePlaces
  <1> QED BY <1>1, <1>2, <1>3, <1>5, <1>6

\* The shuffled calibration trials are the beginning of a plan.
LEMMA CalibrationBegins ==
    ASSUME NEW gaps \in Seq(Nat), NEW per \in Nat, NEW s, IsShuffle(s, gaps, per)
    PROVE  IsBeginning(s, gaps, per, 0)
  <1> DEFINE start == CalibrationLen(gaps, per)
             T     == TrialsOf(gaps)
  <1>1. start \in Nat /\ s \in Seq(T) /\ Len(s) = start /\ Len(gaps) \in Nat
    BY GapsShape DEF IsShuffle
  <1>2. ASSUME NEW g \in Range(gaps), NEW b \in Bits
        PROVE  Cardinality(Places([bit |-> b, gap |-> g], s, 1 .. start)) = per * Occurrences(g, gaps)
    <2> DEFINE t == [bit |-> b, gap |-> g]
    <2>1. Occurrences(t, s) = per * Occurrences(g, gaps)
      BY DEF IsShuffle
    <2> HIDE DEF t, T
    <2>2. Occurrences(t, s) = Cardinality(Places(t, s, 1 .. start))
      BY <1>1, OccurrencesArePlaces
    <2> QED BY <2>1, <2>2 DEF t
  <1>3. Len(s) = start + 0 * (2 * Len(gaps))
    BY <1>1
  <1>4. \A n \in 0 .. 0 - 1 : FALSE
    OBVIOUS
  <1> QED BY <1>1, <1>2, <1>3, <1>4 DEF IsBeginning, HasBlocks

\* Blocks do not overlap.
LEMMA BlockEnds ==
    ASSUME NEW start \in Nat, NEW size \in Nat, NEW m \in Nat, NEW n \in 0 .. m - 1
    PROVE  /\ start + n * size \in Nat /\ start + (n + 1) * size \in Nat
           /\ start + (n + 1) * size = start + n * size + size
           /\ start + m * size \in Nat
           /\ start + (n + 1) * size <= start + m * size
  <1>1. n * size \in Nat /\ (n + 1) * size \in Nat /\ m * size \in Nat
    OBVIOUS
  <1>2. (n + 1) * size <= m * size
    <2>1. n + 1 \in Nat /\ n + 1 <= m
      OBVIOUS
    <2> QED BY <2>1, TimesKeeps
  <1>3. (n + 1) * size = n * size + size
    OBVIOUS
  <1> QED BY <1>1, <1>2, <1>3

\* What a plan begins with stays when it grows.
LEMMA BeginningKept ==
    ASSUME NEW gaps \in Seq(Nat), NEW per \in Nat, NEW m \in Nat,
           NEW plan, IsBeginning(plan, gaps, per, m), NEW s \in Seq(TrialsOf(gaps))
    PROVE  HasBlocks(plan \o s, gaps, per, m)
  <1> SUFFICES ASSUME NEW g \in Range(gaps), NEW b \in Bits
               PROVE  LET start == CalibrationLen(gaps, per)
                          size  == 2 * Len(gaps)
                          t     == [bit |-> b, gap |-> g]
                      IN  /\ Cardinality(Places(t, plan \o s, 1 .. start))
                                 = per * Occurrences(g, gaps)
                          /\ \A n \in 0 .. m - 1 :
                                Cardinality(Places(t, plan \o s,
                                                   start + n * size + 1 .. start + (n + 1) * size))
                                    = Occurrences(g, gaps)
    BY DEF HasBlocks
  <1> DEFINE start == CalibrationLen(gaps, per)
             size  == 2 * Len(gaps)
             t     == [bit |-> b, gap |-> g]
             T     == TrialsOf(gaps)
             p     == plan \o s
             D     == start + m * size
             B(n)  == start + n * size + 1 .. start + (n + 1) * size
  <1>1. start \in Nat /\ size \in Nat
    BY GapsShape
  <1>2. /\ plan \in Seq(T) /\ Len(plan) = D
        /\ Cardinality(Places(t, plan, 1 .. start)) = per * Occurrences(g, gaps)
        /\ \A n \in 0 .. m - 1 : Cardinality(Places(t, plan, B(n))) = Occurrences(g, gaps)
    BY DEF IsBeginning, HasBlocks
  <1> HIDE DEF start, size, t, T
  <1>3. D \in Nat /\ start <= D
    <2>1. m * size \in Nat
      BY <1>1
    <2> QED BY <1>1, <2>1
  <1> HIDE DEF D
  <1>4. \A K \in SUBSET (1 .. D) : Places(t, p, K) = Places(t, plan, K)
    <2>1. s \in Seq(T)
      BY DEF T
    <2>2. plan \in Seq(T)
      BY <1>2
    <2>3. \A K \in SUBSET (1 .. Len(plan)) : Places(t, plan \o s, K) = Places(t, plan, K)
      BY <2>1, <2>2, PlacesKept
    <2> QED BY <1>2, <2>3
  <1>5. Cardinality(Places(t, p, 1 .. start)) = per * Occurrences(g, gaps)
    <2>1. 1 .. start \in SUBSET (1 .. D)
      BY <1>1, <1>3
    <2> QED BY <1>2, <1>4, <2>1
  <1>6. ASSUME NEW n \in 0 .. m - 1
        PROVE  Cardinality(Places(t, p, B(n))) = Occurrences(g, gaps)
    <2>1. PICK a \in Nat : a = start + n * size
      BY <1>1, BlockEnds
    <2>2. PICK e \in Nat : e = start + (n + 1) * size /\ e <= D
      BY <1>1, BlockEnds DEF D
    <2>3. B(n) \in SUBSET (1 .. D)
      <3>1. a + 1 .. e \subseteq 1 .. D
        BY <1>3, <2>2
      <3> QED BY <2>1, <2>2, <3>1
    <2> HIDE DEF B, p
    <2> QED BY <1>2, <1>4, <2>3
  <1> QED BY <1>5, <1>6 DEF start, size, t

\* A whole block more.
LEMMA BlockAdded ==
    ASSUME NEW gaps \in Seq(Nat), NEW per \in Nat, NEW m \in Nat,
           NEW plan, IsBeginning(plan, gaps, per, m), NEW s, IsShuffle(s, gaps, 1)
    PROVE  IsBeginning(plan \o s, gaps, per, m + 1)
  <1> DEFINE start == CalibrationLen(gaps, per)
             size  == 2 * Len(gaps)
             T     == TrialsOf(gaps)
             p     == plan \o s
             D     == start + m * size
  <1>1. start \in Nat /\ size \in Nat /\ s \in Seq(T) /\ Len(s) = size
    BY GapsShape DEF IsShuffle, CalibrationLen
  <1>2. plan \in Seq(T) /\ Len(plan) = D
    BY DEF IsBeginning
  <1>3. D \in Nat /\ D + size = start + (m + 1) * size
    <2> HIDE DEF start, size
    <2>1. m * size \in Nat /\ (m + 1) * size = m * size + size
      BY <1>1
    <2> QED BY <1>1, <2>1
  <1>4. p \in Seq(T) /\ Len(p) = start + (m + 1) * size
    <2> HIDE DEF start, size, T, D
    <2> QED BY <1>1, <1>2, <1>3, Extended
  <1>5. ASSUME NEW g \in Range(gaps), NEW b \in Bits
        PROVE  LET t == [bit |-> b, gap |-> g]
               IN  /\ Cardinality(Places(t, p, 1 .. start)) = per * Occurrences(g, gaps)
                   /\ \A n \in 0 .. (m + 1) - 1 :
                         Cardinality(Places(t, p, start + n * size + 1 .. start + (n + 1) * size))
                             = Occurrences(g, gaps)
    <2> DEFINE t    == [bit |-> b, gap |-> g]
               B(n) == start + n * size + 1 .. start + (n + 1) * size
    <2>1. /\ Cardinality(Places(t, p, 1 .. start)) = per * Occurrences(g, gaps)
          /\ \A n \in 0 .. m - 1 : Cardinality(Places(t, p, B(n))) = Occurrences(g, gaps)
      <3>1. HasBlocks(p, gaps, per, m)
        BY <1>1, BeginningKept
      <3> QED BY <3>1 DEF HasBlocks
    <2>2. Occurrences(t, s) = Occurrences(g, gaps)
      <3>1. Occurrences(g, gaps) \in Nat
        BY GapsShape
      <3>2. Occurrences(t, s) = 1 * Occurrences(g, gaps)
        BY DEF IsShuffle
      <3> QED BY <3>1, <3>2
    <2> HIDE DEF start, size, t, T, D
    <2>3. Cardinality(Places(t, p, D + 1 .. D + size)) = Occurrences(t, s)
      <3>1. plan \in Seq(T) /\ s \in Seq(T)
        BY <1>1, <1>2
      <3>2. Cardinality(Places(t, plan \o s, Len(plan) + 1 .. Len(plan) + Len(s)))
                = Occurrences(t, s)
        BY <3>1, PlacesAdded
      <3> QED BY <1>1, <1>2, <3>2
    <2>4. B(m) = D + 1 .. D + size
      BY <1>3 DEF D
    <2>5. \A n \in 0 .. (m + 1) - 1 : n \in 0 .. m - 1 \/ n = m
      OBVIOUS
    <2>6. \A n \in 0 .. (m + 1) - 1 : Cardinality(Places(t, p, B(n))) = Occurrences(g, gaps)
      <3> HIDE DEF B, p
      <3> QED BY <2>1, <2>2, <2>3, <2>4, <2>5
    <2> QED BY <2>1, <2>6 DEF t
  <1> HIDE DEF p
  <1> QED BY <1>4, <1>5 DEF IsBeginning, HasBlocks, p

\* The beginning of a block at the end of a plan.
LEMMA CutBlock ==
    ASSUME NEW T, NEW plan \in Seq(T), NEW s \in Seq(T), NEW room \in Nat, room <= Len(s), NEW t
    PROVE  Cardinality(Places(t, plan \o SubSeq(s, 1, room), Len(plan) + 1 .. Len(plan) + room))
               = Cardinality(Places(t, s, 1 .. room))
  <1>0. PICK c : c = SubSeq(s, 1, room)
    OBVIOUS
  <1>1. c \in Seq(T) /\ Len(c) = room
    <2>1. \A k \in 1 .. room : s[k] \in T
      OBVIOUS
    <2>2. /\ SubSeq(s, 1, room) \in Seq(T)
          /\ Len(SubSeq(s, 1, room)) = IF 1 <= room THEN room - 1 + 1 ELSE 0
      BY <2>1, SubSeqProperties
    <2> QED BY <1>0, <2>2
  <1>2. Cardinality(Places(t, plan \o c, Len(plan) + 1 .. Len(plan) + Len(c))) = Occurrences(t, c)
    BY <1>1, PlacesAdded
  <1>3. Occurrences(t, c) = Cardinality(Places(t, s, 1 .. room))
    BY <1>0, OccurrencesInFront
  <1> QED BY <1>0, <1>1, <1>2, <1>3

\* The last block, as much of it as the plan has room for.
LEMMA PlanMade ==
    ASSUME NEW gaps \in Seq(Nat), gaps # << >>, NEW per \in Nat, NEW trials \in Nat, NEW m \in Nat,
           NEW plan, IsBeginning(plan, gaps, per, m), NEW s, IsShuffle(s, gaps, 1),
           Len(plan) < trials, trials - Len(plan) <= Len(s)
    PROVE  /\ plan \o SubSeq(s, 1, trials - Len(plan)) \in Seq(TrialsOf(gaps))
           /\ Len(plan \o SubSeq(s, 1, trials - Len(plan))) = trials
           /\ IsBalanced(plan \o SubSeq(s, 1, trials - Len(plan)), gaps, per, trials)
  <1> DEFINE T == TrialsOf(gaps)
  <1>1. PICK start \in Nat : start = CalibrationLen(gaps, per)
    BY GapsShape
  <1>2. PICK size \in Nat \ {0} : size = 2 * Len(gaps)
    <2>1. Len(gaps) \in Nat \ {0}
      OBVIOUS
    <2> QED BY <2>1
  <1>3. PICK D \in Nat : D = Len(plan) /\ D = start + m * size /\ plan \in Seq(T)
    <2>1. plan \in Seq(T) /\ Len(plan) = start + m * size
      BY <1>1, <1>2 DEF IsBeginning
    <2>2. start + m * size \in Nat
      OBVIOUS
    <2> QED BY <2>1, <2>2
  <1>31. PICK z \in Nat : z = m * size /\ D = start + z
    BY <1>3
  <1>32. D = start + z
    BY <1>31
  <1>4. PICK room \in Nat : room = trials - Len(plan) /\ room > 0 /\ room <= size /\ D + room = trials
    <2>1. Len(s) = size
      BY <1>2 DEF IsShuffle, CalibrationLen
    <2> QED BY <1>3, <2>1
  <1>5. s \in Seq(T) /\ Len(s) = size
    BY <1>2 DEF IsShuffle, CalibrationLen
  <1>6. PICK c : c = SubSeq(s, 1, room)
    OBVIOUS
  <1> HIDE DEF T
  <1>7. c \in Seq(T) /\ Len(c) = room
    <2>1. \A k \in 1 .. room : s[k] \in T
      BY <1>4, <1>5
    <2>2. /\ SubSeq(s, 1, room) \in Seq(T)
          /\ Len(SubSeq(s, 1, room)) = IF 1 <= room THEN room - 1 + 1 ELSE 0
      BY <2>1, SubSeqProperties
    <2> QED BY <1>4, <1>6, <2>2
  <1>8. PICK r : r = plan \o c
    OBVIOUS
  <1>9. r \in Seq(T) /\ Len(r) = trials
    BY <1>3, <1>4, <1>7, <1>8, Extended
  <1>10. HasBlocks(r, gaps, per, m)
    BY <1>7, <1>8, BeginningKept DEF T
  <1>11. ASSUME NEW n \in 0 .. ((trials - start - 1) \div size)
         PROVE  n \in 0 .. m
    <2>1. trials - start - 1 \in Nat
      <3>1. m * size \in Nat
        OBVIOUS
      <3> QED BY <1>3, <1>4, <3>1
    <2>2. n \in Nat /\ n <= (trials - start - 1) \div size
      BY <2>1, QuotientFits
    <2>3. n * size <= trials - start - 1
      BY <2>1, <2>2, QuotientFits
    <2>4. ASSUME m + 1 <= n PROVE FALSE
      <3>1. (m + 1) * size <= n * size
        <4>1. m + 1 \in Nat
          OBVIOUS
        <4> QED BY <2>2, <2>4, <4>1, TimesKeeps
      <3>2. (m + 1) * size = m * size + size /\ m * size \in Nat /\ n * size \in Nat
        BY <2>2
      <3>3. PICK y \in Nat : y = n * size
        BY <3>2
      <3>4. z + size <= y /\ y <= trials - start - 1
        BY <1>31, <2>3, <3>1, <3>2, <3>3
      <3> QED BY <1>31, <1>4, <3>4
    <2> QED BY <2>2, <2>4
  <1> DEFINE E(n)     == IF start + (n + 1) * size < trials THEN start + (n + 1) * size ELSE trials
             Block(n) == SubSeq(r, start + n * size + 1, E(n))
  <1>12. ASSUME NEW g \in Range(gaps), NEW b \in Bits
         PROVE  LET t == [bit |-> b, gap |-> g]
                IN  /\ Occurrences(t, SubSeq(r, 1, start)) = per * Occurrences(g, gaps)
                    /\ \A n \in 0 .. ((trials - start - 1) \div size) :
                          IF Len(Block(n)) = size
                            THEN Occurrences(t, Block(n)) = Occurrences(g, gaps)
                            ELSE Occurrences(t, Block(n)) <= Occurrences(g, gaps)
    <2>1. PICK t : t = [bit |-> b, gap |-> g]
      OBVIOUS
    <2>2. PICK L \in Nat : L = Occurrences(g, gaps)
      BY GapsShape
    <2>3. /\ Cardinality(Places(t, r, 1 .. start)) = per * L
          /\ \A n \in 0 .. m - 1 :
                Cardinality(Places(t, r, start + n * size + 1 .. start + (n + 1) * size)) = L
      BY <1>1, <1>2, <1>10, <2>1, <2>2 DEF HasBlocks
    <2>4. Occurrences(t, s) = L
      <3>1. Occurrences(t, s) = 1 * L
        BY <2>1, <2>2 DEF IsShuffle
      <3> QED BY <3>1
    <2>5. Occurrences(t, SubSeq(r, 1, start)) = per * L
      <3>1. start <= Len(r)
        <4>1. D + room = trials /\ Len(r) = trials
          BY <1>4, <1>9
        <4> QED BY <1>32, <4>1
      <3>2. Occurrences(t, SubSeq(r, 1, start)) = Cardinality(Places(t, r, 1 .. start))
        <4>1. r \in Seq(T)
          BY <1>9
        <4> QED BY <3>1, <4>1, OccurrencesInFront, Zenon
      <3> QED BY <2>3, <3>2
    <2>6. ASSUME NEW n \in 0 .. m - 1
          PROVE  Occurrences(t, Block(n)) = L
      <3>1. PICK a \in Nat : a = start + n * size
        BY BlockEnds
      <3>2. PICK e \in Nat : e = start + (n + 1) * size /\ a <= e /\ e <= D
        BY <1>3, <3>1, BlockEnds
      <3>3. E(n) = e
        BY <1>4, <3>2
      <3>4. e <= Len(r)
        BY <1>4, <1>9, <3>2
      <3>5. Occurrences(t, SubSeq(r, a + 1, e)) = Cardinality(Places(t, r, a + 1 .. e))
        BY <1>9, <3>2, <3>4, OccurrencesInPart
      <3>6. Cardinality(Places(t, r, a + 1 .. e)) = L
        BY <2>3, <3>1, <3>2
      <3> QED BY <3>1, <3>3, <3>5, <3>6
    <2>7. /\ Len(Block(m)) = size => Occurrences(t, Block(m)) = L
          /\ Occurrences(t, Block(m)) <= L
      <3>1. E(m) = trials
        <4>1. (m + 1) * size = m * size + size /\ m * size \in Nat
          OBVIOUS
        <4> QED BY <1>3, <1>4, <4>1
      <3>2. Block(m) = SubSeq(r, D + 1, trials)
        BY <1>3, <3>1
      <3>3. Occurrences(t, SubSeq(r, D + 1, trials)) = Cardinality(Places(t, r, D + 1 .. trials))
        <4>1. D <= trials /\ trials <= Len(r)
          BY <1>4, <1>9
        <4> QED BY <1>9, <4>1, OccurrencesInPart
      <3>4. Cardinality(Places(t, r, D + 1 .. trials)) = Cardinality(Places(t, s, 1 .. room))
        <4>1. Cardinality(Places(t, plan \o SubSeq(s, 1, room), Len(plan) + 1 .. Len(plan) + room))
                  = Cardinality(Places(t, s, 1 .. room))
          <5>1. plan \in Seq(T) /\ s \in Seq(T) /\ room <= Len(s)
            BY <1>3, <1>4, <1>5
          <5> QED BY <5>1, CutBlock
        <4>2. Cardinality(Places(t, r, D + 1 .. D + room)) = Cardinality(Places(t, s, 1 .. room))
          BY <1>3, <1>6, <1>8, <4>1
        <4> QED BY <1>4, <4>2
      <3>5. Cardinality(Places(t, s, 1 .. size)) = L
        BY <1>5, <2>4, OccurrencesArePlaces
      <3>6. Cardinality(Places(t, s, 1 .. room)) <= Cardinality(Places(t, s, 1 .. size))
        <4>1. IsFiniteSet(1 .. size)
          BY FS_Interval
        <4>2. 1 .. room \subseteq 1 .. size
          BY <1>4
        <4> QED BY <4>1, <4>2, MorePlaces
      <3>7. Len(Block(m)) = room
        <4>1. \A k \in D + 1 .. trials : r[k] \in T
          BY <1>9
        <4>2. Len(SubSeq(r, D + 1, trials)) = IF D + 1 <= trials THEN trials - (D + 1) + 1 ELSE 0
          BY <4>1, SubSeqProperties
        <4>3. D + 1 <= trials /\ trials - (D + 1) + 1 = room
          BY <1>4
        <4> HIDE DEF Block
        <4> QED BY <3>2, <4>2, <4>3
      <3> HIDE DEF Block
      <3>8. Occurrences(t, Block(m)) = Cardinality(Places(t, s, 1 .. room))
        BY <3>2, <3>3, <3>4
      <3> QED BY <3>5, <3>6, <3>7, <3>8
    <2> HIDE DEF Block
    <2>8. ASSUME NEW n \in 0 .. ((trials - start - 1) \div size)
          PROVE  IF Len(Block(n)) = size THEN Occurrences(t, Block(n)) = L
                                         ELSE Occurrences(t, Block(n)) <= L
      <3>1. n \in 0 .. m - 1 \/ n = m
        BY <1>11
      <3> QED BY <2>6, <2>7, <3>1
    <2> QED BY <2>1, <2>2, <2>5, <2>8
  <1>13. IsBalanced(r, gaps, per, trials)
    BY <1>1, <1>2, <1>9, <1>12 DEF IsBalanced
  <1> QED BY <1>4, <1>6, <1>8, <1>9, <1>13 DEF T
=============================================================================
