------------------------------ MODULE NumberProofs ------------------------------
(***************************************************************************)
(* Facts about natural numbers, and about sums over finite sets, that the  *)
(* proofs of several modules share.                                        *)
(***************************************************************************)
EXTENDS Integers, FiniteSetsExt, FiniteSetTheorems, WellFoundedInduction, TLAPS

\* Quotient and remainder.
LEMMA DivIs ==
  ASSUME NEW p \in Nat \ {0}, NEW a \in Nat
  PROVE  /\ a \div p \in Nat /\ a % p \in 0..(p - 1)
         /\ a = p * (a \div p) + (a % p)
OBVIOUS

LEMMA ModSmall ==
  ASSUME NEW k \in Nat \ {0}, NEW i \in 0..(k - 1)
  PROVE  i % k = i
OBVIOUS

LEMMA MulMono ==
  ASSUME NEW p \in Nat, NEW a \in Int, NEW b \in Int, a <= b
  PROVE  p * a <= p * b
OBVIOUS

LEMMA QuotientIs ==
  ASSUME NEW p \in Nat \ {0}, NEW q \in Nat, NEW r \in 0..(p - 1)
  PROVE  (p * q + r) \div p = q /\ (p * q + r) % p = r
<1> DEFINE a == p * q + r
           d == a \div p
           m == a % p
<1>1. a \in Nat /\ p * q \in Nat
  OBVIOUS
<1>2. d \in Nat /\ m \in 0..(p - 1) /\ a = p * d + m
  BY <1>1, DivIs
<1>3. d <= q
  <2>1. SUFFICES ASSUME q + 1 <= d PROVE FALSE
    BY <1>2
  <2>2. p * (q + 1) <= p * d
    BY <1>2, <2>1, MulMono
  <2>3. p * (q + 1) = p * q + p
    OBVIOUS
  <2> QED
    BY <1>2, <2>2, <2>3
<1>4. q <= d
  <2>1. SUFFICES ASSUME d + 1 <= q PROVE FALSE
    BY <1>2
  <2>2. p * (d + 1) <= p * q
    BY <1>2, <2>1, MulMono
  <2>3. p * (d + 1) = p * d + p
    BY <1>2
  <2> QED
    BY <1>2, <2>2, <2>3
<1>5. d = q
  BY <1>2, <1>3, <1>4
<1> QED
  BY <1>1, <1>2, <1>5

LEMMA MultipleIs ==
  ASSUME NEW p \in Nat \ {0}, NEW q \in Nat
  PROVE  (p * q) % p = 0
<1>1. 0 \in 0..(p - 1) /\ p * q + 0 = p * q
  OBVIOUS
<1>2. (p * q + 0) % p = 0
  BY <1>1, QuotientIs
<1> QED
  BY <1>1, <1>2

\* Remainders of sums.
LEMMA ModShift ==
  ASSUME NEW p \in Nat \ {0}, NEW q \in Nat, NEW m \in Nat
  PROVE  (p * q + m) % p = m % p
<1> DEFINE d == m \div p
           r == m % p
<1>1. d \in Nat /\ r \in 0..(p - 1) /\ m = p * d + r
  BY DivIs
<1> HIDE DEF d, r
<1>2. q + d \in Nat /\ p * (q + d) + r = p * q + m
  BY <1>1
<1>3. (p * (q + d) + r) % p = r
  BY <1>1, <1>2, QuotientIs
<1> QED
  BY <1>2, <1>3 DEF r

LEMMA ModSum ==
  ASSUME NEW p \in Nat \ {0}, NEW a \in Nat, NEW b \in Nat
  PROVE  (a + b) % p = ((a % p) + (b % p)) % p
<1> DEFINE q == a \div p
           r == a % p
           d == b \div p
           e == b % p
<1>1. /\ q \in Nat /\ r \in 0..(p - 1) /\ a = p * q + r
      /\ d \in Nat /\ e \in 0..(p - 1) /\ b = p * d + e
  BY DivIs
<1> HIDE DEF q, r, d, e
<1>2. q + d \in Nat /\ r + e \in Nat /\ p * (q + d) + (r + e) = a + b
  BY <1>1
<1>3. (p * (q + d) + (r + e)) % p = (r + e) % p
  BY <1>2, ModShift
<1> QED
  BY <1>2, <1>3 DEF r, e

\* Two numbers that are the same to a counter of width p.
Same(p, a, b) == a % p = b % p

LEMMA SameSums ==
  ASSUME NEW p \in Nat \ {0}, NEW a \in Nat, NEW b \in Nat, NEW c \in Nat, NEW d \in Nat,
         Same(p, a, c), Same(p, b, d)
  PROVE  Same(p, a + b, c + d)
<1>1. (a + b) % p = ((a % p) + (b % p)) % p
  BY ModSum, Zenon
<1>2. (c + d) % p = ((c % p) + (d % p)) % p
  BY ModSum, Zenon
<1>3. a % p = c % p /\ b % p = d % p
  BY Zenon DEF Same
<1> QED
  BY <1>1, <1>2, <1>3, Zenon DEF Same

\* The same for two sums that run side by side.
LEMMA SameTwoSums ==
  ASSUME NEW p \in Nat \ {0}, NEW a \in Nat, NEW b \in Nat, NEW c \in Nat,
         NEW d \in Nat, NEW e \in Nat, NEW f \in Nat, Same(p, a + b, c), Same(p, d + e, f)
  PROVE  Same(p, (a + d) + (b + e), c + f)
<1>1. a + b \in Nat /\ d + e \in Nat /\ (a + d) + (b + e) = (a + b) + (d + e)
  OBVIOUS
<1>2. Same(p, (a + b) + (d + e), c + f)
  BY <1>1, SameSums
<1> QED
  BY <1>1, <1>2

LEMMA ModMod ==
  ASSUME NEW p \in Nat \ {0}, NEW a \in Nat
  PROVE  a % p \in Nat /\ Same(p, a % p, a)
<1>1. a % p \in 0..(p - 1) /\ p * 0 + (a % p) = a % p
  BY DivIs
<1>2. (p * 0 + (a % p)) % p = a % p
  BY <1>1, QuotientIs
<1> QED
  BY <1>1, <1>2 DEF Same

\* A set of natural numbers has a least element, and a bounded one a greatest.
LEMMA SmallestOf ==
  ASSUME NEW S, S \subseteq Nat, S # {}
  PROVE  \E m \in S : \A y \in S : m <= y
<1> DEFINE R == OpToRel(<, Nat)
<1>1. \E m \in S : \A y \in S : ~(<<y, m>> \in R)
  <2>1. IsWellFoundedOn(R, Nat)
    BY NatLessThanWellFounded
  <2> HIDE DEF R
  <2> QED
    BY <2>1, WFMin
<1>2. \A y, m \in Nat : y < m => <<y, m>> \in R
  BY DEF OpToRel
<1> HIDE DEF R
<1>3. PICK m \in S : \A y \in S : ~(<<y, m>> \in R)
  BY <1>1
<1>4. ASSUME NEW y \in S PROVE m <= y
  <2>1. ~(y < m)
    BY <1>2, <1>3
  <2> QED
    BY <2>1
<1> QED
  BY <1>4

LEMMA MinIs ==
  ASSUME NEW S, S \subseteq Nat, S # {}
  PROVE  Min(S) \in S /\ \A y \in S : Min(S) <= y
BY SmallestOf DEF Min

LEMMA LargestOf ==
  ASSUME NEW S, S \subseteq Nat, S # {}, NEW b \in Nat, \A y \in S : y <= b
  PROVE  \E m \in S : \A y \in S : y <= m
<1> DEFINE T == {b - y : y \in S}
<1>1. T \subseteq Nat /\ T # {}
  <2>1. \A y \in S : b - y \in Nat
    OBVIOUS
  <2> QED
    BY <2>1
<1>2. PICK t \in T : \A y \in T : t <= y
  BY <1>1, SmallestOf
<1>3. PICK m \in S : t = b - m
  OBVIOUS
<1>4. ASSUME NEW y \in S PROVE y <= m
  <2>1. t <= b - y
    BY <1>2
  <2> QED
    BY <1>3, <2>1
<1> QED
  BY <1>4

---------------------------------------------------------------------------
\* Induction, for a set of numbers.
LEMMA AllNumbers ==
  ASSUME NEW G, 0 \in G, \A n \in Nat : n \in G => n + 1 \in G
  PROVE  Nat \subseteq G
<1> SUFFICES ASSUME Nat \ G # {} PROVE FALSE
  OBVIOUS
<1>1. PICK m \in Nat \ G : \A y \in Nat \ G : m <= y
  BY SmallestOf
<1>2. m - 1 \in Nat /\ (m - 1) + 1 = m /\ ~(m <= m - 1)
  BY <1>1
<1>3. m - 1 \in G
  BY <1>1, <1>2
<1> QED
  BY <1>1, <1>2, <1>3

\* The element by which a sum goes on.
Pick(s) == CHOOSE x \in s : TRUE

\* Induction, for a set of subsets of a finite set.
LEMMA AllSubsets ==
  ASSUME NEW S, IsFiniteSet(S), NEW G, {} \in G,
         \A s \in SUBSET S : s # {} /\ s \ {Pick(s)} \in G => s \in G
  PROVE  SUBSET S \subseteq G
<1> DEFINE N == {n \in Nat : \A s \in SUBSET S : Cardinality(s) = n => s \in G}
<1>1. \A s \in SUBSET S : IsFiniteSet(s) /\ Cardinality(s) \in Nat
                          /\ (Cardinality(s) = 0 <=> s = {})
  BY FS_Subset, FS_CardinalityType, FS_EmptySet
<1>2. \A s \in SUBSET S : s # {} => Cardinality(s \ {Pick(s)}) = Cardinality(s) - 1
  <2> SUFFICES ASSUME NEW s \in SUBSET S, s # {}
               PROVE  Cardinality(s \ {Pick(s)}) = Cardinality(s) - 1
    OBVIOUS
  <2>1. Pick(s) \in s
    BY DEF Pick
  <2> QED
    BY <1>1, <2>1, FS_RemoveElement
<1>3. 0 \in N
  BY <1>1
<1>4. ASSUME NEW n \in Nat, n \in N PROVE n + 1 \in N
  <2> SUFFICES ASSUME NEW s \in SUBSET S, Cardinality(s) = n + 1 PROVE s \in G
    OBVIOUS
  <2>1. s # {} /\ s \ {Pick(s)} \in SUBSET S /\ Cardinality(s \ {Pick(s)}) = n
    BY <1>1, <1>2
  <2> QED
    BY <1>4, <2>1
<1>5. Nat \subseteq N
  <2> HIDE DEF N
  <2> QED
    BY <1>3, <1>4, AllNumbers
<1> QED
  BY <1>1, <1>5

---------------------------------------------------------------------------
(***************************************************************************)
(* MapThenSumSet is a function on the subsets, chosen by its own equation. *)
(***************************************************************************)

Plus(f, g, s) == IF s = {} THEN 0 ELSE f[Pick(s)] + g[s \ {Pick(s)}]

\* g sums f up over the subsets with at most n elements.
Sums(f, S, g, n) ==
  \A s \in SUBSET S : Cardinality(s) <= n => g[s] \in Nat /\ g[s] = Plus(f, g, s)

LEMMA SumsExist ==
  ASSUME NEW S, IsFiniteSet(S), NEW f, \A x \in S : f[x] \in Nat, NEW n \in Nat
  PROVE  \E g : Sums(f, S, g, n)
<1> DEFINE N == {k \in Nat : \E g : Sums(f, S, g, k)}
<1>1. \A s \in SUBSET S : IsFiniteSet(s) /\ Cardinality(s) \in Nat
                          /\ (Cardinality(s) = 0 <=> s = {})
  BY FS_Subset, FS_CardinalityType, FS_EmptySet
<1>2. \A s \in SUBSET S :
        s # {} => /\ Pick(s) \in S /\ s \ {Pick(s)} \in SUBSET S
                  /\ Cardinality(s \ {Pick(s)}) = Cardinality(s) - 1
  <2> SUFFICES ASSUME NEW s \in SUBSET S, s # {}
               PROVE  /\ Pick(s) \in S /\ s \ {Pick(s)} \in SUBSET S
                      /\ Cardinality(s \ {Pick(s)}) = Cardinality(s) - 1
    OBVIOUS
  <2>1. Pick(s) \in s
    BY DEF Pick
  <2> QED
    BY <1>1, <2>1, FS_RemoveElement
<1>3. 0 \in N
  <2> DEFINE z == [s \in SUBSET S |-> 0]
  <2>1. \A s \in SUBSET S : Cardinality(s) <= 0 => s = {}
    BY <1>1
  <2>2. Sums(f, S, z, 0)
    BY <2>1 DEF Sums, Plus
  <2> QED
    BY <2>2
<1>4. ASSUME NEW k \in Nat, k \in N PROVE k + 1 \in N
  <2>1. PICK g : Sums(f, S, g, k)
    BY <1>4
  <2> DEFINE h == [s \in SUBSET S |-> Plus(f, g, s)]
  <2>2. \A s \in SUBSET S : Cardinality(s) <= k => h[s] = g[s]
    BY <2>1 DEF Sums
  <2>3. ASSUME NEW s \in SUBSET S, Cardinality(s) <= k + 1
        PROVE  h[s] \in Nat /\ h[s] = Plus(f, h, s)
    <3>1. CASE s = {}
      BY <3>1 DEF Plus
    <3>2. CASE s # {}
      <4> DEFINE t == s \ {Pick(s)}
      <4>1. t \in SUBSET S /\ Cardinality(t) <= k /\ f[Pick(s)] \in Nat
        BY <1>1, <1>2, <2>3, <3>2
      <4>2. h[t] = g[t] /\ g[t] \in Nat
        BY <2>1, <2>2, <4>1 DEF Sums
      <4> HIDE DEF t
      <4>3. Plus(f, g, s) = f[Pick(s)] + g[t] /\ Plus(f, h, s) = f[Pick(s)] + h[t]
        BY <3>2 DEF Plus, t
      <4>4. h[s] = Plus(f, g, s)
        OBVIOUS
      <4> HIDE DEF h
      <4> QED
        BY <4>1, <4>2, <4>3, <4>4
    <3> QED
      BY <3>1, <3>2
  <2> HIDE DEF h
  <2>4. Sums(f, S, h, k + 1)
    BY <2>3 DEF Sums
  <2> QED
    BY <2>4
<1>5. Nat \subseteq N
  <2> HIDE DEF N
  <2> QED
    BY <1>3, <1>4, AllNumbers
<1> QED
  BY <1>5

\* A function that sums f up over all subsets, the one of MapThenSumSet among them.
IsSum(f, S, g) == \A s \in SUBSET S : g[s] \in Nat /\ g[s] = Plus(f, g, s)

Total(f, S) == MapThenSumSet(LAMBDA x : f[x], S)

LEMMA SumIs ==
  ASSUME NEW S, IsFiniteSet(S), NEW f, \A x \in S : f[x] \in Nat
  PROVE  \E g : IsSum(f, S, g) /\ Total(f, S) = g[S]
<1> DEFINE G == CHOOSE h : h = [s \in SUBSET S |-> Plus(f, h, s)]
<1>1. Total(f, S) = G[S]
  BY DEF Total, MapThenSumSet, MapThenFoldSet, Plus, Pick
<1>2. \A s \in SUBSET S : Cardinality(s) \in Nat /\ Cardinality(s) <= Cardinality(S)
  BY FS_Subset, FS_CardinalityType
<1>3. Cardinality(S) \in Nat
  BY FS_CardinalityType
<1>4. PICK g : Sums(f, S, g, Cardinality(S))
  BY <1>3, SumsExist
<1> DEFINE h == [s \in SUBSET S |-> g[s]]
<1>5. h = [s \in SUBSET S |-> Plus(f, h, s)]
  <2>1. ASSUME NEW s \in SUBSET S PROVE h[s] = Plus(f, h, s)
    <3>1. s \ {Pick(s)} \in SUBSET S
      OBVIOUS
    <3>2. Plus(f, h, s) = Plus(f, g, s)
      BY <3>1 DEF Plus
    <3> QED
      BY <1>2, <1>4, <3>2 DEF Sums
  <2> QED
    BY <2>1
<1>6. G = [s \in SUBSET S |-> Plus(f, G, s)]
  BY <1>5
<1> HIDE DEF G, h
<1>7. ASSUME NEW s \in SUBSET S PROVE G[s] = Plus(f, G, s)
  BY <1>6
<1>8. \A s \in SUBSET S : G[s] \in Nat
  <2> DEFINE T == {s \in SUBSET S : G[s] \in Nat}
  <2>1. {} \in T
    <3>1. {} \in SUBSET S /\ Plus(f, G, {}) = 0
      BY DEF Plus
    <3> QED
      BY <1>7, <3>1
  <2>2. ASSUME NEW s \in SUBSET S, s # {}, s \ {Pick(s)} \in T PROVE s \in T
    <3>1. Pick(s) \in S
      BY <2>2 DEF Pick
    <3>2. f[Pick(s)] \in Nat /\ G[s \ {Pick(s)}] \in Nat
      BY <2>2, <3>1
    <3>3. G[s] = f[Pick(s)] + G[s \ {Pick(s)}]
      BY <1>7, <2>2 DEF Plus
    <3> QED
      BY <3>2, <3>3
  <2>3. SUBSET S \subseteq T
    <3> HIDE DEF T
    <3> QED
      BY <2>1, <2>2, AllSubsets
  <2> QED
    BY <2>3
<1> QED
  BY <1>1, <1>7, <1>8 DEF IsSum

LEMMA TotalInNat ==
  ASSUME NEW S, IsFiniteSet(S), NEW f, \A x \in S : f[x] \in Nat
  PROVE  Total(f, S) \in Nat
<1>1. S \in SUBSET S
  OBVIOUS
<1> QED
  BY <1>1, SumIs DEF IsSum

LEMMA EmptySum ==
  ASSUME NEW S, NEW f, NEW g, IsSum(f, S, g)
  PROVE  {} \in SUBSET S /\ g[{}] = 0
<1>1. {} \in SUBSET S /\ Plus(f, g, {}) = 0
  BY DEF Plus
<1> QED
  BY <1>1 DEF IsSum

\* Sums of numbers that add up do so, too.
LEMMA SumsAdd ==
  ASSUME NEW S, IsFiniteSet(S), NEW p \in Nat \ {0}, NEW f, NEW g, NEW h,
         \A y \in S : /\ f[y] \in Nat /\ g[y] \in Nat /\ h[y] \in Nat
                       /\ Same(p, f[y] + g[y], h[y])
  PROVE  Same(p, Total(f, S) + Total(g, S), Total(h, S))
<1>0. \A y \in S : f[y] \in Nat /\ g[y] \in Nat /\ h[y] \in Nat
  OBVIOUS
<1>1. PICK F : IsSum(f, S, F) /\ Total(f, S) = F[S]
  BY <1>0, SumIs
<1>2. PICK G : IsSum(g, S, G) /\ Total(g, S) = G[S]
  BY <1>0, SumIs
<1>3. PICK H : IsSum(h, S, H) /\ Total(h, S) = H[S]
  BY <1>0, SumIs
<1> DEFINE T == {r \in SUBSET S : Same(p, F[r] + G[r], H[r])}
<1>4. {} \in T
  <2>1. {} \in SUBSET S /\ F[{}] = 0 /\ G[{}] = 0 /\ H[{}] = 0 /\ 0 + 0 = 0
    BY <1>1, <1>2, <1>3, EmptySum
  <2> QED
    BY <2>1 DEF Same
<1>5. ASSUME NEW s \in SUBSET S, s # {}, s \ {Pick(s)} \in T PROVE s \in T
  <2> DEFINE x == Pick(s)
             t == s \ {Pick(s)}
  <2>1. x \in S /\ t \in SUBSET S
    BY <1>5 DEF Pick
  <2>2. F[s] = f[x] + F[t] /\ G[s] = g[x] + G[t] /\ H[s] = h[x] + H[t]
    BY <1>1, <1>2, <1>3, <1>5 DEF IsSum, Plus
  <2>3. Same(p, F[t] + G[t], H[t])
    BY <1>5
  <2> HIDE DEF x, t
  <2>4. F[t] \in Nat /\ G[t] \in Nat /\ H[t] \in Nat
    BY <1>1, <1>2, <1>3, <2>1 DEF IsSum
  <2>5. /\ f[x] \in Nat /\ g[x] \in Nat /\ h[x] \in Nat
        /\ Same(p, f[x] + g[x], h[x])
    BY <2>1
  <2>6. Same(p, (f[x] + F[t]) + (g[x] + G[t]), h[x] + H[t])
    BY <2>3, <2>4, <2>5, SameTwoSums
  <2> QED
    BY <1>5, <2>2, <2>6
<1>6. SUBSET S \subseteq T
  <2> HIDE DEF T
  <2> QED
    BY <1>4, <1>5, AllSubsets
<1>7. S \in T
  BY <1>6
<1> QED
  BY <1>1, <1>2, <1>3, <1>7

LEMMA SumsEqual ==
  ASSUME NEW S, IsFiniteSet(S), NEW p \in Nat \ {0}, NEW f, NEW g,
         \A y \in S : f[y] \in Nat /\ g[y] \in Nat /\ Same(p, f[y], g[y])
  PROVE  Same(p, Total(f, S), Total(g, S))
<1>0. \A y \in S : f[y] \in Nat /\ g[y] \in Nat
  OBVIOUS
<1>1. PICK F : IsSum(f, S, F) /\ Total(f, S) = F[S]
  BY <1>0, SumIs
<1>2. PICK G : IsSum(g, S, G) /\ Total(g, S) = G[S]
  BY <1>0, SumIs
<1> DEFINE T == {r \in SUBSET S : Same(p, F[r], G[r])}
<1>3. {} \in T
  <2>1. {} \in SUBSET S /\ F[{}] = 0 /\ G[{}] = 0
    BY <1>1, <1>2, EmptySum
  <2> QED
    BY <2>1 DEF Same
<1>4. ASSUME NEW s \in SUBSET S, s # {}, s \ {Pick(s)} \in T PROVE s \in T
  <2> DEFINE x == Pick(s)
             t == s \ {Pick(s)}
  <2>1. x \in S /\ t \in SUBSET S
    BY <1>4 DEF Pick
  <2>2. F[s] = f[x] + F[t] /\ G[s] = g[x] + G[t]
    BY <1>1, <1>2, <1>4 DEF IsSum, Plus
  <2>3. Same(p, F[t], G[t])
    BY <1>4
  <2> HIDE DEF x, t
  <2>4. F[t] \in Nat /\ G[t] \in Nat
    BY <1>1, <1>2, <2>1 DEF IsSum
  <2>5. Same(p, f[x] + F[t], g[x] + G[t])
    BY <2>1, <2>3, <2>4, SameSums
  <2> QED
    BY <1>4, <2>2, <2>5
<1>5. SUBSET S \subseteq T
  <2> HIDE DEF T
  <2> QED
    BY <1>3, <1>4, AllSubsets
<1>6. S \in T
  BY <1>5
<1> QED
  BY <1>1, <1>2, <1>6

\* One for every element.
LEMMA SumOfOnes ==
  ASSUME NEW S, IsFiniteSet(S), NEW p \in Nat \ {0}, NEW f,
         \A y \in S : f[y] \in Nat /\ Same(p, f[y], 1)
  PROVE  Same(p, Total(f, S), Cardinality(S))
<1>1. PICK F : IsSum(f, S, F) /\ Total(f, S) = F[S]
  <2>1. \A y \in S : f[y] \in Nat
    OBVIOUS
  <2> QED
    BY <2>1, SumIs
<1> DEFINE T == {r \in SUBSET S : Same(p, F[r], Cardinality(r))}
<1>2. {} \in T
  <2>1. {} \in SUBSET S /\ F[{}] = 0 /\ Cardinality({}) = 0
    BY <1>1, FS_EmptySet, EmptySum
  <2> QED
    BY <2>1 DEF Same
<1>3. ASSUME NEW s \in SUBSET S, s # {}, s \ {Pick(s)} \in T PROVE s \in T
  <2> DEFINE x == Pick(s)
             t == s \ {Pick(s)}
  <2>1. x \in s /\ x \in S /\ t \in SUBSET S
    BY <1>3 DEF Pick
  <2>2. F[s] = f[x] + F[t] /\ F[t] \in Nat
    BY <1>1, <1>3 DEF IsSum, Plus
  <2>3. Cardinality(t) \in Nat /\ Cardinality(s) = 1 + Cardinality(t)
    <3>1. IsFiniteSet(s) /\ Cardinality(t) = Cardinality(s) - 1
      BY <1>3, <2>1, FS_Subset, FS_RemoveElement
    <3>2. Cardinality(s) \in Nat /\ Cardinality(t) \in Nat
      BY <3>1, <2>1, FS_Subset, FS_CardinalityType
    <3> QED
      BY <3>1, <3>2
  <2>4. Same(p, F[t], Cardinality(t))
    BY <1>3
  <2> HIDE DEF x, t
  <2>5. Same(p, f[x] + F[t], 1 + Cardinality(t))
    BY <2>1, <2>2, <2>3, <2>4, SameSums
  <2> QED
    BY <1>3, <2>2, <2>3, <2>5
<1>4. SUBSET S \subseteq T
  <2> HIDE DEF T
  <2> QED
    BY <1>2, <1>3, AllSubsets
<1>5. S \in T
  BY <1>4
<1> QED
  BY <1>1, <1>5
=============================================================================
