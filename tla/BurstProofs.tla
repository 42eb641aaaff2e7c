----------------------------- MODULE BurstProofs -----------------------------
(***************************************************************************)
(* Proofs about BurstAnalysis, for any frame size, levels, regions,         *)
(* thresholds, delays and number of frames: what a summary says of the      *)
(* pixels that moved.                                                       *)
(***************************************************************************)
EXTENDS BurstAnalysis, FiniteSetTheorems, TLAPS

-----------------------------------------------------------------------------
(* Numbers *)

\* The quotient and what is left of the number divided.
LEMMA Quotient ==
    ASSUME NEW num \in Nat, NEW den \in Nat \ {0}
    PROVE  /\ num \div den \in Nat
           /\ (num \div den) * den <= num /\ num < (num \div den) * den + den
    OBVIOUS

\* A number that fits q times is divided to q at least.
LEMMA QuotientAtLeast ==
    ASSUME NEW num \in Nat, NEW den \in Nat \ {0}, NEW q \in Nat, q * den <= num
    PROVE  q <= num \div den
<1>1. num < (num \div den + 1) * den
    BY Quotient
<1>2. num \div den + 1 \in Nat
    BY Quotient
<1>3. ASSUME num \div den + 1 <= q PROVE FALSE
    BY <1>1, <1>2, <1>3
<1> QED BY <1>2, <1>3

\* Products grow with their factors.
LEMMA ProductMonotone ==
    ASSUME NEW a \in Nat, NEW b \in Nat, NEW c \in Nat, a <= b
    PROVE  a * c <= b * c /\ c * a <= c * b /\ a * c \in Nat /\ b * c \in Nat
    OBVIOUS

\* A product of positive numbers is positive.
LEMMA ProductPositive ==
    ASSUME NEW a \in Nat \ {0}, NEW b \in Nat \ {0}
    PROVE  a * b \in Nat \ {0}
<1>1. 1 * b <= a * b
    BY ProductMonotone
<1> QED BY <1>1

\* The remainder is below the divisor and completes the quotient.
LEMMA Remainder ==
    ASSUME NEW a \in Nat, NEW p \in Nat \ {0}
    PROVE  a % p \in 0..p - 1 /\ a \div p \in Nat /\ a = (a \div p) * p + (a % p)
    OBVIOUS

\* There is only one way to divide.
LEMMA RemainderIsUnique ==
    ASSUME NEW a \in Nat, NEW p \in Nat \ {0}, NEW q \in Nat, NEW r \in 0..p - 1,
           a = q * p + r
    PROVE  a % p = r
<1> DEFINE u == a \div p
           v == a % p
<1>1. v \in 0..p - 1 /\ u \in Nat /\ a = u * p + v
    BY Remainder
<1> HIDE DEF u, v
<1>2. ASSUME u < q PROVE FALSE
    <2>1. (u + 1) * p <= q * p /\ q * p \in Nat
        BY <1>1, <1>2, ProductMonotone
    <2>2. (u + 1) * p = u * p + p /\ u * p \in Nat
        BY <1>1
    <2> QED BY <2>1, <2>2, <1>1
<1>3. ASSUME q < u PROVE FALSE
    <2>1. (q + 1) * p <= u * p /\ u * p \in Nat
        BY <1>1, <1>3, ProductMonotone
    <2>2. (q + 1) * p = q * p + p /\ q * p \in Nat
        BY <1>1
    <2> QED BY <2>1, <2>2, <1>1
<1>4. u = q
    BY <1>1, <1>2, <1>3
<1>5. q * p \in Nat
    OBVIOUS
<1>6. v = r
    BY <1>1, <1>4, <1>5
<1> QED BY <1>6 DEF v

\* One period earlier the remainder is the same.
LEMMA SameRemainderBefore ==
    ASSUME NEW a \in Nat, NEW p \in Nat \ {0}, p <= a
    PROVE  (a - p) % p = a % p
<1> DEFINE q == (a - p) \div p
           r == (a - p) % p
<1>1. r \in 0..p - 1 /\ q \in Nat /\ a - p = q * p + r
    <2>1. a - p \in Nat
        OBVIOUS
    <2> QED BY <2>1, Remainder
<1> HIDE DEF q, r
<1>2. (q + 1) * p = q * p + p /\ q * p \in Nat
    BY <1>1
<1>3. a = (q + 1) * p + r
    BY <1>1, <1>2
<1>4. a % p = r
    BY <1>1, <1>3, RemainderIsUnique
<1> QED BY <1>4 DEF r

\* Two numbers of the same remainder are at least a period apart.
LEMMA NextOfSameRemainder ==
    ASSUME NEW a \in Nat, NEW b \in Nat, NEW p \in Nat \ {0}, a < b, a % p = b % p
    PROVE  a + p <= b
<1> DEFINE u == a \div p
           v == b \div p
           r == a % p
<1>1. u \in Nat /\ v \in Nat /\ r \in 0..p - 1 /\ a = u * p + r /\ b = v * p + r
    BY Remainder
<1> HIDE DEF u, v, r
<1>2. ASSUME v <= u PROVE FALSE
    <2>1. v * p <= u * p /\ v * p \in Nat /\ u * p \in Nat
        BY <1>1, <1>2, ProductMonotone
    <2> QED BY <2>1, <1>1
<1>3. (u + 1) * p <= v * p
    BY <1>1, <1>2, ProductMonotone
<1>4. (u + 1) * p = u * p + p /\ u * p \in Nat /\ v * p \in Nat
    BY <1>1
<1> QED BY <1>1, <1>3, <1>4

\* Neighbours have different remainders.
LEMMA OtherRemainderBefore ==
    ASSUME NEW a \in Nat \ {0}, NEW p \in Nat, p >= 2
    PROVE  (a - 1) % p # a % p
<1> SUFFICES ASSUME (a - 1) % p = a % p PROVE FALSE
    OBVIOUS
<1>1. a - 1 \in Nat /\ a - 1 < a /\ p \in Nat \ {0}
    OBVIOUS
<1>2. (a - 1) + p <= a
    BY <1>1, NextOfSameRemainder
<1> QED BY <1>2

\* A set of naturals has a least element.
LEMMA LeastNatural ==
    ASSUME NEW T \in SUBSET Nat, T # {}
    PROVE  \E m \in T : \A y \in T : m <= y
<1> DEFINE R == OpToRel(<, Nat)
<1>1. R = {ss \in Nat \X Nat : ss[1] < ss[2]}
    BY Zenon DEF OpToRel
<1>2. IsWellFoundedOn(R, Nat)
    BY NatLessThanWellFounded, Zenon
<1> HIDE DEF R
<1>3. PICK m \in T : \A y \in T : ~(<<y, m>> \in R)
    BY <1>2, WFMin
<1>4. ASSUME NEW y \in T PROVE m <= y
    <2>1. <<y, m>> \in Nat \X Nat /\ <<y, m>>[1] = y /\ <<y, m>>[2] = m
        OBVIOUS
    <2>2. y < m => <<y, m>> \in R
        BY <2>1, <1>1, Zenon
    <2> QED BY <2>2, <1>3
<1> QED BY <1>4

\* Min of a nonempty set of naturals is its least member.
LEMMA MinOf ==
    ASSUME NEW T \in SUBSET Nat, T # {}
    PROVE  Min(T) \in T /\ \A y \in T : Min(T) <= y
    BY LeastNatural DEF Min

\* Max of a nonempty bounded set of naturals is its largest member.
LEMMA MaxOf ==
    ASSUME NEW T \in SUBSET Nat, T # {}, NEW b \in Nat, \A y \in T : y <= b
    PROVE  Max(T) \in T /\ \A y \in T : y <= Max(T)
<1> DEFINE U == {b - y : y \in T}
<1>1. U \in SUBSET Nat /\ U # {}
    <2>1. \A y \in T : b - y \in Nat
        OBVIOUS
    <2> QED BY <2>1
<1>2. PICK m \in U : \A y \in U : m <= y
    BY <1>1, LeastNatural
<1>3. PICK x \in T : m = b - x
    OBVIOUS
<1>4. \A y \in T : x >= y
    BY <1>2, <1>3
<1> QED BY <1>4 DEF Max

-----------------------------------------------------------------------------
(* Sums *)

\* An argument occurs in Pairs with the numbers up to its value.
LEMMA PairsMember ==
    ASSUME NEW D, NEW f \in [D -> Nat], NEW i, NEW k
    PROVE  <<i, k>> \in Pairs(f) <=> i \in D /\ k \in 1..f[i]
    BY DEF Pairs

\* Every member of Pairs is such a pair.
LEMMA PairsShape ==
    ASSUME NEW D, NEW f \in [D -> Nat], NEW q \in Pairs(f)
    PROVE  q = <<q[1], q[2]>> /\ q[1] \in D /\ q[2] \in 1..f[q[1]]
    BY DEF Pairs

\* A bound on the values bounds Pairs.
LEMMA PairsWithin ==
    ASSUME NEW D, NEW f \in [D -> Nat], NEW b \in Nat, \A i \in D : f[i] <= b
    PROVE  Pairs(f) \subseteq D \X (1..b)
<1>1. ASSUME NEW q \in Pairs(f) PROVE q \in D \X (1..b)
    <2>1. q = <<q[1], q[2]>> /\ q[1] \in D /\ q[2] \in 1..f[q[1]]
        BY PairsShape
    <2>2. q[2] \in 1..b
        BY <2>1
    <2> QED BY <2>1, <2>2, Zenon
<1> QED BY <1>1

\* A sum of finitely many naturals is a natural.
LEMMA TotalFacts ==
    ASSUME NEW D, IsFiniteSet(D), NEW f \in [D -> Nat]
    PROVE  IsFiniteSet(Pairs(f)) /\ Total(f) \in Nat
<1> DEFINE T == {{i} \X (1..f[i]) : i \in D}
           g == [i \in D |-> {i} \X (1..f[i])]
<1>1. g \in Surjection(D, T)
    BY DEF Surjection
<1>2. IsFiniteSet(T)
    BY <1>1, FS_Surjection, Zenon
<1>3. ASSUME NEW t \in T PROVE IsFiniteSet(t)
    <2>1. PICK i \in D : t = {i} \X (1..f[i])
        OBVIOUS
    <2>2. IsFiniteSet(1..f[i])
        BY FS_Interval
    <2>3. IsFiniteSet({i})
        BY FS_Singleton, Zenon
    <2> QED BY <2>1, <2>2, <2>3, FS_Product, Zenon
<1>4. IsFiniteSet(UNION T)
    BY <1>2, <1>3, FS_UNION, Zenon
<1>5. Pairs(f) = UNION T
    BY Zenon DEF Pairs
<1> QED BY <1>4, <1>5, FS_CardinalityType, Zenon DEF Total

\* No more than the largest value as often as there are values.
LEMMA TotalAtMost ==
    ASSUME NEW D, IsFiniteSet(D), NEW f \in [D -> Nat],
           NEW b \in Nat, \A i \in D : f[i] <= b
    PROVE  Total(f) <= Cardinality(D) * b
<1>1. IsFiniteSet(1..b) /\ Cardinality(1..b) = b
    BY FS_Interval
<1>2. IsFiniteSet(D \X (1..b)) /\ Cardinality(D \X (1..b)) = Cardinality(D) * b
    BY <1>1, FS_Product, Zenon
<1>3. Pairs(f) \subseteq D \X (1..b)
    BY PairsWithin
<1>4. Cardinality(Pairs(f)) <= Cardinality(D \X (1..b))
    BY <1>2, <1>3, FS_Subset, Zenon
<1> QED BY <1>2, <1>4 DEF Total

\* No less than a value as often as it is reached.
LEMMA TotalAtLeast ==
    ASSUME NEW D, IsFiniteSet(D), NEW f \in [D -> Nat],
           NEW E \in SUBSET D, NEW b \in Nat, \A i \in E : f[i] >= b
    PROVE  Cardinality(E) * b <= Total(f)
<1>1. IsFiniteSet(1..b) /\ Cardinality(1..b) = b
    BY FS_Interval
<1>2. IsFiniteSet(E)
    BY FS_Subset, Zenon
<1>3. IsFiniteSet(E \X (1..b)) /\ Cardinality(E \X (1..b)) = Cardinality(E) * b
    BY <1>1, <1>2, FS_Product, Zenon
<1>4. ASSUME NEW i \in E, NEW k \in 1..b PROVE <<i, k>> \in Pairs(f)
    <2>1. i \in D /\ k \in 1..f[i]
        OBVIOUS
    <2> QED BY <2>1, PairsMember
<1>5. E \X (1..b) \subseteq Pairs(f)
    BY <1>4
<1>6. Cardinality(E \X (1..b)) <= Cardinality(Pairs(f))
    BY <1>5, FS_Subset, TotalFacts, Zenon
<1> QED BY <1>3, <1>6 DEF Total

\* The same value b on E and nothing elsewhere.
LEMMA TotalOfConstant ==
    ASSUME NEW D, IsFiniteSet(D), NEW f \in [D -> Nat],
           NEW E \in SUBSET D, NEW b \in Nat,
           \A i \in E : f[i] = b, \A i \in D \ E : f[i] = 0
    PROVE  Total(f) = Cardinality(E) * b
<1>1. IsFiniteSet(1..b) /\ Cardinality(1..b) = b
    BY FS_Interval
<1>2. IsFiniteSet(E)
    BY FS_Subset, Zenon
<1>3. IsFiniteSet(E \X (1..b)) /\ Cardinality(E \X (1..b)) = Cardinality(E) * b
    BY <1>1, <1>2, FS_Product, Zenon
<1>4. ASSUME NEW q \in Pairs(f) PROVE q \in E \X (1..b)
    <2>1. q = <<q[1], q[2]>> /\ q[1] \in D /\ q[2] \in 1..f[q[1]]
        BY PairsShape
    <2>2. q[1] \in E
        BY <2>1
    <2>3. q[2] \in 1..b
        BY <2>1, <2>2
    <2> QED BY <2>1, <2>2, <2>3, Zenon
<1>5. ASSUME NEW i \in E, NEW k \in 1..b PROVE <<i, k>> \in Pairs(f)
    <2>1. i \in D /\ k \in 1..f[i]
        OBVIOUS
    <2> QED BY <2>1, PairsMember
<1>6. E \X (1..b) = Pairs(f)
    BY <1>4, <1>5
<1> QED BY <1>3, <1>6 DEF Total

\* A function that is b on E and 0 elsewhere sums up to b for each member of E.
LEMMA TotalOfJumps ==
    ASSUME NEW D, IsFiniteSet(D), NEW E \in SUBSET D, NEW b \in Nat
    PROVE  Total([i \in D |-> IF i \in E THEN b ELSE 0]) = Cardinality(E) * b
<1> DEFINE f == [i \in D |-> IF i \in E THEN b ELSE 0]
<1>1. f \in [D -> Nat] /\ (\A i \in E : f[i] = b) /\ \A i \in D \ E : f[i] = 0
    OBVIOUS
<1> HIDE DEF f
<1>2. Total(f) = Cardinality(E) * b
    BY <1>1, TotalOfConstant
<1> QED BY <1>2 DEF f

\* Sums are linear.
LEMMA TotalOfSum ==
    ASSUME NEW D, IsFiniteSet(D), NEW f \in [D -> Nat], NEW g \in [D -> Nat]
    PROVE  Total([i \in D |-> f[i] + g[i]]) = Total(f) + Total(g)
<1> DEFINE h == [i \in D |-> f[i] + g[i]]
           Upper == {q \in Pairs(h) : q[2] > f[q[1]]}
           up == [q \in Pairs(g) |-> <<q[1], f[q[1]] + q[2]>>]
<1>1. h \in [D -> Nat] /\ \A i \in D : h[i] = f[i] + g[i]
    OBVIOUS
<1> HIDE DEF h
<1>2. ASSUME NEW q \in Pairs(g) PROVE up[q] \in Upper
    <2>1. q[1] \in D /\ q[2] \in 1..g[q[1]]
        BY PairsShape
    <2>2. f[q[1]] \in Nat /\ g[q[1]] \in Nat
        BY <2>1
    <2>3. f[q[1]] + q[2] \in 1..h[q[1]] /\ f[q[1]] + q[2] > f[q[1]]
        BY <2>1, <2>2, <1>1
    <2>4. up[q] \in Pairs(h)
        BY <2>1, <2>3, <1>1, PairsMember
    <2> QED BY <2>3, <2>4
<1>3. ASSUME NEW q \in Upper PROVE \E r \in Pairs(g) : up[r] = q
    <2>1. q = <<q[1], q[2]>> /\ q[1] \in D /\ q[2] \in 1..h[q[1]]
        BY <1>1, PairsShape
    <2>2. f[q[1]] \in Nat /\ g[q[1]] \in Nat /\ q[2] > f[q[1]]
        BY <2>1
    <2>3. q[2] - f[q[1]] \in 1..g[q[1]] /\ f[q[1]] + (q[2] - f[q[1]]) = q[2]
        BY <2>1, <2>2, <1>1
    <2>4. <<q[1], q[2] - f[q[1]]>> \in Pairs(g)
        BY <2>1, <2>3, PairsMember
    <2> QED BY <2>1, <2>3, <2>4
<1>4. ASSUME NEW q \in Pairs(g), NEW r \in Pairs(g), up[q] = up[r] PROVE q = r
    <2>1. /\ q = <<q[1], q[2]>> /\ q[1] \in D /\ q[2] \in 1..g[q[1]]
          /\ r = <<r[1], r[2]>> /\ r[1] \in D /\ r[2] \in 1..g[r[1]]
        BY PairsShape
    <2>2. q[1] = r[1] /\ f[q[1]] + q[2] = f[r[1]] + r[2]
        BY <1>4
    <2>3. f[q[1]] \in Nat /\ q[2] \in Int /\ r[2] \in Int
        BY <2>1
    <2>4. q[2] = r[2]
        BY <2>2, <2>3
    <2> QED BY <2>1, <2>2, <2>4
<1>5. up \in Bijection(Pairs(g), Upper)
    BY <1>2, <1>3, <1>4 DEF Bijection, Injection, Surjection, IsInjective
<1>6. /\ IsFiniteSet(Pairs(g)) /\ IsFiniteSet(Pairs(f)) /\ IsFiniteSet(Pairs(h))
      /\ Total(f) \in Nat /\ Total(g) \in Nat
    BY <1>1, TotalFacts
<1>7. IsFiniteSet(Upper) /\ Cardinality(Upper) = Total(g)
    BY <1>5, <1>6, FS_Bijection DEF ExistsBijection, Total
<1>8. ASSUME NEW q \in Pairs(f) PROVE q \in Pairs(h) /\ q \notin Upper
    <2>1. q = <<q[1], q[2]>> /\ q[1] \in D /\ q[2] \in 1..f[q[1]]
        BY PairsShape
    <2>2. f[q[1]] \in Nat /\ g[q[1]] \in Nat
        BY <2>1
    <2>3. q[2] \in 1..h[q[1]] /\ ~(q[2] > f[q[1]])
        BY <2>1, <2>2, <1>1
    <2> QED BY <2>1, <2>3, <1>1, PairsMember
<1>9. ASSUME NEW q \in Pairs(h), q \notin Upper PROVE q \in Pairs(f)
    <2>1. q = <<q[1], q[2]>> /\ q[1] \in D /\ q[2] \in 1..h[q[1]]
        BY <1>1, PairsShape
    <2>2. q[2] \in 1..f[q[1]]
        BY <2>1, <1>1, <1>9
    <2> QED BY <2>1, <2>2, PairsMember
<1>10. Pairs(h) = Pairs(f) \cup Upper /\ Pairs(f) \cap Upper = {}
    BY <1>8, <1>9
<1>11. Cardinality(Pairs(f) \cup Upper)
         = Cardinality(Pairs(f)) + Cardinality(Upper) - Cardinality(Pairs(f) \cap Upper)
    BY <1>6, <1>7, FS_Union, Zenon
<1>12. Cardinality(Pairs(f) \cap Upper) = 0
    BY <1>10, FS_EmptySet, Zenon
<1> HIDE DEF Upper
<1>13. Total(h) = Total(f) + Total(g)
    BY <1>6, <1>7, <1>10, <1>11, <1>12 DEF Total
<1> QED BY <1>13 DEF h

\* A common factor of the values is a factor of their sum.
LEMMA TotalOfMultiple ==
    ASSUME NEW D, IsFiniteSet(D), NEW f \in [D -> Nat], NEW c \in Nat
    PROVE  Total([i \in D |-> c * f[i]]) = c * Total(f)
<1> DEFINE h == [i \in D |-> c * f[i]]
           cell == [u \in Pairs(f) \X (1..c) |-> <<u[1][1], (u[1][2] - 1) * c + u[2]>>]
<1>1. h \in [D -> Nat] /\ \A i \in D : h[i] = c * f[i]
    OBVIOUS
<1> HIDE DEF h
<1>2. ASSUME NEW i \in D, NEW k \in 1..f[i], NEW r \in 1..c
      PROVE  (k - 1) * c + r \in 1..h[i]
    <2>1. k - 1 \in Nat /\ f[i] \in Nat /\ k <= f[i] /\ k \in Nat
        OBVIOUS
    <2>2. k * c <= f[i] * c
        BY <2>1, ProductMonotone
    <2>3. k * c = (k - 1) * c + c /\ (k - 1) * c \in Nat /\ f[i] * c = h[i]
        BY <2>1, <1>1
    <2> QED BY <2>1, <2>2, <2>3, <1>1
<1>3. ASSUME NEW u \in Pairs(f) \X (1..c)
      PROVE  /\ u = <<<<u[1][1], u[1][2]>>, u[2]>>
             /\ u[1][1] \in D /\ u[1][2] \in 1..f[u[1][1]] /\ u[2] \in 1..c
    <2>1. u = <<u[1], u[2]>> /\ u[1] \in Pairs(f) /\ u[2] \in 1..c
        OBVIOUS
    <2>2. u[1] = <<u[1][1], u[1][2]>> /\ u[1][1] \in D /\ u[1][2] \in 1..f[u[1][1]]
        BY <2>1, PairsShape
    <2> QED BY <2>1, <2>2
<1>4. ASSUME NEW u \in Pairs(f) \X (1..c) PROVE cell[u] \in Pairs(h)
    <2>1. (u[1][2] - 1) * c + u[2] \in 1..h[u[1][1]]
        BY <1>2, <1>3
    <2> QED BY <2>1, <1>1, <1>3, PairsMember
<1>5. ASSUME NEW q \in Pairs(h) PROVE \E u \in Pairs(f) \X (1..c) : cell[u] = q
    <2> DEFINE i == q[1]
               k == q[2] - 1
               v == k \div c
               r == k % c
    <2>1. q = <<i, q[2]>> /\ i \in D /\ q[2] \in 1..h[i]
        BY <1>1, PairsShape
    <2>2. k \in Nat /\ f[i] \in Nat /\ k < c * f[i] /\ q[2] = k + 1
        BY <2>1, <1>1
    <2> HIDE DEF i, k
    <2>3. c # 0
        <3>1. ASSUME c = 0 PROVE FALSE
            <4>1. 0 * f[i] = 0
                BY <2>2
            <4> QED BY <4>1, <2>2, <3>1
        <3> QED BY <3>1
    <2>4. v \in Nat /\ r \in 0..c - 1 /\ k = v * c + r
        BY <2>2, <2>3, Remainder
    <2> HIDE DEF v, r
    <2>5. v < f[i]
        <3>1. ASSUME f[i] <= v PROVE FALSE
            <4>1. f[i] * c <= v * c /\ f[i] * c = c * f[i] /\ v * c \in Nat
                BY <2>2, <2>4, <3>1, ProductMonotone
            <4> QED BY <4>1, <2>2, <2>4
        <3> QED BY <3>1, <2>2, <2>4
    <2>6. v + 1 \in 1..f[i] /\ r + 1 \in 1..c
        BY <2>2, <2>4, <2>5
    <2>7. <<i, v + 1>> \in Pairs(f)
        BY <2>1, <2>6, PairsMember
    <2>8. ((v + 1) - 1) * c + (r + 1) = q[2]
        <3>1. (v + 1) - 1 = v /\ v * c \in Nat
            BY <2>4
        <3> QED BY <3>1, <2>2, <2>4
    <2>9. <<<<i, v + 1>>, r + 1>> \in Pairs(f) \X (1..c)
        BY <2>6, <2>7
    <2>10. cell[<<<<i, v + 1>>, r + 1>>] = <<i, ((v + 1) - 1) * c + (r + 1)>>
        BY <2>9
    <2> QED BY <2>1, <2>8, <2>9, <2>10
<1>6. ASSUME NEW u \in Pairs(f) \X (1..c), NEW w \in Pairs(f) \X (1..c), cell[u] = cell[w]
      PROVE  u = w
    <2> DEFINE i == u[1][1]
               k == u[1][2] - 1
               l == w[1][2] - 1
               r == u[2] - 1
               t == w[2] - 1
    <2>1. w[1][1] = i /\ k * c + u[2] = l * c + w[2]
        BY <1>6
    <2>2. u[1][2] \in 1..f[i] /\ w[1][2] \in 1..f[i] /\ f[i] \in Nat /\ u[2] \in 1..c /\ w[2] \in 1..c
        BY <1>3, <2>1
    <2>3. k \in Nat /\ l \in Nat /\ r \in 0..c - 1 /\ t \in 0..c - 1 /\ c \in Nat \ {0}
        BY <2>2
    <2>4. u[1][2] = k + 1 /\ w[1][2] = l + 1 /\ u[2] = r + 1 /\ w[2] = t + 1
        BY <2>2
    <2> HIDE DEF k, l, r, t
    <2>5. k * c \in Nat /\ l * c \in Nat /\ k * c + r = l * c + t
        <3>1. k * c \in Nat /\ l * c \in Nat
            BY <2>3
        <3> QED BY <3>1, <2>1, <2>3, <2>4
    <2>6. k * c + r \in Nat
        BY <2>3, <2>5
    <2>7. (k * c + r) % c = r /\ (k * c + r) % c = t
        BY <2>3, <2>5, <2>6, RemainderIsUnique
    <2>8. r = t /\ k * c = l * c
        BY <2>3, <2>5, <2>7
    <2>9. k = l
        <3>1. ASSUME NEW a \in Nat, NEW b \in Nat, a < b, a * c = b * c PROVE FALSE
            <4>1. (a + 1) * c <= b * c
                BY <2>3, <3>1, ProductMonotone
            <4>2. (a + 1) * c = a * c + c /\ a * c \in Nat
                BY <2>3, <3>1
            <4> QED BY <4>1, <4>2, <2>3, <3>1
        <3> QED BY <3>1, <2>3, <2>8
    <2> HIDE DEF i
    <2> QED BY <1>3, <2>1, <2>4, <2>8, <2>9 DEF i
<1>7. cell \in Bijection(Pairs(f) \X (1..c), Pairs(h))
    BY <1>4, <1>5, <1>6 DEF Bijection, Injection, Surjection, IsInjective
<1>8. IsFiniteSet(Pairs(f)) /\ Total(f) \in Nat
    BY TotalFacts
<1>9. IsFiniteSet(1..c) /\ Cardinality(1..c) = c
    BY FS_Interval
<1>10. /\ IsFiniteSet(Pairs(f) \X (1..c))
       /\ Cardinality(Pairs(f) \X (1..c)) = Cardinality(Pairs(f)) * Cardinality(1..c)
    BY <1>8, <1>9, FS_Product, Zenon
<1>11. Cardinality(Pairs(h)) = Cardinality(Pairs(f) \X (1..c))
    BY <1>7, <1>10, FS_Bijection DEF ExistsBijection
<1>12. Total(h) = c * Total(f)
    BY <1>8, <1>9, <1>10, <1>11 DEF Total
<1> QED BY <1>12 DEF h

-----------------------------------------------------------------------------
(* The median *)

\* Where f is below a value, and where it is not above it
Below(f, m) == {i \in DOMAIN f : f[i] < m}
UpTo(f, m) == {i \in DOMAIN f : f[i] <= m}
IsMedian(f, m) ==
    /\ m \in {f[i] : i \in DOMAIN f}
    /\ Cardinality(Below(f, m)) <= Cardinality(DOMAIN f) \div 2
    /\ Cardinality(UpTo(f, m)) > Cardinality(DOMAIN f) \div 2

\* Of finitely many values, those below m are no more than those up to m.
LEMMA UpToCounts ==
    ASSUME NEW D, IsFiniteSet(D), NEW f \in [D -> Nat], NEW m \in Nat
    PROVE  /\ IsFiniteSet(UpTo(f, m)) /\ Cardinality(UpTo(f, m)) \in Nat
           /\ IsFiniteSet(Below(f, m)) /\ Cardinality(Below(f, m)) \in Nat
           /\ Cardinality(D) \in Nat
           /\ Cardinality(Below(f, m)) <= Cardinality(UpTo(f, m))
<1>1. UpTo(f, m) \subseteq D /\ Below(f, m) \subseteq UpTo(f, m) /\ Below(f, m) \subseteq D
    BY DEF UpTo, Below
<1>2. IsFiniteSet(UpTo(f, m)) /\ IsFiniteSet(Below(f, m))
    BY <1>1, FS_Subset, Zenon
<1>3. Cardinality(Below(f, m)) <= Cardinality(UpTo(f, m))
    BY <1>1, <1>2, FS_Subset, Zenon
<1> QED BY <1>2, <1>3, FS_CardinalityType, Zenon

\* Of two values, no more arguments lie up to the lower than below the higher.
LEMMA UpToBelow ==
    ASSUME NEW D, IsFiniteSet(D), NEW f \in [D -> Nat],
           NEW a \in Nat, NEW b \in Nat, a < b
    PROVE  Cardinality(UpTo(f, a)) <= Cardinality(Below(f, b))
<1>1. UpTo(f, a) \subseteq Below(f, b)
    BY DEF UpTo, Below
<1> QED BY <1>1, UpToCounts, FS_Subset, Zenon

\* No value is larger than the sum.
LEMMA ValueWithinTotal ==
    ASSUME NEW D, IsFiniteSet(D), NEW f \in [D -> Nat], NEW i \in D
    PROVE  f[i] <= Total(f)
<1>1. Cardinality({i}) = 1
    BY FS_Singleton, Zenon
<1>2. Cardinality({i}) * f[i] <= Total(f)
    BY TotalAtLeast
<1> QED BY <1>1, <1>2, TotalFacts

\* The values at some of the arguments have a largest one.
LEMMA LargestValue ==
    ASSUME NEW D, IsFiniteSet(D), NEW f \in [D -> Nat], NEW E \in SUBSET D, E # {}
    PROVE  \E i \in E : \A j \in E : f[j] <= f[i]
<1> DEFINE T == {f[i] : i \in E}
<1>1. T \in SUBSET Nat /\ T # {}
    OBVIOUS
<1>2. \A y \in T : y <= Total(f)
    BY ValueWithinTotal
<1>3. Max(T) \in T /\ \A y \in T : y <= Max(T)
    BY <1>1, <1>2, TotalFacts, MaxOf
<1> QED BY <1>3

\* A nonempty finite set has at least one element.
LEMMA NonemptyCounts ==
    ASSUME NEW D, IsFiniteSet(D), D # {}
    PROVE  Cardinality(D) \in Nat \ {0}
    BY FS_EmptySet, FS_CardinalityType

\* Some value has at most half of the values below it, and more than half up to it.
LEMMA MedianExists ==
    ASSUME NEW D, IsFiniteSet(D), D # {}, NEW f \in [D -> Nat]
    PROVE  \E m : IsMedian(f, m)
<1> DEFINE half == Cardinality(D) \div 2
           T == {m \in {f[i] : i \in D} : Cardinality(UpTo(f, m)) > half}
<1>1. Cardinality(D) \in Nat \ {0} /\ half \in Nat /\ half < Cardinality(D)
    BY NonemptyCounts
<1>2. DOMAIN f = D
    OBVIOUS
<1>3. T # {}
    <2>1. PICK i \in D : \A j \in D : f[j] <= f[i]
        BY LargestValue
    <2>2. UpTo(f, f[i]) = D
        BY <2>1 DEF UpTo
    <2>3. f[i] \in T
        BY <2>2, <1>1
    <2> QED BY <2>3
<1>4. PICK m \in T : \A y \in T : m <= y
    <2>1. T \in SUBSET Nat
        OBVIOUS
    <2> QED BY <2>1, <1>3, LeastNatural
<1>5. m \in Nat /\ m \in {f[i] : i \in D} /\ Cardinality(UpTo(f, m)) > half
    OBVIOUS
<1>6. ASSUME Cardinality(Below(f, m)) > half PROVE FALSE
    <2>1. Below(f, m) # {} /\ Below(f, m) \in SUBSET D
        BY <1>6, <1>1, FS_EmptySet DEF Below
    <2>2. PICK i \in Below(f, m) : \A j \in Below(f, m) : f[j] <= f[i]
        BY <2>1, LargestValue
    <2>3. UpTo(f, f[i]) = Below(f, m)
        BY <2>2, <1>5 DEF UpTo, Below
    <2>4. f[i] \in T
        BY <2>1, <2>2, <2>3, <1>6
    <2>5. f[i] < m /\ f[i] \in Nat
        BY <2>2 DEF Below
    <2> QED BY <2>4, <2>5, <1>4, <1>5
<1>7. Cardinality(Below(f, m)) <= half
    BY <1>1, <1>5, <1>6, UpToCounts
<1> HIDE DEF T
<1> QED BY <1>2, <1>5, <1>7 DEF IsMedian

\* Median is such a value.
LEMMA MedianFacts ==
    ASSUME NEW D, IsFiniteSet(D), D # {}, NEW f \in [D -> Nat]
    PROVE  IsMedian(f, Median(f)) /\ Median(f) \in Nat
<1>1. \E m \in {f[i] : i \in DOMAIN f} :
          /\ Cardinality({i \in DOMAIN f : f[i] < m}) <= Cardinality(DOMAIN f) \div 2
          /\ Cardinality({i \in DOMAIN f : f[i] <= m}) > Cardinality(DOMAIN f) \div 2
    BY MedianExists, Zenon DEF IsMedian, Below, UpTo
<1>2. IsMedian(f, Median(f))
    BY <1>1, Zenon DEF IsMedian, Median, Below, UpTo
<1> QED BY <1>2 DEF IsMedian

\* There is one such value, so Median does not depend on the order of the values.
LEMMA MedianIsUnique ==
    ASSUME NEW D, IsFiniteSet(D), D # {}, NEW f \in [D -> Nat],
           NEW a, NEW b, IsMedian(f, a), IsMedian(f, b)
    PROVE  a = b
<1>1. a \in Nat /\ b \in Nat /\ DOMAIN f = D
    BY DEF IsMedian
<1>2. Cardinality(D) \div 2 \in Nat
    BY NonemptyCounts
<1>3. ASSUME NEW x \in Nat, NEW y \in Nat, IsMedian(f, x), IsMedian(f, y), x < y PROVE FALSE
    <2>1. Cardinality(UpTo(f, x)) <= Cardinality(Below(f, y))
        BY <1>3, UpToBelow
    <2>2. /\ Cardinality(UpTo(f, x)) > Cardinality(D) \div 2
          /\ Cardinality(Below(f, y)) <= Cardinality(D) \div 2
        BY <1>3, <1>1 DEF IsMedian
    <2>3. Cardinality(UpTo(f, x)) \in Nat /\ Cardinality(Below(f, y)) \in Nat
        BY UpToCounts
    <2> QED BY <2>1, <2>2, <2>3, <1>2
<1> QED BY <1>1, <1>3

\* The value the code takes, in the middle of the sorted values: the upper one
\* of two middle values (medianIntervalMS, and the median gap in burst.go).
THEOREM MedianOfSorted ==
    ASSUME NEW D, IsFiniteSet(D), D # {}, NEW f \in [D -> Nat],
           NEW order \in Bijection(1..Cardinality(D), D),
           \A j, k \in 1..Cardinality(D) : j <= k => f[order[j]] <= f[order[k]]
    PROVE  Median(f) = f[order[Cardinality(D) \div 2 + 1]]
<1> DEFINE n == Cardinality(D)
           half == n \div 2
           m == f[order[half + 1]]
<1>1. n \in Nat \ {0} /\ half \in Nat /\ half + 1 \in 1..n
    BY NonemptyCounts
<1>2. /\ order \in [1..n -> D]
      /\ \A j, k \in 1..n : order[j] = order[k] => j = k
      /\ \A i \in D : \E k \in 1..n : order[k] = i
    BY DEF Bijection, Injection, Surjection, IsInjective
<1> HIDE DEF n, half
<1>3. m \in Nat /\ order[half + 1] \in D
    BY <1>1, <1>2
<1>4. Cardinality(Below(f, m)) <= half
    <2> DEFINE place == [i \in Below(f, m) |-> CHOOSE k \in 1..n : order[k] = i]
    <2>1. ASSUME NEW i \in Below(f, m) PROVE place[i] \in 1..half /\ order[place[i]] = i
        <3>1. i \in D /\ f[i] < m
            BY DEF Below
        <3>2. place[i] \in 1..n /\ order[place[i]] = i
            BY <3>1, <1>2
        <3>3. ~(half + 1 <= place[i])
            BY <3>1, <3>2, <1>1, <1>3 DEF n
        <3> QED BY <3>2, <3>3, <1>1
    <2>2. place \in Injection(Below(f, m), 1..half)
        BY <2>1 DEF Injection, IsInjective
    <2>3. IsFiniteSet(1..half) /\ Cardinality(1..half) = half
        BY <1>1, FS_Interval
    <2> QED BY <2>2, <2>3, FS_Injection
<1>5. Cardinality(UpTo(f, m)) >= half + 1
    <2> DEFINE first == [k \in 1..(half + 1) |-> order[k]]
    <2>1. ASSUME NEW k \in 1..(half + 1) PROVE first[k] \in UpTo(f, m)
        <3>1. k \in 1..n /\ order[k] \in D /\ k <= half + 1
            BY <1>1, <1>2
        <3>2. f[order[k]] <= m
            BY <3>1, <1>1 DEF n
        <3> QED BY <3>1, <3>2 DEF UpTo
    <2>2. first \in Injection(1..(half + 1), UpTo(f, m))
        BY <2>1, <1>1, <1>2 DEF Injection, IsInjective
    <2>3. Cardinality(1..(half + 1)) = half + 1
        BY <1>1, FS_Interval
    <2>4. IsFiniteSet(UpTo(f, m))
        BY <1>3, UpToCounts
    <2> QED BY <2>2, <2>3, <2>4, FS_Injection
<1>6. IsMedian(f, m)
    <2>1. DOMAIN f = D /\ m \in {f[i] : i \in D}
        BY <1>3
    <2>2. Cardinality(UpTo(f, m)) \in Nat
        BY <1>3, UpToCounts
    <2>3. Cardinality(UpTo(f, m)) > half
        BY <2>2, <1>1, <1>5
    <2> QED BY <2>1, <2>3, <1>4, Zenon DEF IsMedian, n, half
<1>7. IsMedian(f, Median(f))
    BY MedianFacts, Zenon
<1>8. Median(f) = m
    BY <1>6, <1>7, MedianIsUnique, Zenon
<1> QED BY <1>8, Zenon DEF n, half

\* The median of equal values is that value.
LEMMA MedianOfConstant ==
    ASSUME NEW D, IsFiniteSet(D), D # {}, NEW f \in [D -> Nat],
           NEW c, \A i \in D : f[i] = c
    PROVE  Median(f) = c
    BY MedianFacts DEF IsMedian

-----------------------------------------------------------------------------
(* Percentages *)

\* round1 gives tenths, at most half a tenth too many.
LEMMA RoundFacts ==
    ASSUME NEW num \in Nat, NEW den \in Nat \ {0}
    PROVE  round1(num, den) \in Nat /\ round1(num, den) * (2 * den) <= 20 * num + den
<1>1. 20 * num + den \in Nat /\ 2 * den \in Nat \ {0}
    OBVIOUS
<1> QED BY <1>1, Quotient DEF round1

\* A quotient that is not larger is not rounded to more.
LEMMA RoundRatio ==
    ASSUME NEW a \in Nat, NEW da \in Nat \ {0}, NEW b \in Nat, NEW db \in Nat \ {0},
           a * db <= b * da
    PROVE  round1(a, da) <= round1(b, db)
<1> DEFINE q == round1(a, da)
<1>1. q \in Nat /\ q * (2 * da) <= 20 * a + da
    BY RoundFacts
<1> HIDE DEF q
<1>2. (q * (2 * da)) * db <= (20 * a + da) * db
    BY <1>1, ProductMonotone
<1>3. (q * (2 * da)) * db = (q * (2 * db)) * da
    BY <1>1
<1>4. (20 * a + da) * db = 20 * (a * db) + da * db
    OBVIOUS
<1>5. (20 * b + db) * da = 20 * (b * da) + da * db
    OBVIOUS
<1>6. a * db \in Nat /\ b * da \in Nat /\ da * db \in Nat
    OBVIOUS
<1>7. (20 * a + da) * db <= (20 * b + db) * da
    BY <1>4, <1>5, <1>6
<1>8. (q * (2 * db)) * da <= (20 * b + db) * da
    <2>1. (q * (2 * da)) * db \in Nat /\ (20 * a + da) * db \in Nat /\ (20 * b + db) * da \in Nat
        BY <1>1
    <2> QED BY <2>1, <1>2, <1>3, <1>7
<1>9. q * (2 * db) <= 20 * b + db
    <2> DEFINE u == q * (2 * db)
               v == 20 * b + db
    <2>1. u \in Nat /\ v \in Nat /\ u * da <= v * da
        BY <1>1, <1>8
    <2> HIDE DEF u, v
    <2>2. ASSUME v + 1 <= u PROVE FALSE
        <3>1. (v + 1) * da <= u * da
            BY <2>1, <2>2, ProductMonotone
        <3>2. (v + 1) * da = v * da + da
            BY <2>1
        <3>3. u * da \in Nat /\ v * da \in Nat
            BY <2>1
        <3> QED BY <3>1, <3>2, <3>3, <2>1
    <2>3. u <= v
        BY <2>1, <2>2
    <2> QED BY <2>3 DEF u, v
<1>10. q <= (20 * b + db) \div (2 * db)
    <2>1. 20 * b + db \in Nat /\ 2 * db \in Nat \ {0}
        OBVIOUS
    <2> QED BY <2>1, <1>1, <1>9, QuotientAtLeast
<1> QED BY <1>10 DEF q, round1

\* No change is 0%.
LEMMA RoundOfNothing ==
    ASSUME NEW den \in Nat \ {0}
    PROVE  round1(0, den) = 0
<1> DEFINE q == round1(0, den)
<1>1. q \in Nat /\ q * (2 * den) <= 20 * 0 + den
    BY RoundFacts
<1> HIDE DEF q
<1>2. ASSUME 1 <= q PROVE FALSE
    <2>1. 1 * (2 * den) <= q * (2 * den)
        BY <1>1, <1>2, ProductMonotone
    <2>2. q * (2 * den) \in Nat
        BY <1>1
    <2> QED BY <2>1, <2>2, <1>1
<1> QED BY <1>1, <1>2 DEF q

\* A part of the whole is at most 1000 tenths of a percent.
LEMMA RoundOfPart ==
    ASSUME NEW c \in Nat, NEW area \in Nat \ {0}, c <= area
    PROVE  round1(100 * c, area) \in 0..1000
<1>1. round1(100 * c, area) \in Nat
    BY RoundFacts
<1>2. round1(100 * c, area) <= round1(100, 1)
    BY RoundRatio
<1>3. round1(100, 1) = 1000
    BY DEF round1
<1> QED BY <1>1, <1>2, <1>3

-----------------------------------------------------------------------------
(* Regions *)

Regions == [x : Int, y : Int, w : Int, h : Int] \cup {NoRegion}

\* The rectangle that is diffed does not leave the frame.
LEMMA RectCorners ==
    ASSUME NEW r \in Regions
    PROVE  /\ Rect(r).x0 \in Nat /\ Rect(r).y0 \in Nat
           /\ Rect(r).x1 \in Int /\ Rect(r).y1 \in Int
           /\ Rect(r).x1 <= Width /\ Rect(r).y1 <= Height
<1>1. CASE r = NoRegion
    BY <1>1, FrameAssumption DEF Rect
<1>2. CASE r # NoRegion
    <2>1. r.x \in Int /\ r.y \in Int /\ r.w \in Int /\ r.h \in Int
        BY <1>2 DEF Regions
    <2> QED BY <1>2, <2>1, FrameAssumption DEF Rect, Crop, Least, Most
<1> QED BY <1>1, <1>2

\* Its pixels are those of the frame between its corners.
LEMMA InsideMember ==
    ASSUME NEW r \in Regions, NEW p
    PROVE  p \in Inside(Rect(r)) <=>
             /\ p \in Pixels
             /\ Rect(r).x0 <= p[1] /\ p[1] < Rect(r).x1
             /\ Rect(r).y0 <= p[2] /\ p[2] < Rect(r).y1
<1> DEFINE c == Rect(r)
<1>1. /\ c.x0 \in Nat /\ c.y0 \in Nat /\ c.x1 \in Int /\ c.y1 \in Int
      /\ c.x1 <= Width /\ c.y1 <= Height
    BY RectCorners
<1> HIDE DEF c
<1>2. \A n \in Int : n \in c.x0..c.x1 - 1 <=> n \in 0..Width - 1 /\ c.x0 <= n /\ n < c.x1
    BY <1>1, FrameAssumption
<1>3. \A n \in Int : n \in c.y0..c.y1 - 1 <=> n \in 0..Height - 1 /\ c.y0 <= n /\ n < c.y1
    BY <1>1, FrameAssumption
<1>4. ASSUME p \in Inside(c)
      PROVE  p \in Pixels /\ c.x0 <= p[1] /\ p[1] < c.x1 /\ c.y0 <= p[2] /\ p[2] < c.y1
    <2>1. p = <<p[1], p[2]>> /\ p[1] \in c.x0..c.x1 - 1 /\ p[2] \in c.y0..c.y1 - 1
        BY <1>4 DEF Inside
    <2>2. p[1] \in Int /\ p[2] \in Int
        BY <2>1, <1>1
    <2>3. p[1] \in 0..Width - 1 /\ p[2] \in 0..Height - 1
        BY <2>1, <2>2, <1>2, <1>3
    <2>4. c.x0 <= p[1] /\ p[1] < c.x1 /\ c.y0 <= p[2] /\ p[2] < c.y1
        BY <2>1, <2>2, <1>2, <1>3
    <2> QED BY <2>1, <2>3, <2>4, Zenon DEF Pixels
<1>5. ASSUME p \in Pixels, c.x0 <= p[1], p[1] < c.x1, c.y0 <= p[2], p[2] < c.y1
      PROVE  p \in Inside(c)
    <2>1. p = <<p[1], p[2]>> /\ p[1] \in 0..Width - 1 /\ p[2] \in 0..Height - 1
        BY <1>5 DEF Pixels
    <2>2. p[1] \in Int /\ p[2] \in Int
        BY <2>1, FrameAssumption
    <2>3. p[1] \in c.x0..c.x1 - 1 /\ p[2] \in c.y0..c.y1 - 1
        BY <2>1, <2>2, <1>2, <1>3, <1>5
    <2> QED BY <2>1, <2>3, Zenon DEF Inside
<1> QED BY <1>4, <1>5, Zenon DEF c

\* A frame has finitely many pixels.
LEMMA PixelsFinite == IsFiniteSet(Pixels)
<1>1. IsFiniteSet(0..Width - 1) /\ IsFiniteSet(0..Height - 1)
    BY FrameAssumption, FS_Interval
<1> QED BY <1>1, FS_Product, Zenon DEF Pixels

\* A rectangle that is not empty has pixels, finitely many of the frame.
LEMMA InsideFacts ==
    ASSUME NEW r \in Regions
    PROVE  /\ Inside(Rect(r)) \subseteq Pixels /\ IsFiniteSet(Inside(Rect(r)))
           /\ Cardinality(Inside(Rect(r))) \in Nat
           /\ ~Empty(Rect(r)) => Cardinality(Inside(Rect(r))) # 0
<1>1. Inside(Rect(r)) \subseteq Pixels
    BY InsideMember, Zenon
<1>2. IsFiniteSet(Inside(Rect(r)))
    BY <1>1, PixelsFinite, FS_Subset, Zenon
<1>3. ASSUME ~Empty(Rect(r)) PROVE Inside(Rect(r)) # {}
    <2> DEFINE c == Rect(r)
    <2>1. /\ c.x0 \in Int /\ c.y0 \in Int /\ c.x1 \in Int /\ c.y1 \in Int
          /\ c.x0 < c.x1 /\ c.y0 < c.y1
        BY <1>3, RectCorners DEF Empty
    <2> HIDE DEF c
    <2>2. c.x0 \in c.x0..c.x1 - 1 /\ c.y0 \in c.y0..c.y1 - 1
        BY <2>1
    <2>3. <<c.x0, c.y0>> \in Inside(c)
        BY <2>2 DEF Inside
    <2> QED BY <2>3 DEF c
<1> QED BY <1>1, <1>2, <1>3, FS_EmptySet, FS_CardinalityType, Zenon

\* A region of non-negative size selects what it asks for.
LEMMA AskedIsInside ==
    ASSUME NEW r \in Regions, r = NoRegion \/ (r.w >= 0 /\ r.h >= 0)
    PROVE  Inside(Rect(r)) = Asked(r)
<1>1. CASE r = NoRegion
    <2>1. Rect(r) = [x0 |-> 0, y0 |-> 0, x1 |-> Width, y1 |-> Height]
        BY <1>1 DEF Rect
    <2>2. Rect(r).x0 = 0 /\ Rect(r).y0 = 0 /\ Rect(r).x1 = Width /\ Rect(r).y1 = Height
        BY <2>1
    <2>3. Inside(Rect(r)) = Pixels
        BY <2>2, Zenon DEF Inside, Pixels
    <2> QED BY <1>1, <2>3 DEF Asked
<1>2. CASE r # NoRegion
    <2>1. r.x \in Int /\ r.y \in Int /\ r.w \in Int /\ r.h \in Int /\ r.w >= 0 /\ r.h >= 0
        BY <1>2 DEF Regions
    <2>2. ASSUME NEW p \in Pixels
          PROVE  p \in Inside(Rect(r)) <=> p \in Asked(r)
        <3>1. p[1] \in 0..Width - 1 /\ p[2] \in 0..Height - 1
            BY DEF Pixels
        <3>2. Rect(r).x0 <= p[1] /\ p[1] < Rect(r).x1 <=> r.x <= p[1] /\ p[1] < r.x + r.w
            BY <3>1, <2>1, <1>2, FrameAssumption DEF Rect, Crop, Least, Most
        <3>3. Rect(r).y0 <= p[2] /\ p[2] < Rect(r).y1 <=> r.y <= p[2] /\ p[2] < r.y + r.h
            BY <3>1, <2>1, <1>2, FrameAssumption DEF Rect, Crop, Least, Most
        <3> QED BY <3>2, <3>3, <1>2, InsideMember DEF Asked
    <2>3. Inside(Rect(r)) \subseteq Pixels /\ Asked(r) \subseteq Pixels
        BY <1>2, InsideFacts DEF Asked
    <2> QED BY <2>2, <2>3
<1> QED BY <1>1, <1>2

\* A region of negative size asks for nothing.
LEMMA NothingAsked ==
    ASSUME NEW r \in Regions, r # NoRegion, r.w < 0 \/ r.h < 0
    PROVE  Asked(r) = {}
<1>1. r.x \in Int /\ r.y \in Int /\ r.w \in Int /\ r.h \in Int
    BY DEF Regions
<1>2. ASSUME NEW p \in Asked(r) PROVE FALSE
    <2>1. p \in Pixels /\ r.x <= p[1] /\ p[1] < r.x + r.w /\ r.y <= p[2] /\ p[2] < r.y + r.h
        BY <1>2 DEF Asked
    <2>2. p[1] \in 0..Width - 1 /\ p[2] \in 0..Height - 1
        BY <2>1 DEF Pixels
    <2> QED BY <2>1, <2>2, <1>1, FrameAssumption
<1> QED BY <1>2

-----------------------------------------------------------------------------
(* The inductive invariant: an answer is the summary of as many frames as   *)
(* were asked for, and of the delays between them.                          *)

BurstInv ==
    /\ req \in Scenarios
    /\ frames \in Seq(req.pictures) /\ Len(frames) <= N
    /\ delays \in Seq(req.delays)
    /\ Len(delays) = IF frames = <<>> THEN 0 ELSE Len(frames) - 1
    /\ status \in {"capturing", "answered", "error"}
    /\ status # "capturing" => Len(frames) = N
    /\ Answered => /\ ~Unusable(frames, req.region)
                   /\ result = Summary(frames, delays, Rect(req.region), req.threshold)
    /\ Error => Unusable(frames, req.region)

\* What ScenariosAssumption says of one scenario.
LEMMA ScenarioFacts ==
    ASSUME NEW sc \in Scenarios
    PROVE  /\ sc.region \in Regions /\ sc.threshold \in Nat
           /\ sc.frames \in Nat /\ sc.frames >= 2
           /\ sc.pictures \subseteq [Pixels -> Levels] \cup Unreadable
           /\ sc.delays \subseteq Nat
<1>1. sc \in ScenarioType
    BY ScenariosAssumption
<1> QED BY <1>1 DEF ScenarioType, Regions

\* The invariant holds in every state the burst reaches.
THEOREM BurstInductive == Spec => []BurstInv
<1>1. Init => BurstInv
    <2> SUFFICES ASSUME Init PROVE BurstInv
        OBVIOUS
    <2>1. N \in Nat
        BY ScenarioFacts DEF Init, N
    <2> QED BY <2>1 DEF Init, BurstInv, Answered, Error
<1>2. BurstInv /\ [Next]_burstVars => BurstInv'
    <2> SUFFICES ASSUME BurstInv, [Next]_burstVars PROVE BurstInv'
        OBVIOUS
    <2>1. N \in Nat /\ req.frames \in Nat
        BY ScenarioFacts DEF BurstInv, N
    <2>2. CASE Capture
        <3>1. /\ status = "capturing" /\ status' = status /\ req' = req /\ result' = result
              /\ Len(frames) < req.frames
            BY <2>2 DEF Capture
        <3>2. PICK f \in req.pictures : frames' = Append(frames, f)
            BY <2>2 DEF Capture
        <3>3. frames \in Seq(req.pictures) /\ delays \in Seq(req.delays)
            BY DEF BurstInv
        <3>4. /\ frames' \in Seq(req'.pictures) /\ Len(frames') = Len(frames) + 1
              /\ Len(frames') <= N' /\ frames' # <<>>
            BY <3>1, <3>2, <3>3, <2>1 DEF N
        <3>5. delays' \in Seq(req'.delays) /\ Len(delays') = Len(frames') - 1
            <4>1. CASE frames = <<>>
                BY <4>1, <3>1, <3>3, <3>4, <2>2 DEF Capture, BurstInv
            <4>2. CASE frames # <<>>
                <5>1. PICK d \in req.delays : delays' = Append(delays, d)
                    BY <4>2, <2>2 DEF Capture
                <5>2. Len(delays) = Len(frames) - 1
                    BY <4>2 DEF BurstInv
                <5>3. delays' \in Seq(req.delays) /\ Len(delays') = Len(delays) + 1
                    BY <5>1, <3>3
                <5> QED BY <5>2, <5>3, <3>1, <3>3, <3>4
            <4> QED BY <4>1, <4>2
        <3> QED BY <3>1, <3>4, <3>5 DEF BurstInv, Answered, Error
    <2>3. CASE analyzeFrames
        <3>1. /\ status = "capturing" /\ Len(frames) = req.frames
              /\ req' = req /\ frames' = frames /\ delays' = delays
            BY <2>3 DEF analyzeFrames
        <3>2. CASE Unusable(frames, req.region)
            <4>1. status' = "error"
                BY <2>3, <3>2 DEF analyzeFrames
            <4>2. Unusable(frames, req.region)'
                BY <3>1, <3>2 DEF Unusable
            <4> QED BY <4>1, <4>2, <3>1 DEF BurstInv, Answered, Error, N
        <3>3. CASE ~Unusable(frames, req.region)
            <4>1. /\ status' = "answered"
                  /\ result' = Summary(frames, delays, Rect(req.region), req.threshold)
                BY <2>3, <3>3 DEF analyzeFrames
            <4>2. Summary(frames, delays, Rect(req.region), req.threshold)'
                    = Summary(frames, delays, Rect(req.region), req.threshold)
                BY <3>1
            <4>3. ~Unusable(frames, req.region)'
                BY <3>1, <3>3 DEF Unusable
            <4> QED BY <4>1, <4>2, <4>3, <3>1 DEF BurstInv, Answered, Error, N
        <3> QED BY <3>2, <3>3
    <2>4. CASE Over \/ UNCHANGED burstVars
        <3>1. UNCHANGED <<req, frames, delays, status, result>>
            BY <2>4 DEF Over, burstVars
        <3> QED BY <3>1 DEF BurstInv, Answered, Error, N, Unusable
    <2> QED BY <2>2, <2>3, <2>4 DEF Next
<1> QED BY <1>1, <1>2, PTL DEF Spec

-----------------------------------------------------------------------------
(* What an answer is made of *)

Diffs == Series(frames, Rect(req.region))
Area == Cardinality(Inside(Rect(req.region)))
Top == Max({Diffs[i] : i \in DOMAIN Diffs})

\* A burst is of at least two frames (burst.go:125-134).
LEMMA FrameCount ==
    ASSUME BurstInv
    PROVE  /\ N \in Nat /\ N >= 2 /\ req.region \in Regions
           /\ req.threshold \in Nat /\ req.delays \subseteq Nat
    BY ScenarioFacts DEF BurstInv, N

\* There is a diff between any two frames that follow each other, of at most all pixels.
LEMMA DiffFacts ==
    ASSUME BurstInv, Answered
    PROVE  /\ Area \in Nat \ {0} /\ N - 1 \in Nat \ {0}
           /\ Diffs \in [1..N - 1 -> Nat] /\ DOMAIN Diffs = 1..N - 1 /\ Len(Diffs) = N - 1
           /\ \A i \in 1..N - 1 : Diffs[i] <= Area
           /\ IsFiniteSet(1..N - 1) /\ Cardinality(1..N - 1) = N - 1 /\ 1..N - 1 # {}
<1>1. /\ N \in Nat /\ N >= 2 /\ req.region \in Regions
      /\ Len(frames) = N /\ ~Unusable(frames, req.region)
    BY FrameCount DEF BurstInv, Answered
<1>2. ~Empty(Rect(req.region))
    BY <1>1 DEF Unusable
<1>3. IsFiniteSet(Inside(Rect(req.region))) /\ Area \in Nat \ {0}
    BY <1>1, <1>2, InsideFacts DEF Area
<1>4. ASSUME NEW i \in 1..N - 1
      PROVE  LET c == {p \in Inside(Rect(req.region)) : Far(frames[i][p], frames[i + 1][p])}
             IN  Cardinality(c) \in Nat /\ Cardinality(c) <= Area
    BY <1>3, FS_Subset, FS_CardinalityType, Zenon DEF Area
<1>5. Diffs = [i \in 1..N - 1 |-> Cardinality({p \in Inside(Rect(req.region)) :
                                                  Far(frames[i][p], frames[i + 1][p])})]
    BY <1>1 DEF Diffs, Series
<1>6. /\ Diffs \in [1..N - 1 -> Nat] /\ DOMAIN Diffs = 1..N - 1
      /\ \A i \in 1..N - 1 : Diffs[i] <= Area
    BY <1>4, <1>5
<1>7. N - 1 \in Nat \ {0} /\ Len(Diffs) = N - 1
    BY <1>1, <1>6
<1>8. IsFiniteSet(1..N - 1) /\ Cardinality(1..N - 1) = N - 1 /\ 1 \in 1..N - 1
    BY <1>1, FS_Interval
<1> QED BY <1>3, <1>6, <1>7, <1>8

\* There is a delay before every frame but the first.
LEMMA DelayFacts ==
    ASSUME BurstInv, Answered
    PROVE  delays \in [1..N - 1 -> Nat] /\ \A i \in 1..N - 1 : delays[i] \in req.delays
<1>1. /\ N \in Nat /\ N >= 2 /\ req.delays \subseteq Nat
      /\ Len(frames) = N /\ delays \in Seq(req.delays)
    BY FrameCount DEF BurstInv, Answered
<1>2. Len(delays) = N - 1
    BY <1>1 DEF BurstInv
<1> QED BY <1>1, <1>2

\* The largest diff is one of them, and the sum is at most as if all were as large.
LEMMA TopFacts ==
    ASSUME BurstInv, Answered
    PROVE  /\ Top \in Nat /\ Top <= Area /\ \A i \in 1..N - 1 : Diffs[i] <= Top
           /\ \E i \in 1..N - 1 : Top = Diffs[i]
           /\ Total(Diffs) \in Nat /\ Total(Diffs) <= (N - 1) * Top
<1> DEFINE T == {Diffs[i] : i \in DOMAIN Diffs}
<1>1. T \in SUBSET Nat /\ T # {} /\ \A y \in T : y <= Area
    BY DiffFacts
<1>2. Max(T) \in T /\ \A y \in T : y <= Max(T)
    BY <1>1, DiffFacts, MaxOf
<1>3. Top = Max(T)
    BY DEF Top
<1> HIDE DEF T
<1>4. Top \in Nat /\ Top <= Area
    BY <1>1, <1>2, <1>3
<1>5. (\A i \in 1..N - 1 : Diffs[i] <= Top) /\ \E i \in 1..N - 1 : Top = Diffs[i]
    BY <1>2, <1>3, DiffFacts DEF T
<1>6. Total(Diffs) \in Nat
    BY DiffFacts, TotalFacts
<1>7. Total(Diffs) <= Cardinality(1..N - 1) * Top
    BY <1>4, <1>5, DiffFacts, TotalAtMost
<1> QED BY <1>4, <1>5, <1>6, <1>7, DiffFacts

\* The fields of the answer, in terms of the diffs and the delays.
LEMMA AnswerFields ==
    ASSUME BurstInv, Answered
    PROVE  /\ result.interval = Median(delays)
           /\ result.diffs = [i \in 1..N - 1 |-> round1(100 * Diffs[i], Area)]
           /\ result.max = round1(100 * Top, Area)
           /\ result.mean = round1(100 * Total(Diffs), Area * (N - 1))
           /\ result.flicker = (100 * Top >= Threshold(req.threshold) * Area)
           /\ result.oscillation = detectOscillation(Diffs, Median(delays))
<1>1. result = Summary(frames, delays, Rect(req.region), req.threshold)
    BY DEF BurstInv
<1>2. DOMAIN Diffs = 1..N - 1 /\ Len(Diffs) = N - 1
    BY DiffFacts
<1> QED BY <1>1, <1>2, Zenon DEF Summary, Diffs, Area, Top

-----------------------------------------------------------------------------
(* The properties *)

\* An answer has a figure for each pair of frames, a share between none and all,
\* no mean above the largest, an interval that was measured (burst.go:239-271).
THEOREM BurstTypeCorrect == Spec => []BurstTypeOK
<1>1. BurstInv => BurstTypeOK
    <2> SUFFICES ASSUME BurstInv, Answered PROVE BurstTypeOK
        BY DEF BurstTypeOK
    <2>1. \A i \in 1..N - 1 : round1(100 * Diffs[i], Area) \in 0..result.max
        <3> SUFFICES ASSUME NEW i \in 1..N - 1
                     PROVE  round1(100 * Diffs[i], Area) \in 0..result.max
            OBVIOUS
        <3>1. Diffs[i] \in Nat /\ Diffs[i] <= Top /\ Top \in Nat /\ Area \in Nat \ {0}
            BY DiffFacts, TopFacts
        <3>2. 100 * Diffs[i] \in Nat /\ 100 * Top \in Nat
              /\ (100 * Diffs[i]) * Area <= (100 * Top) * Area
            BY <3>1, ProductMonotone
        <3>3. round1(100 * Diffs[i], Area) <= round1(100 * Top, Area)
            BY <3>1, <3>2, RoundRatio
        <3>4. round1(100 * Diffs[i], Area) \in Nat /\ round1(100 * Top, Area) \in Nat
            BY <3>1, <3>2, RoundFacts
        <3> QED BY <3>3, <3>4, AnswerFields
    <2>2. result.max <= 1000
        <3>1. Top \in Nat /\ Top <= Area /\ Area \in Nat \ {0}
            BY DiffFacts, TopFacts
        <3>2. round1(100 * Top, Area) \in 0..1000
            BY <3>1, RoundOfPart
        <3>3. result.max = round1(100 * Top, Area)
            BY AnswerFields
        <3> QED BY <3>2, <3>3
    <2>3. result.mean \in 0..result.max
        <3> DEFINE n == N - 1
                   sum == Total(Diffs)
        <3>1. /\ sum \in Nat /\ Top \in Nat /\ Area \in Nat \ {0} /\ n \in Nat \ {0}
              /\ sum <= n * Top
            BY DiffFacts, TopFacts
        <3> HIDE DEF n, sum
        <3>2. 100 * sum \in Nat /\ 100 * Top \in Nat /\ Area * n \in Nat \ {0} /\ n * Top \in Nat
            BY <3>1
        <3>3. (100 * sum) * Area <= (100 * (n * Top)) * Area
            BY <3>1, <3>2, ProductMonotone
        <3>4. (100 * (n * Top)) * Area = (100 * Top) * (Area * n)
            BY <3>1
        <3>5. (100 * sum) * Area <= (100 * Top) * (Area * n)
            BY <3>3, <3>4
        <3>6. round1(100 * sum, Area * n) <= round1(100 * Top, Area)
            BY <3>1, <3>2, <3>5, RoundRatio
        <3>7. round1(100 * sum, Area * n) \in Nat /\ round1(100 * Top, Area) \in Nat
            BY <3>1, <3>2, RoundFacts
        <3> QED BY <3>6, <3>7, AnswerFields DEF n, sum
    <2>4. result.interval \in req.delays
        <3>1. IsMedian(delays, Median(delays))
            BY DiffFacts, DelayFacts, MedianFacts, Zenon
        <3>2. Median(delays) \in {delays[i] : i \in DOMAIN delays}
            BY <3>1 DEF IsMedian
        <3> QED BY <3>2, DelayFacts, AnswerFields
    <2>5. DOMAIN result.diffs = 1..N - 1
          /\ \A i \in 1..N - 1 : result.diffs[i] = round1(100 * Diffs[i], Area)
        BY AnswerFields
    <2> QED BY <2>1, <2>2, <2>3, <2>4, <2>5 DEF BurstTypeOK
<1> QED BY <1>1, BurstInductive, PTL

\* Where the series crosses its mean upwards, it rises.
LEMMA NoEventWithoutRise ==
    ASSUME NEW n \in Nat, NEW s \in [1..n -> Nat], Len(s) = n, NEW e \in Events(s)
    PROVE  e \in 2..n /\ s[e - 1] < s[e]
<1>1. e \in 2..n /\ s[e - 1] * n < Total(s) /\ s[e] * n >= Total(s)
    BY DEF Events
<1>2. e - 1 \in 1..n /\ e \in 1..n
    BY <1>1
<1>3. s[e - 1] \in Nat /\ s[e] \in Nat
    BY <1>2
<1>4. IsFiniteSet(1..n)
    BY FS_Interval
<1>5. Total(s) \in Nat
    BY <1>4, TotalFacts
<1>6. ASSUME s[e] <= s[e - 1] PROVE FALSE
    <2>1. s[e] * n <= s[e - 1] * n /\ s[e] * n \in Nat /\ s[e - 1] * n \in Nat
        BY <1>3, <1>6, ProductMonotone
    <2> QED BY <2>1, <1>1, <1>5
<1> QED BY <1>1, <1>3, <1>6

\* "keeps a static scene reading as 0%" (burst.go:25): a scene in which nothing
\* moves by more than the tolerance has all figures 0 and no flag.
THEOREM StaticScenesAreQuiet == Spec => []StaticIsQuiet
<1>1. BurstInv => StaticIsQuiet
    <2> SUFFICES ASSUME BurstInv, Answered,
                        \A i \in 1..N - 1 : \A p \in Pixels : ~Far(frames[i][p], frames[i + 1][p])
                 PROVE  /\ result.max = 0 /\ result.mean = 0
                        /\ ~result.flicker /\ ~result.oscillation.detected
        BY DEF StaticIsQuiet
    <2>1. Area \in Nat \ {0} /\ N - 1 \in Nat \ {0} /\ Diffs \in [1..N - 1 -> Nat]
          /\ Len(Diffs) = N - 1 /\ IsFiniteSet(1..N - 1)
        BY DiffFacts
    <2>2. \A i \in 1..N - 1 : Diffs[i] = 0
        <3>1. Len(frames) = N
            BY DEF BurstInv, Answered
        <3>2. Inside(Rect(req.region)) \subseteq Pixels
            BY FrameCount, InsideFacts
        <3>3. \A i \in 1..N - 1 :
                {p \in Inside(Rect(req.region)) : Far(frames[i][p], frames[i + 1][p])} = {}
            BY <3>2
        <3> QED BY <3>1, <3>3, FS_EmptySet DEF Diffs, Series
    <2>3. Top = 0
        BY <2>2, TopFacts
    <2>4. Total(Diffs) = 0
        BY <2>1, <2>3, TopFacts
    <2>5. result.max = 0
        BY <2>1, <2>3, RoundOfNothing, AnswerFields
    <2>6. result.mean = 0
        <3>1. Area * (N - 1) \in Nat \ {0}
            BY <2>1, ProductPositive
        <3>2. result.mean = round1(100 * Total(Diffs), Area * (N - 1))
            BY AnswerFields
        <3>3. 100 * Total(Diffs) = 0
            BY <2>4
        <3> QED BY <3>1, <3>2, <3>3, RoundOfNothing
    <2>7. ~result.flicker
        <3>1. Threshold(req.threshold) \in Nat \ {0}
            BY FrameCount DEF Threshold, defaultFlickerThresholdPct
        <3>2. Threshold(req.threshold) * Area \in Nat \ {0}
            BY <3>1, <2>1, ProductPositive
        <3>3. ~(100 * Top >= Threshold(req.threshold) * Area)
            BY <3>2, <2>3
        <3>4. result.flicker = (100 * Top >= Threshold(req.threshold) * Area)
            BY AnswerFields
        <3> QED BY <3>3, <3>4
    <2>8. Events(Diffs) = {}
        <3> SUFFICES ASSUME NEW e \in Events(Diffs) PROVE FALSE
            OBVIOUS
        <3>1. e \in 2..N - 1 /\ Diffs[e - 1] < Diffs[e]
            BY <2>1, NoEventWithoutRise
        <3>2. e - 1 \in 1..N - 1 /\ e \in 1..N - 1
            BY <3>1, <2>1
        <3> QED BY <3>1, <3>2, <2>2
    <2>9. ~result.oscillation.detected
        BY <2>8, AnswerFields DEF detectOscillation
    <2> QED BY <2>5, <2>6, <2>7, <2>9
<1> QED BY <1>1, BurstInductive, PTL

\* "a steady per-frame animation never dips below its mean" (burst.go:334-336): that
\* much is true of an animation whose diffs are all the same; SteadyIsMotion shows
\* that one pixel less in one frame is enough for a crossing.
EqualMotionIsMotion ==
    Answered /\ (\A i, j \in 1..N - 1 : Diffs[i] = Diffs[j]) => ~result.oscillation.detected

\* An animation whose diffs are all the same is not called an oscillation.
THEOREM EqualMotionIsNoOscillation == Spec => []EqualMotionIsMotion
<1>1. BurstInv => EqualMotionIsMotion
    <2> SUFFICES ASSUME BurstInv, Answered, \A i, j \in 1..N - 1 : Diffs[i] = Diffs[j],
                        result.oscillation.detected
                 PROVE  FALSE
        BY DEF EqualMotionIsMotion
    <2>1. N - 1 \in Nat /\ Diffs \in [1..N - 1 -> Nat] /\ Len(Diffs) = N - 1
        BY DiffFacts
    <2>2. PICK e \in Events(Diffs) : TRUE
        <3>1. result.oscillation = detectOscillation(Diffs, Median(delays))
            BY AnswerFields
        <3> QED BY <3>1 DEF detectOscillation
    <2>3. e \in 2..N - 1 /\ Diffs[e - 1] < Diffs[e]
        BY <2>1, NoEventWithoutRise
    <2>4. e - 1 \in 1..N - 1 /\ e \in 1..N - 1
        BY <2>1, <2>3
    <2>5. Diffs[e - 1] = Diffs[e] /\ Diffs[e] \in Nat
        BY <2>1, <2>4
    <2> QED BY <2>3, <2>5
<1> QED BY <1>1, BurstInductive, PTL

\* "Restricting the diff to (say) just the 3D canvas" (burst.go:44-45): a figure is
\* the share of the pixels asked for that changed, and a region is an error only
\* if it asks for none of the frame.
THEOREM RegionsDecide == Spec => []RegionDecides
<1>1. BurstInv => RegionDecides
    <2> SUFFICES ASSUME BurstInv, req.region = NoRegion \/ (req.region.w >= 0 /\ req.region.h >= 0)
                 PROVE  /\ Error /\ (\A i \in 1..N : frames[i] \notin Unreadable) =>
                             Asked(req.region) = {}
                        /\ Answered => \A i \in 1..N - 1 :
                             result.diffs[i] = round1(100 * Cardinality(Moved(i)),
                                                      Cardinality(Asked(req.region)))
        BY DEF RegionDecides
    <2>1. Inside(Rect(req.region)) = Asked(req.region) /\ req.region \in Regions
        BY FrameCount, AskedIsInside, Zenon
    <2>2. ASSUME Error, \A i \in 1..N : frames[i] \notin Unreadable
          PROVE  Asked(req.region) = {}
        <3>1. DOMAIN frames = 1..N
            BY <2>2 DEF BurstInv, Error
        <3>2. Unusable(frames, req.region)
            BY <2>2 DEF BurstInv
        <3>3. Empty(Rect(req.region))
            BY <3>1, <3>2, <2>2 DEF Unusable
        <3>4. Inside(Rect(req.region)) = {}
            <4> DEFINE c == Rect(req.region)
            <4>1. c.x0 \in Int /\ c.y0 \in Int /\ c.x1 \in Int /\ c.y1 \in Int
                BY <2>1, RectCorners
            <4>2. c.x0 >= c.x1 \/ c.y0 >= c.y1
                BY <3>3 DEF Empty
            <4> HIDE DEF c
            <4>3. c.x0..c.x1 - 1 = {} \/ c.y0..c.y1 - 1 = {}
                BY <4>1, <4>2
            <4>4. Inside(c) = {}
                BY <4>3 DEF Inside
            <4> QED BY <4>4 DEF c
        <3> QED BY <3>4, <2>1
    <2>3. ASSUME Answered, NEW i \in 1..N - 1
          PROVE  result.diffs[i] = round1(100 * Cardinality(Moved(i)), Cardinality(Asked(req.region)))
        <3>1. Len(frames) = N
            BY <2>3 DEF BurstInv, Answered
        <3>2. Diffs[i] = Cardinality(Moved(i))
            BY <2>1, <3>1 DEF Diffs, Series, Moved
        <3>3. Area = Cardinality(Asked(req.region))
            BY <2>1, Zenon DEF Area
        <3> QED BY <2>3, <3>2, <3>3, AnswerFields
    <2> QED BY <2>2, <2>3
<1> QED BY <1>1, BurstInductive, PTL

-----------------------------------------------------------------------------
(* Events and the gaps between them *)

\* No two frames that follow each other are both rising crossings.
LEMMA EventFacts ==
    ASSUME NEW n \in Nat, NEW s \in [1..n -> Nat], Len(s) = n
    PROVE  /\ Events(s) \in SUBSET (2..n) /\ Events(s) \in SUBSET Nat
           /\ IsFiniteSet(Events(s)) /\ Cardinality(Events(s)) \in Nat
           /\ \A e \in Events(s) : e + 1 \notin Events(s)
<1>1. Events(s) \in SUBSET (2..n)
    BY DEF Events
<1>2. Events(s) \in SUBSET Nat /\ IsFiniteSet(2..n)
    BY <1>1, FS_Interval
<1>3. IsFiniteSet(Events(s))
    BY <1>1, <1>2, FS_Subset, Zenon
<1>4. ASSUME NEW e \in Events(s), e + 1 \in Events(s) PROVE FALSE
    <2>1. e \in 2..n /\ s[e] * n >= Total(s)
        BY DEF Events
    <2>2. s[(e + 1) - 1] * n < Total(s)
        BY <1>4 DEF Events
    <2>3. (e + 1) - 1 = e /\ e \in 1..n
        BY <2>1
    <2>4. s[e] * n \in Nat
        BY <2>3
    <2>5. IsFiniteSet(1..n)
        BY FS_Interval
    <2>6. Total(s) \in Nat
        BY <2>5, TotalFacts
    <2> QED BY <2>1, <2>2, <2>3, <2>4, <2>6
<1> QED BY <1>1, <1>2, <1>3, <1>4, FS_CardinalityType

\* A gap leads from the event before.
LEMMA GapFacts ==
    ASSUME NEW E \in SUBSET Nat, IsFiniteSet(E), E # {}
    PROVE  /\ Min(E) \in E /\ \A e \in E : Min(E) <= e
           /\ Gaps(E) \in [E \ {Min(E)} -> Nat]
           /\ IsFiniteSet(E \ {Min(E)}) /\ Cardinality(E \ {Min(E)}) = Cardinality(E) - 1
           /\ \A e \in E \ {Min(E)} :
                \E d \in E : d < e /\ (\A x \in E : x < e => x <= d) /\ Gaps(E)[e] = e - d
<1>1. Min(E) \in E /\ \A e \in E : Min(E) <= e
    BY MinOf
<1>2. ASSUME NEW e \in E \ {Min(E)}
      PROVE  \E d \in E : d < e /\ (\A x \in E : x < e => x <= d)
                          /\ d = Max({x \in E : x < e})
    <2> DEFINE T == {x \in E : x < e}
    <2>1. e \in Nat /\ Min(E) \in Nat /\ Min(E) <= e /\ Min(E) # e
        BY <1>1
    <2>2. Min(E) \in T
        BY <2>1, <1>1
    <2>3. T \in SUBSET Nat /\ \A x \in T : x <= e
        <3>1. \A x \in T : x \in E /\ x < e
            OBVIOUS
        <3>2. \A x \in T : x \in Nat
            BY <3>1
        <3>3. \A x \in T : x <= e
            BY <2>1, <3>1, <3>2
        <3> QED BY <3>2, <3>3
    <2>4. Max(T) \in T /\ \A x \in T : x <= Max(T)
        BY <2>1, <2>2, <2>3, MaxOf
    <2> QED BY <2>4
<1>3. Gaps(E) = [e \in E \ {Min(E)} |-> e - Max({x \in E : x < e})]
    BY DEF Gaps
<1>4. \A e \in E \ {Min(E)} :
        \E d \in E : d < e /\ (\A x \in E : x < e => x <= d) /\ Gaps(E)[e] = e - d
    BY <1>2, <1>3
<1>5. \A e \in E \ {Min(E)} : Gaps(E)[e] \in Nat
    BY <1>4
<1>6. Gaps(E) \in [E \ {Min(E)} -> Nat]
    BY <1>3, <1>5
<1>7. IsFiniteSet(E \ {Min(E)}) /\ Cardinality(E \ {Min(E)}) = Cardinality(E) - 1
    BY <1>1, FS_RemoveElement
<1> QED BY <1>1, <1>4, <1>6, <1>7

\* A finite set of more than one element has two, one less than the other.
LEMMA TwoOfSeveral ==
    ASSUME NEW E \in SUBSET Nat, IsFiniteSet(E), Cardinality(E) >= 2
    PROVE  \E a, b \in E : a < b
<1>1. E # {}
    BY FS_EmptySet
<1>2. PICK a \in E : TRUE
    BY <1>1
<1>3. E # {a}
    BY FS_Singleton
<1>4. PICK b \in E : b # a
    BY <1>2, <1>3
<1> QED BY <1>4

\* A median gap fits into the burst twice: at least two gaps are as long.
LEMMA MedianGapTwice ==
    ASSUME NEW n \in Nat, NEW E \in SUBSET (2..n), IsFiniteSet(E), E # {},
           Cardinality(E) >= 4
    PROVE  Median(Gaps(E)) \in Nat /\ 2 * Median(Gaps(E)) <= n
<1> DEFINE D == E \ {Min(E)}
           g == Gaps(E)
           m == Median(g)
           Long == D \ Below(g, m)
<1>1. E \in SUBSET Nat
    OBVIOUS
<1>2. /\ g \in [D -> Nat] /\ IsFiniteSet(D) /\ Cardinality(D) = Cardinality(E) - 1
      /\ \A e \in D : \E d \in E : d < e /\ (\A x \in E : x < e => x <= d) /\ g[e] = e - d
    BY <1>1, GapFacts
<1>3. Cardinality(D) \in Nat /\ Cardinality(D) >= 3 /\ D # {}
    BY <1>2, FS_CardinalityType, FS_EmptySet
<1>4. D \in SUBSET (2..n)
    OBVIOUS
<1> HIDE DEF D, g
<1>5. IsMedian(g, m) /\ m \in Nat
    BY <1>2, <1>3, MedianFacts
<1> HIDE DEF m
<1>6. /\ Cardinality(Below(g, m)) \in Nat
      /\ Cardinality(Below(g, m)) <= Cardinality(D) \div 2 /\ Below(g, m) \subseteq D
    BY <1>2, <1>5, UpToCounts DEF IsMedian, Below
<1>7. IsFiniteSet(Long) /\ Cardinality(Long) = Cardinality(D) - Cardinality(Below(g, m))
    <2>1. D \cap Below(g, m) = Below(g, m)
        BY <1>6
    <2>2. /\ IsFiniteSet(Long)
          /\ Cardinality(Long) = Cardinality(D) - Cardinality(D \cap Below(g, m))
        BY <1>2, FS_Difference, Zenon
    <2> QED BY <2>1, <2>2, Zenon
<1>8. Cardinality(Long) >= 2
    BY <1>3, <1>6, <1>7
<1>9. PICK a, b \in Long : a < b
    <2>1. \A x \in D : x \in Nat
        BY <1>4
    <2>2. Long \in SUBSET Nat
        BY <2>1
    <2> QED BY <2>2, <1>7, <1>8, TwoOfSeveral
<1>10. a \in D /\ b \in D /\ a \in 2..n /\ b \in 2..n /\ g[a] >= m /\ g[b] >= m
    BY <1>2, <1>4, <1>5, <1>9 DEF Below
<1>11. PICK d \in E : d < a /\ g[a] = a - d
    BY <1>2, <1>10
<1>12. PICK c \in E : c < b /\ (\A x \in E : x < b => x <= c) /\ g[b] = b - c
    BY <1>2, <1>10
<1>13. a <= c
    BY <1>9, <1>10, <1>12 DEF D
<1>14. d \in 2..n /\ c \in 2..n
    OBVIOUS
<1>15. 2 * m <= n
    BY <1>5, <1>10, <1>11, <1>12, <1>13, <1>14
<1> QED BY <1>5, <1>15 DEF m, g

\* Events are at least two frames apart, so there is room for half as many.
LEMMA EventsAreSparse ==
    ASSUME NEW n \in Nat, NEW E \in SUBSET (2..n), \A e \in E : e + 1 \notin E
    PROVE  2 * Cardinality(E) <= n
<1> DEFINE F == {e - 1 : e \in E}
           down == [e \in E |-> e - 1]
<1>1. IsFiniteSet(1..n) /\ Cardinality(1..n) = n
    BY FS_Interval
<1>2. E \subseteq 1..n /\ F \subseteq 1..n
    OBVIOUS
<1>3. IsFiniteSet(E) /\ IsFiniteSet(F) /\ Cardinality(E) \in Nat
    BY <1>1, <1>2, FS_Subset, FS_CardinalityType, Zenon
<1>4. down \in Bijection(E, F)
    BY DEF Bijection, Injection, Surjection, IsInjective
<1>5. Cardinality(F) = Cardinality(E)
    BY <1>3, <1>4, FS_Bijection DEF ExistsBijection
<1>6. E \cap F = {}
    <2> SUFFICES ASSUME NEW x \in E, x \in F PROVE FALSE
        OBVIOUS
    <2>1. PICK e \in E : x = e - 1
        OBVIOUS
    <2>2. e = x + 1
        BY <2>1
    <2> QED BY <2>2
<1> HIDE DEF F
<1>7. Cardinality(E \cup F) = Cardinality(E) + Cardinality(F)
    <2>1. Cardinality(E \cup F) = Cardinality(E) + Cardinality(F) - Cardinality(E \cap F)
        BY <1>3, FS_Union, Zenon
    <2>2. Cardinality(E \cap F) = 0
        BY <1>6, FS_EmptySet, Zenon
    <2> QED BY <2>1, <2>2, <1>3, <1>5
<1>8. Cardinality(E \cup F) <= n
    <2>1. E \cup F \subseteq 1..n
        BY <1>2
    <2> QED BY <2>1, <1>1, FS_Subset
<1> QED BY <1>3, <1>5, <1>7, <1>8

\* At least half of the values are no less than the median.
LEMMA MedianTimesHalf ==
    ASSUME NEW n \in Nat \ {0}, NEW f \in [1..n -> Nat], NEW m \in Nat, 2 * m <= n
    PROVE  m * Median(f) <= Total(f)
<1> DEFINE d == Median(f)
           High == (1..n) \ Below(f, d)
<1>1. IsFiniteSet(1..n) /\ Cardinality(1..n) = n /\ 1 \in 1..n
    BY FS_Interval
<1>2. IsMedian(f, d) /\ d \in Nat
    BY <1>1, MedianFacts
<1> HIDE DEF d
<1>3. /\ Cardinality(Below(f, d)) \in Nat
      /\ Cardinality(Below(f, d)) <= n \div 2 /\ Below(f, d) \subseteq 1..n
    BY <1>1, <1>2, UpToCounts DEF IsMedian, Below
<1>4. Cardinality(High) = n - Cardinality(Below(f, d))
    <2>1. (1..n) \cap Below(f, d) = Below(f, d)
        BY <1>3
    <2>2. Cardinality(High) = Cardinality(1..n) - Cardinality((1..n) \cap Below(f, d))
        BY <1>1, FS_Difference, Zenon
    <2> QED BY <2>1, <2>2, <1>1
<1>5. m <= Cardinality(High) /\ Cardinality(High) \in Nat
    BY <1>3, <1>4
<1>6. \A i \in High : f[i] >= d
    BY <1>2 DEF Below
<1>7. Cardinality(High) * d <= Total(f)
    BY <1>1, <1>2, <1>6, TotalAtLeast
<1>8. m * d <= Cardinality(High) * d /\ Cardinality(High) * d \in Nat /\ m * d \in Nat
    BY <1>2, <1>5, ProductMonotone
<1>9. Total(f) \in Nat
    BY <1>1, TotalFacts
<1>10. m * d <= Total(f)
    BY <1>7, <1>8, <1>9
<1> QED BY <1>10 DEF d

\* The squared distance from the mean of each value, times the square of how many
\* values there are, which makes it whole.
Spread(f) ==
    [i \in DOMAIN f |->
        LET away == Cardinality(DOMAIN f) * f[i] - Total(f) IN away * away]

\* The sum of the squared distances, from the sum of the squares.
LEMMA SpreadOfSquares ==
    ASSUME NEW D, IsFiniteSet(D), NEW f \in [D -> Nat]
    PROVE  LET n == Cardinality(D)
           IN  Total(Spread(f)) + n * (Total(f) * Total(f)) = n * n * Total(Squares(f))
<1> DEFINE n == Cardinality(D)
           t == Total(f)
           s == Spread(f)
           sq == Squares(f)
           crossed == [i \in D |-> (2 * n * t) * f[i]]
           scaled == [i \in D |-> (n * n) * sq[i]]
           level == [i \in D |-> t * t]
<1>1. n \in Nat /\ t \in Nat /\ DOMAIN f = D
    BY FS_CardinalityType, TotalFacts
<1>2. n * n \in Nat /\ 2 * n * t \in Nat /\ t * t \in Nat
    BY <1>1
<1>3. sq \in [D -> Nat] /\ \A i \in D : sq[i] = f[i] * f[i]
    BY <1>1 DEF Squares
<1>4. s \in [D -> Nat] /\ \A i \in D : s[i] = (n * f[i] - t) * (n * f[i] - t)
    <2>1. s = [i \in D |-> (n * f[i] - t) * (n * f[i] - t)]
        BY <1>1 DEF Spread
    <2> HIDE DEF n, t, s
    <2>2. \A i \in D : (n * f[i] - t) * (n * f[i] - t) \in Nat
        <3>1. \A x \in Int : x * x \in Nat
            OBVIOUS
        <3>2. \A i \in D : n * f[i] - t \in Int
            BY <1>1
        <3> QED BY <3>1, <3>2
    <2> QED BY <2>1, <2>2
<1> HIDE DEF n, t, s, sq
<1>5. crossed \in [D -> Nat] /\ scaled \in [D -> Nat] /\ level \in [D -> Nat]
    BY <1>2, <1>3
<1>6. [i \in D |-> s[i] + crossed[i]] = [i \in D |-> scaled[i] + level[i]]
    <2> SUFFICES ASSUME NEW i \in D PROVE s[i] + crossed[i] = scaled[i] + level[i]
        OBVIOUS
    <2> DEFINE x == f[i]
    <2>1. x \in Nat /\ s[i] = (n * x - t) * (n * x - t) /\ sq[i] = x * x
        BY <1>3, <1>4
    <2>2. crossed[i] = (2 * n * t) * x /\ scaled[i] = (n * n) * (x * x) /\ level[i] = t * t
        BY <2>1
    <2> HIDE DEF x
    <2>3. (n * x - t) * (n * x - t) + (2 * n * t) * x = (n * n) * (x * x) + t * t
        BY <1>1, <2>1
    <2> QED BY <2>1, <2>2, <2>3
<1> HIDE DEF crossed, scaled, level
<1>7. Total(s) + Total(crossed) = Total(scaled) + Total(level)
    <2>1. Total([i \in D |-> s[i] + crossed[i]]) = Total(s) + Total(crossed)
        BY <1>4, <1>5, TotalOfSum, Zenon
    <2>2. Total([i \in D |-> scaled[i] + level[i]]) = Total(scaled) + Total(level)
        BY <1>5, TotalOfSum, Zenon
    <2> QED BY <2>1, <2>2, <1>6, Zenon
<1>8. Total(crossed) = (2 * n * t) * t
    BY <1>2, TotalOfMultiple DEF crossed, t
<1>9. Total(scaled) = (n * n) * Total(sq)
    BY <1>2, <1>3, TotalOfMultiple DEF scaled
<1>10. Total(level) = n * (t * t)
    <2>1. \A i \in D : level[i] = t * t
        BY DEF level
    <2> QED BY <1>2, <1>5, <2>1, TotalOfConstant DEF n
<1>11. Total(s) \in Nat /\ Total(sq) \in Nat
    BY <1>3, <1>4, TotalFacts
<1>12. (2 * n * t) * t = n * (t * t) + n * (t * t) /\ n * (t * t) \in Nat
    BY <1>1
<1>13. Total(s) + n * (t * t) = n * n * Total(sq)
    <2> DEFINE x == n * (t * t)
               y == (n * n) * Total(sq)
    <2>1. x \in Nat /\ y \in Nat /\ Total(s) \in Nat
        BY <1>1, <1>11, <1>12
    <2>2. Total(s) + (x + x) = y + x
        BY <1>7, <1>8, <1>9, <1>10, <1>12, Zenon
    <2> HIDE DEF x, y
    <2>3. Total(s) + x = y
        BY <2>1, <2>2
    <2> QED BY <2>3 DEF x, y
<1> QED BY <1>13 DEF n, t, s, sq

\* detectOscillation compares the coefficient of variation with 1/2 (burst.go:371-376):
\* the root of the mean squared distance, over the mean.  That is what Regular says,
\* which multiplies across: with n gaps of sum t, and the distances times n,
\* sqrt(sum / n^3) / (t / n) <= 1/2.
THEOREM RegularIsLowVariation ==
    ASSUME NEW D, IsFiniteSet(D), NEW g \in [D -> Nat]
    PROVE  Regular(g) <=>
             /\ Cardinality(D) >= 3
             /\ 4 * Total(Spread(g)) <= Cardinality(D) * (Total(g) * Total(g))
<1> DEFINE n == Cardinality(D)
           a == Total(g) * Total(g)
           b == Total(Squares(g))
           v == Total(Spread(g))
<1>1. n \in Nat /\ Total(g) \in Nat /\ DOMAIN g = D
    BY FS_CardinalityType, TotalFacts
<1>2. a \in Nat
    BY <1>1
<1>3. b \in Nat
    <2>1. \A i \in D : g[i] * g[i] \in Nat
        OBVIOUS
    <2>2. Squares(g) \in [D -> Nat]
        BY <2>1 DEF Squares
    <2> QED BY <2>2, TotalFacts
<1>4. v + n * a = n * n * b
    BY SpreadOfSquares, Zenon
<1>5. Regular(g) <=> n >= 3 /\ 4 * n * b <= 5 * Total(g) * Total(g)
    BY <1>1, Zenon DEF Regular, oscillationMinGaps
<1>6. 5 * Total(g) * Total(g) = 5 * a
    BY <1>1
<1> HIDE DEF n, a, b, v
<1>7. n * n * b \in Nat /\ n * a \in Nat
    BY <1>1, <1>2, <1>3
<1>8. v = n * n * b - n * a
    <2>1. v \in Int
        <3>1. Spread(g) \in [D -> Nat]
            <4>1. \A i \in D : n * g[i] - Total(g) \in Int
                BY <1>1
            <4>2. \A x \in Int : x * x \in Nat
                OBVIOUS
            <4>3. Spread(g) = [i \in D |-> (n * g[i] - Total(g)) * (n * g[i] - Total(g))]
                BY <1>1 DEF Spread, n
            <4> QED BY <4>1, <4>2, <4>3
        <3>2. v \in Nat
            BY <3>1, TotalFacts DEF v
        <3> QED BY <3>2
    <2> QED BY <2>1, <1>4, <1>7
<1>9. ASSUME n >= 3 PROVE 4 * n * b <= 5 * a <=> 4 * v <= n * a
    <2>1. n \in Nat \ {0}
        BY <1>1, <1>9
    <2> DEFINE l == 4 * n * b
               r == 5 * a
    <2>2. l \in Nat /\ r \in Nat /\ l * n = 4 * (n * n * b) /\ r * n = 5 * (n * a)
        BY <1>1, <1>2, <1>3
    <2> HIDE DEF l, r
    <2>3. l <= r <=> l * n <= r * n
        <3>1. ASSUME l <= r PROVE l * n <= r * n
            BY <2>1, <2>2, <3>1, ProductMonotone
        <3>2. ASSUME r < l PROVE ~(l * n <= r * n)
            <4>1. (r + 1) * n <= l * n
                BY <2>1, <2>2, <3>2, ProductMonotone
            <4>2. (r + 1) * n = r * n + n /\ r * n \in Nat /\ l * n \in Nat
                BY <2>1, <2>2
            <4> QED BY <4>1, <4>2, <2>1
        <3> QED BY <2>2, <3>1, <3>2
    <2>4. l * n <= r * n <=> 4 * v <= n * a
        BY <2>2, <1>7, <1>8
    <2> QED BY <2>3, <2>4 DEF l, r
<1> QED BY <1>5, <1>6, <1>9 DEF n, a, v

\* "several cycles" (burst.go:32-34): what is called an oscillation was seen over
\* at least nine frames with four rises, and its period, at least two frames, fits
\* into the burst.
THEOREM OscillationsAreSeveralCycles == Spec => []SeveralCycles
<1>1. BurstInv => SeveralCycles
    <2> SUFFICES ASSUME BurstInv, Answered, result.oscillation.detected
                 PROVE  /\ N >= 9
                        /\ Cardinality({i \in 2..N - 1 : Diffs[i - 1] < Diffs[i]}) >= 4
                        /\ 2 * result.interval <= result.oscillation.period
                        /\ result.oscillation.period <= Total(delays)
        BY DEF SeveralCycles, Diffs
    <2> DEFINE n == N - 1
               E == Events(Diffs)
               g == Gaps(E)
               m == Median(g)
               d == Median(delays)
               Rises == {i \in 2..n : Diffs[i - 1] < Diffs[i]}
    <2>1. N \in Nat /\ n \in Nat \ {0} /\ Diffs \in [1..n -> Nat] /\ Len(Diffs) = n
        BY FrameCount, DiffFacts
    <2>2. /\ E \in SUBSET (2..n) /\ E \in SUBSET Nat /\ IsFiniteSet(E) /\ Cardinality(E) \in Nat
          /\ \A e \in E : e + 1 \notin E
        BY <2>1, EventFacts
    <2>3. /\ E # {} /\ Regular(g)
          /\ result.oscillation = [detected |-> TRUE, period |-> m * d]
        <3>1. result.oscillation = detectOscillation(Diffs, d)
            BY AnswerFields
        <3>2. CASE E # {} /\ Regular(g)
            BY <3>1, <3>2 DEF detectOscillation
        <3>3. CASE ~(E # {} /\ Regular(g))
            BY <3>1, <3>3 DEF detectOscillation
        <3> QED BY <3>2, <3>3
    <2>4. /\ g \in [E \ {Min(E)} -> Nat]
          /\ IsFiniteSet(E \ {Min(E)}) /\ Cardinality(E \ {Min(E)}) = Cardinality(E) - 1
          /\ \A e \in E \ {Min(E)} : \E c \in E : c < e /\ g[e] = e - c
        <3>1. /\ g \in [E \ {Min(E)} -> Nat]
              /\ IsFiniteSet(E \ {Min(E)}) /\ Cardinality(E \ {Min(E)}) = Cardinality(E) - 1
            BY <2>2, <2>3, GapFacts, Zenon
        <3>2. \A e \in E \ {Min(E)} :
                \E c \in E : c < e /\ (\A x \in E : x < e => x <= c) /\ g[e] = e - c
            BY <2>2, <2>3, GapFacts, Zenon
        <3> QED BY <3>1, <3>2, Zenon
    <2>5. Cardinality(E) >= 4
        <3>1. DOMAIN g = E \ {Min(E)}
            BY <2>4
        <3>2. Cardinality(E \ {Min(E)}) >= 3
            BY <3>1, <2>3 DEF Regular, oscillationMinGaps
        <3> QED BY <3>2, <2>2, <2>4
    <2>6. result.interval = d /\ d \in Nat
        <3>1. IsFiniteSet(1..n) /\ 1..n # {}
            BY DiffFacts
        <3>2. delays \in [1..n -> Nat]
            BY DelayFacts
        <3>3. d \in Nat
            BY <3>1, <3>2, MedianFacts, Zenon
        <3> QED BY <3>3, AnswerFields
    <2>7. m \in Nat /\ m >= 2
        <3>1. E \ {Min(E)} # {}
            BY <2>2, <2>4, <2>5, FS_EmptySet
        <3>2. IsMedian(g, m)
            BY <2>4, <3>1, MedianFacts, Zenon
        <3>3. PICK e \in E \ {Min(E)} : m = g[e]
            BY <3>2, <2>4 DEF IsMedian
        <3>4. PICK c \in E : c < e /\ g[e] = e - c
            BY <2>4
        <3>5. c + 1 # e /\ c \in Nat /\ e \in Nat
            BY <2>2
        <3> QED BY <3>3, <3>4, <3>5
    <2>8. 2 * m <= n
        BY <2>1, <2>2, <2>3, <2>5, MedianGapTwice
    <2>9. 2 * Cardinality(E) <= n
        BY <2>1, <2>2, EventsAreSparse
    <2>10. Cardinality(Rises) >= 4
        <3>1. E \subseteq Rises
            BY <2>1, NoEventWithoutRise
        <3>2. IsFiniteSet(2..n)
            BY <2>1, FS_Interval
        <3>3. IsFiniteSet(Rises)
            BY <3>2, FS_Subset, Zenon
        <3>4. Cardinality(E) <= Cardinality(Rises) /\ Cardinality(Rises) \in Nat
            BY <3>1, <3>3, FS_Subset, FS_CardinalityType, Zenon
        <3> QED BY <3>4, <2>2, <2>5
    <2>11. m * d <= Total(delays)
        BY <2>1, <2>7, <2>8, DelayFacts, MedianTimesHalf
    <2>12. 2 * d <= m * d
        BY <2>6, <2>7, ProductMonotone
    <2>13. N >= 9
        BY <2>1, <2>2, <2>5, <2>9
    <2> HIDE DEF m, d
    <2>14. result.oscillation.period = m * d
        BY <2>3
    <2> QED BY <2>6, <2>10, <2>11, <2>12, <2>13, <2>14
<1> QED BY <1>1, BurstInductive, PTL

-----------------------------------------------------------------------------
(* Redraw loops *)

\* What changes every p frames does not change in two frames in a row.
LEMMA PeriodicNotAdjacent ==
    ASSUME NEW p \in Nat, p >= 2, NEW J \in SUBSET Nat,
           NEW k, \A i \in J : i % p = k
    PROVE  \A i \in Nat \ {0} : i \in J => i - 1 \notin J
<1> SUFFICES ASSUME NEW i \in Nat \ {0}, i \in J, i - 1 \in J PROVE FALSE
    OBVIOUS
<1>1. (i - 1) % p = i % p
    OBVIOUS
<1> QED BY <1>1, OtherRemainderBefore

\* The gaps between the frames p divides with remainder k are p.
LEMMA PeriodicGaps ==
    ASSUME NEW p \in Nat \ {0}, NEW E \in SUBSET Nat, IsFiniteSet(E), E # {},
           NEW k, \A e \in E : e % p = k,
           NEW m \in Nat, NEW n \in Nat,
           \A i \in m..n : i % p = k => i \in E, E \subseteq m..n
    PROVE  \A e \in E \ {Min(E)} : Gaps(E)[e] = p
<1> SUFFICES ASSUME NEW e \in E \ {Min(E)} PROVE Gaps(E)[e] = p
    OBVIOUS
<1>1. Min(E) \in E /\ \A x \in E : Min(E) <= x
    BY MinOf, Zenon
<1>2. \A x \in E \ {Min(E)} :
        \E d \in E : d < x /\ (\A y \in E : y < x => y <= d) /\ Gaps(E)[x] = x - d
    BY GapFacts, Zenon
<1>3. PICK d \in E : d < e /\ (\A x \in E : x < e => x <= d) /\ Gaps(E)[e] = e - d
    BY <1>2
<1>4. /\ d \in Nat /\ e \in Nat /\ d % p = k /\ e % p = k /\ e <= n
      /\ Min(E) \in Nat /\ Min(E) % p = k /\ Min(E) >= m /\ Min(E) < e
    <2>1. e \in m..n /\ Min(E) \in m..n /\ e # Min(E) /\ Min(E) <= e
        BY <1>1
    <2> QED BY <2>1, <1>1, <1>3
<1>5. d + p <= e
    BY <1>3, <1>4, NextOfSameRemainder
<1>6. Min(E) + p <= e
    BY <1>4, NextOfSameRemainder
<1>7. e - p \in E
    <2>1. p <= e /\ e - p \in m..n
        BY <1>4, <1>6
    <2>2. (e - p) % p = k
        BY <2>1, <1>4, SameRemainderBefore
    <2> QED BY <2>1, <2>2
<1>8. e - p <= d
    <2>1. e - p < e
        BY <1>4
    <2> QED BY <2>1, <1>3, <1>7
<1> QED BY <1>3, <1>4, <1>5, <1>8

\* A series of the same value on J and nothing elsewhere crosses its mean on J.
LEMMA EventsOfJumps ==
    ASSUME NEW n \in Nat, NEW s \in [1..n -> Nat], Len(s) = n,
           NEW J, \A i \in J : i \in 1..n, J \ {1} # {},
           \A i \in Nat \ {0} : i \in J => i - 1 \notin J,
           NEW c \in Nat \ {0}, \A i \in J : s[i] = c, \A i \in (1..n) \ J : s[i] = 0
    PROVE  Events(s) = J \ {1}
<1> DEFINE t == Cardinality(J) * c
<1>1. IsFiniteSet(1..n) /\ Cardinality(1..n) = n
    BY FS_Interval
<1>2. IsFiniteSet(J) /\ Cardinality(J) \in Nat /\ Cardinality(J) <= n
    <2>1. IsFiniteSet(J) /\ Cardinality(J) <= Cardinality(1..n)
        BY <1>1, FS_Subset, Zenon
    <2> QED BY <2>1, <1>1, FS_CardinalityType
<1>3. Total(s) = t
    <2>1. c \in Nat
        OBVIOUS
    <2>2. Total(s) = Cardinality(J) * c
        <3> DEFINE D == 1..n
        <3>1. IsFiniteSet(D) /\ J \in SUBSET D
            BY <1>1
        <3>2. s = [i \in D |-> IF i \in J THEN c ELSE 0]
            OBVIOUS
        <3> HIDE DEF D
        <3>3. IsFiniteSet(D)
            BY <3>1
        <3>4. J \in SUBSET D
            BY <3>1
        <3>5. Total([i \in D |-> IF i \in J THEN c ELSE 0]) = Cardinality(J) * c
            BY <2>1, <3>3, <3>4, TotalOfJumps
        <3> QED BY <3>2, <3>5
    <2> QED BY <2>2
<1>4. Cardinality(J) # 0
    BY <1>2, FS_EmptySet
<1>5. t \in Nat \ {0} /\ t <= c * n
    BY <1>2, <1>4, ProductPositive, ProductMonotone
<1> HIDE DEF t
<1>6. Events(s) = {e \in 2..n : s[e - 1] * n < t /\ s[e] * n >= t}
    BY <1>3, Zenon DEF Events
<1>7. ASSUME NEW e \in 2..n, e \in J PROVE s[e - 1] * n < t /\ s[e] * n >= t
    <2>1. e \in Nat \ {0} /\ e - 1 \in 1..n
        OBVIOUS
    <2>2. e - 1 \in (1..n) \ J
        BY <2>1, <1>7
    <2>3. s[e - 1] = 0 /\ s[e] = c
        BY <2>2, <1>7
    <2>4. 0 * n = 0
        OBVIOUS
    <2> QED BY <2>3, <2>4, <1>5
<1>8. ASSUME NEW e \in 2..n, e \notin J PROVE ~(s[e] * n >= t)
    <2>1. e \in (1..n) \ J
        BY <1>8
    <2>2. s[e] = 0 /\ 0 * n = 0
        BY <2>1
    <2> QED BY <2>2, <1>5
<1>9. \A e : e \in J \ {1} <=> e \in 2..n /\ e \in J
    <2>1. \A e \in 1..n : e # 1 <=> e \in 2..n
        OBVIOUS
    <2>2. \A e \in J : e \in 1..n
        OBVIOUS
    <2>3. 1 \notin 2..n
        OBVIOUS
    <2> QED BY <2>1, <2>2, <2>3, Zenon
<1> QED BY <1>6, <1>7, <1>8, <1>9

\* Gaps that are all the same are regular.
LEMMA RegularIfConstant ==
    ASSUME NEW D, IsFiniteSet(D), Cardinality(D) >= 3, NEW g \in [D -> Nat],
           NEW p \in Nat, \A e \in D : g[e] = p
    PROVE  Regular(g) /\ Median(g) = p
<1> DEFINE q == Cardinality(D)
<1>1. q \in Nat /\ q >= 3 /\ DOMAIN g = D
    BY FS_CardinalityType
<1>2. D # {}
    BY <1>1, FS_EmptySet
<1>3. Total(g) = q * p
    BY TotalOfConstant
<1>4. Total(Squares(g)) = q * (p * p)
    <2>1. p * p \in Nat
        OBVIOUS
    <2>2. Squares(g) \in [D -> Nat] /\ \A e \in D : Squares(g)[e] = p * p
        BY <2>1, <1>1 DEF Squares
    <2> QED BY <2>1, <2>2, TotalOfConstant
<1> HIDE DEF q
<1>5. 4 * q * (q * (p * p)) = 4 * ((q * p) * (q * p))
    BY <1>1
<1>6. 5 * (q * p) * (q * p) = 5 * ((q * p) * (q * p))
    BY <1>1
<1>7. (q * p) * (q * p) \in Nat
    BY <1>1
<1>8. 4 * q * (q * (p * p)) <= 5 * (q * p) * (q * p)
    BY <1>5, <1>6, <1>7
<1>9. Cardinality(DOMAIN g) = q
    BY <1>1 DEF q
<1>10. Regular(g)
    BY <1>1, <1>3, <1>4, <1>8, <1>9 DEF Regular, oscillationMinGaps
<1> QED BY <1>2, <1>10, MedianOfConstant

\* "a periodic redraw loop" (burst.go:329): a scene that stands still but for the
\* same amount of change every p frames, four times over, is found with its period.
THEOREM RedrawLoopsAreFound == Spec => []RedrawLoopIsFound
<1>1. BurstInv => RedrawLoopIsFound
    <2> SUFFICES ASSUME BurstInv, Answered, NEW p \in 2..N, NEW k \in 0..N, NEW J,
                        J = {i \in 1..N - 1 : i % p = k},
                        Cardinality(J \ {1}) >= 4,
                        \A i \in 1..N - 1 : Moved(i) # {} <=> i \in J,
                        \A i, j \in J : Cardinality(Moved(i)) = Cardinality(Moved(j))
                 PROVE  result.oscillation = [detected |-> TRUE, period |-> p * result.interval]
        BY Zenon DEF RedrawLoopIsFound
    <2> DEFINE n == N - 1
               E == J \ {1}
               g == Gaps(E)
    <2>1. /\ N \in Nat /\ n \in Nat \ {0} /\ p \in Nat \ {0} /\ p >= 2
          /\ Diffs \in [1..n -> Nat] /\ Len(Diffs) = n
          /\ IsFiniteSet(1..n) /\ Cardinality(1..n) = n
        BY FrameCount, DiffFacts
    <2>2. /\ J \in SUBSET (1..n) /\ J \in SUBSET Nat /\ E \in SUBSET Nat /\ E \subseteq 2..n
          /\ (\A i \in J : i % p = k) /\ \A i \in 2..n : i % p = k => i \in E
        BY <2>1
    <2>3. IsFiniteSet(E) /\ E # {}
        <3>1. E \subseteq 1..n
            BY <2>2
        <3>2. IsFiniteSet(E)
            BY <3>1, <2>1, FS_Subset, Zenon
        <3>3. Cardinality(E) # 0
            OBVIOUS
        <3> QED BY <3>2, <3>3, FS_EmptySet, Zenon
    <2>4. PICK j \in J : j \in 1..n /\ Moved(j) # {}
        BY <2>2, <2>3
    <2>5. Inside(Rect(req.region)) = Asked(req.region)
        <3>1. Asked(req.region) # {}
            BY <2>4 DEF Moved
        <3>2. req.region \in Regions
            BY FrameCount
        <3>3. CASE req.region = NoRegion
            BY <3>2, <3>3, AskedIsInside
        <3>4. CASE req.region # NoRegion
            <4>1. req.region.w \in Int /\ req.region.h \in Int
                BY <3>2, <3>4 DEF Regions
            <4>2. ~(req.region.w < 0 \/ req.region.h < 0)
                BY <3>1, <3>2, <3>4, NothingAsked
            <4>3. req.region.w >= 0 /\ req.region.h >= 0
                BY <4>1, <4>2
            <4> QED BY <3>2, <4>3, AskedIsInside
        <3> QED BY <3>3, <3>4
    <2>6. ASSUME NEW i \in 1..n
          PROVE  /\ Diffs[i] = Cardinality(Moved(i)) /\ Diffs[i] \in Nat
                 /\ Diffs[i] = 0 <=> Moved(i) = {}
        <3>1. Len(frames) = N
            BY DEF BurstInv, Answered
        <3>2. Diffs[i] = Cardinality(Moved(i))
            BY <2>5, <3>1 DEF Diffs, Series, Moved
        <3>3. IsFiniteSet(Asked(req.region))
            BY <2>5, FrameCount, InsideFacts
        <3>4. Moved(i) \subseteq Asked(req.region)
            BY DEF Moved
        <3>5. IsFiniteSet(Moved(i))
            BY <3>3, <3>4, FS_Subset, Zenon
        <3> QED BY <3>2, <3>5, <2>1, FS_EmptySet
    <2> DEFINE c == Diffs[j]
    <2>7. c \in Nat \ {0} /\ (\A i \in J : Diffs[i] = c) /\ \A i \in (1..n) \ J : Diffs[i] = 0
        <3>1. c \in Nat \ {0}
            BY <2>4, <2>6
        <3>2. \A i \in J : Diffs[i] = c
            <4> SUFFICES ASSUME NEW i \in J PROVE Diffs[i] = c
                OBVIOUS
            <4>1. i \in 1..n /\ Cardinality(Moved(i)) = Cardinality(Moved(j))
                BY <2>2
            <4> QED BY <4>1, <2>4, <2>6
        <3>3. \A i \in (1..n) \ J : Diffs[i] = 0
            BY <2>6
        <3> QED BY <3>1, <3>2, <3>3
    <2> HIDE DEF c, n
    <2>8. \A i \in Nat \ {0} : i \in J => i - 1 \notin J
        BY <2>1, <2>2, PeriodicNotAdjacent
    <2>9. Events(Diffs) = E
        <3>1. /\ n \in Nat /\ Diffs \in [1..n -> Nat] /\ Len(Diffs) = n
              /\ (\A i \in J : i \in 1..n) /\ J \ {1} # {}
            BY <2>1, <2>2, <2>3
        <3>2. Events(Diffs) = J \ {1}
            BY <3>1, <2>7, <2>8, EventsOfJumps, ZenonT(30)
        <3> QED BY <3>2
    <2>10. \A e \in E \ {Min(E)} : g[e] = p
        <3>1. \A e \in E : e % p = k
            BY <2>2
        <3> QED BY <2>1, <2>2, <2>3, <3>1, PeriodicGaps
    <2>11. /\ g \in [E \ {Min(E)} -> Nat] /\ IsFiniteSet(E \ {Min(E)})
           /\ Cardinality(E \ {Min(E)}) = Cardinality(E) - 1
        BY <2>2, <2>3, GapFacts, Zenon
    <2>12. Cardinality(E \ {Min(E)}) >= 3
        <3>1. Cardinality(E) \in Nat
            BY <2>3, FS_CardinalityType
        <3> QED BY <3>1, <2>11
    <2>13. Regular(g) /\ Median(g) = p
        <3> DEFINE D == E \ {Min(E)}
        <3>1. p \in Nat /\ g \in [D -> Nat] /\ IsFiniteSet(D) /\ Cardinality(D) >= 3
            BY <2>1, <2>11, <2>12
        <3>2. \A e \in D : g[e] = p
            BY <2>10
        <3> HIDE DEF D, g
        <3> QED BY <3>1, <3>2, RegularIfConstant
    <2>14. result.oscillation = detectOscillation(Diffs, result.interval)
        BY AnswerFields
    <2> HIDE DEF E
    <2> QED BY <2>3, <2>9, <2>13, <2>14 DEF detectOscillation
<1> QED BY <1>1, BurstInductive, PTL
=============================================================================
