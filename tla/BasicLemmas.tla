----------------------------- MODULE BasicLemmas ------------------------------
(***************************************************************************)
(* Facts about least and greatest elements, ranks, remainders and sums     *)
(* that the proofs of several components rest on.  The induction behind    *)
(* them is the well-foundedness of finite sets.                            *)
(***************************************************************************)
EXTENDS Integers, FiniteSets, FiniteSetsExt, FiniteSetTheorems,
        WellFoundedInduction, TLAPS

\* The least and the greatest of one number, and of two.
LEMMA MinOfOne == ASSUME NEW i \in Int PROVE Min({i}) = i
BY DEF Min

LEMMA MinOfTwo ==
  ASSUME NEW a \in Int, NEW b \in Int
  PROVE  Min({a, b}) = IF a < b THEN a ELSE b
<1> DEFINE m == IF a < b THEN a ELSE b
<1>1. m \in {a, b} /\ \A y \in {a, b} : m <= y
  OBVIOUS
<1>2. \A x \in {a, b} : (\A y \in {a, b} : x <= y) => x = m
  OBVIOUS
<1>3. QED BY <1>1, <1>2 DEF Min

LEMMA MaxOfTwo ==
  ASSUME NEW a \in Int, NEW b \in Int
  PROVE  Max({a, b}) = IF a < b THEN b ELSE a
<1> DEFINE m == IF a < b THEN b ELSE a
<1>1. m \in {a, b} /\ \A y \in {a, b} : m >= y
  OBVIOUS
<1>2. \A x \in {a, b} : (\A y \in {a, b} : x >= y) => x = m
  OBVIOUS
<1>3. QED BY <1>1, <1>2 DEF Max

\* A finite set of numbers has a least element: the one with the fewest below it.
LEMMA HasLeast ==
  ASSUME NEW S \in SUBSET Int, IsFiniteSet(S), S # {}
  PROVE  \E x \in S : \A y \in S : x <= y
<1> DEFINE Upto(x) == {y \in S : y <= x}
           T == {Upto(x) : x \in S}
           R == StrictSubsetOrdering(S)
<1>1. T \subseteq FiniteSubsetsOf(S) /\ T # {}
  <2>1. FiniteSubsetsOf(S) = SUBSET S
    BY FS_FiniteSubsetsOfFinite
  <2>2. \A x \in S : Upto(x) \in SUBSET S
    OBVIOUS
  <2>3. T \subseteq SUBSET S
    <3> HIDE DEF Upto
    <3>1. QED BY <2>2
  <2>4. T # {}
    <3> HIDE DEF Upto
    <3>1. QED OBVIOUS
  <2>5. QED BY <2>1, <2>3, <2>4
<1>2. IsWellFoundedOn(R, FiniteSubsetsOf(S))
  BY FS_StrictSubsetOrderingWellFounded
<1>3. PICK U \in T : \A V \in T : ~ (<<V, U>> \in R)
  <2> HIDE DEF R, T
  <2>1. QED BY <1>1, <1>2, WFMin
<1>4. PICK x \in S : U = Upto(x)
  OBVIOUS
<1>5. ASSUME NEW y \in S, y < x PROVE FALSE
  <2>1. Upto(y) \in T
    OBVIOUS
  <2>2. Upto(y) \subseteq Upto(x) /\ Upto(y) # Upto(x)
    <3>1. x \in Upto(x) /\ x \notin Upto(y)
      BY <1>5
    <3>2. \A z \in Upto(y) : z \in Upto(x)
      BY <1>5
    <3>3. QED BY <3>1, <3>2
  <2>3. Upto(y) \in SUBSET S /\ Upto(x) \in SUBSET S
    OBVIOUS
  <2>4. <<Upto(y), Upto(x)>> \in R
    <3> HIDE DEF Upto
    <3>1. QED BY <2>2, <2>3 DEF StrictSubsetOrdering
  <2>5. QED BY <1>3, <1>4, <2>1, <2>4
<1>6. QED BY <1>5

LEMMA MinOf ==
  ASSUME NEW S \in SUBSET Int, IsFiniteSet(S), S # {}
  PROVE  Min(S) \in S /\ \A y \in S : Min(S) <= y
BY HasLeast DEF Min

LEMMA MaxOf ==
  ASSUME NEW S \in SUBSET Int, IsFiniteSet(S), S # {}
  PROVE  Max(S) \in S /\ \A y \in S : Max(S) >= y
<1> DEFINE N == {-x : x \in S}
<1>1. N \in SUBSET Int /\ N # {}
  <2>1. \A x \in S : -x \in Int
    OBVIOUS
  <2>2. QED BY <2>1
<1>2. IsFiniteSet(N)
  <2> DEFINE f == [x \in S |-> -x]
  <2>1. f \in Surjection(S, N)
    BY DEF Surjection
  <2>2. QED BY <2>1, FS_Surjection
<1>3. PICK n \in N : \A y \in N : n <= y
  BY <1>1, <1>2, HasLeast
<1>4. PICK x \in S : n = -x
  OBVIOUS
<1>5. ASSUME NEW y \in S PROVE x >= y
  <2>1. -y \in N
    OBVIOUS
  <2>2. n <= -y
    BY <1>3, <2>1
  <2>3. QED BY <1>4, <2>2
<1>6. QED BY <1>5 DEF Max

\* What is in an interval is finite.
LEMMA PartOfInterval ==
  ASSUME NEW a \in Int, NEW b \in Int, NEW S \in SUBSET (a..b)
  PROVE  /\ IsFiniteSet(S) /\ Cardinality(S) \in Nat /\ S \in SUBSET Int
         /\ \A x \in S : x \in Int /\ a <= x /\ x <= b
<1>1. IsFiniteSet(a..b)
  BY FS_Interval
<1>2. IsFiniteSet(S)
  BY <1>1, FS_Subset
<1>3. Cardinality(S) \in Nat
  BY <1>2, FS_CardinalityType
<1>4. S \in SUBSET Int /\ \A x \in S : x \in Int /\ a <= x /\ x <= b
  <2>1. \A x \in S : x \in a..b
    OBVIOUS
  <2>2. \A x \in a..b : x \in Int /\ a <= x /\ x <= b
    OBVIOUS
  <2>3. QED BY <2>1, <2>2
<1>5. QED BY <1>2, <1>3, <1>4

\* The place of a number among those of a set, counted from the least.
RankIn(K, k) == Cardinality({x \in K : x <= k})

\* Every place up to the number of elements is some element's.
LEMMA HasRank ==
  ASSUME NEW n \in Nat, NEW K \in SUBSET (1..n), NEW i \in 1..Cardinality(K)
  PROVE  \E k \in K : RankIn(K, k) = i
<1> DEFINE Below(k) == {x \in K : x <= k}
           rank(k) == Cardinality(Below(k))
           T == {k \in 0..n : rank(k) >= i}
<1>0. 0 \in Int /\ 1 \in Int /\ n \in Int
  OBVIOUS
<1>1. /\ IsFiniteSet(K) /\ Cardinality(K) \in Nat
      /\ \A x \in K : x \in Int /\ 1 <= x /\ x <= n
  BY <1>0, PartOfInterval, Zenon
<1>2. \A k \in Int : IsFiniteSet(Below(k)) /\ rank(k) \in Nat
  <2>1. ASSUME NEW k \in Int PROVE IsFiniteSet(Below(k)) /\ rank(k) \in Nat
    <3>1. Below(k) \in SUBSET K
      OBVIOUS
    <3> HIDE DEF Below
    <3>2. IsFiniteSet(Below(k))
      BY <1>1, <3>1, FS_Subset
    <3>3. QED BY <3>2, FS_CardinalityType
  <2>2. QED BY <2>1
<1>3. Below(n) = K
  BY <1>1
<1>4. n \in T /\ i \in Nat
  <2>1. n \in 0..n /\ i <= Cardinality(K)
    BY <1>1
  <2>2. rank(n) = Cardinality(K)
    BY <1>3
  <2>3. QED BY <2>1, <2>2, <1>1
<1>5. PICK k \in T : \A y \in T : k <= y
  <2>1. T \in SUBSET (0..n)
    OBVIOUS
  <2> HIDE DEF T
  <2>2. T \in SUBSET Int /\ IsFiniteSet(T)
    BY <1>0, <2>1, PartOfInterval, Zenon
  <2>3. QED BY <2>2, <1>4, HasLeast
<1> HIDE DEF rank
<1>5a. k \in 0..n /\ rank(k) >= i
  OBVIOUS
<1>6. k # 0
  <2>1. \A x \in K : ~(x <= 0)
    BY <1>1
  <2>1a. Below(0) = {}
    BY <2>1
  <2>2. rank(0) = 0
    BY <2>1a, FS_EmptySet DEF rank
  <2>3. QED BY <2>2, <1>4, <1>5a
<1>7. k - 1 \in 0..n /\ k - 1 \notin T
  <2>1. k - 1 \in 0..n /\ ~(k <= k - 1)
    BY <1>5a, <1>6
  <2>2. QED BY <2>1, <1>5
<1>8. rank(k - 1) < i /\ rank(k) >= i /\ rank(k - 1) \in Nat
  <2>1. k - 1 \in Int
    BY <1>7
  <2>2. rank(k - 1) \in Nat
    BY <1>2, <2>1
  <2>3. ~(rank(k - 1) >= i)
    BY <1>7
  <2>4. QED BY <2>2, <2>3, <1>4, <1>5a
<1>9. k \in K
  <2>1. SUFFICES ASSUME k \notin K PROVE FALSE
    OBVIOUS
  <2>2. \A x \in K : x <= k <=> x <= k - 1
    BY <2>1, <1>1, <1>5a
  <2>3. rank(k) = rank(k - 1)
    BY <2>2 DEF rank
  <2>4. QED BY <2>3, <1>8, <1>4
<1>10. rank(k) = rank(k - 1) + 1
  <2>1. Below(k) = Below(k - 1) \cup {k} /\ k \notin Below(k - 1)
    <3>1. \A x \in K : x <= k <=> (x <= k - 1 \/ x = k)
      BY <1>1, <1>5a
    <3>2. ~(k <= k - 1)
      BY <1>5a
    <3>3. QED BY <3>1, <3>2, <1>9
  <2>2. IsFiniteSet(Below(k - 1))
    <3>1. k - 1 \in Int
      BY <1>7
    <3> HIDE DEF Below
    <3>2. QED BY <1>2, <3>1
  <2> HIDE DEF Below
  <2>3. Cardinality(Below(k - 1) \cup {k}) = Cardinality(Below(k - 1)) + 1
    BY <2>1, <2>2, FS_AddElement
  <2>4. QED BY <2>1, <2>3 DEF rank
<1>11. rank(k) = i
  BY <1>8, <1>10, <1>4
<1>12. QED BY <1>9, <1>11 DEF rank, RankIn

\* Of all places the one of the greatest age, the first of them if there are several.
LEMMA HasOldest ==
  ASSUME NEW n \in Nat \ {0}, NEW limit \in Nat, NEW age \in [1..n -> 0..limit]
  PROVE  \E i \in 1..n : \A k \in 1..n :
           age[i] > age[k] \/ (age[i] = age[k] /\ i <= k)
<1> DEFINE A == {age[k] : k \in 1..n}
<1>1. A \in SUBSET (0..limit) /\ A # {}
  <2>1. 1 \in 1..n
    OBVIOUS
  <2>2. QED BY <2>1
<1>2. IsFiniteSet(A) /\ A \in SUBSET Int
  <2>1. 0 \in Int /\ limit \in Int
    OBVIOUS
  <2> HIDE DEF A
  <2>2. QED BY <1>1, <2>1, PartOfInterval, Zenon
<1>3. Max(A) \in A /\ \A a \in A : Max(A) >= a
  <2> HIDE DEF A
  <2>1. QED BY <1>1, <1>2, MaxOf
<1> DEFINE P == {k \in 1..n : age[k] = Max(A)}
<1>4. P \in SUBSET Int /\ IsFiniteSet(P) /\ P # {}
  <2>1. P \in SUBSET (1..n) /\ P # {}
    BY <1>3
  <2>2. 1 \in Int /\ n \in Int
    OBVIOUS
  <2> HIDE DEF P
  <2>3. QED BY <2>1, <2>2, PartOfInterval, Zenon
<1>5. PICK i \in P : \A k \in P : i <= k
  <2> HIDE DEF P
  <2>1. QED BY <1>4, HasLeast
<1>6. ASSUME NEW k \in 1..n PROVE age[i] > age[k] \/ (age[i] = age[k] /\ i <= k)
  <2>1. age[i] = Max(A) /\ age[i] >= age[k]
    BY <1>3
  <2>2. age[i] = age[k] => i <= k
    BY <1>5, <2>1
  <2>3. age[i] \in Int /\ age[k] \in Int
    OBVIOUS
  <2>4. QED BY <2>1, <2>2, <2>3
<1>7. QED BY <1>6

-----------------------------------------------------------------------------
\* Numbers closer together than n have different remainders.
LEMMA ModDiffers ==
  ASSUME NEW n \in Nat \ {0}, NEW i \in Nat, NEW j \in Nat, i < j, j - i < n
  PROVE  i % n # j % n
<1>1. /\ i = n * (i \div n) + (i % n) /\ j = n * (j \div n) + (j % n)
      /\ i \div n \in Int /\ j \div n \in Int
      /\ i % n \in 0..(n - 1) /\ j % n \in 0..(n - 1)
  OBVIOUS
<1>2. SUFFICES ASSUME i % n = j % n PROVE FALSE
  OBVIOUS
<1> DEFINE d == (j \div n) - (i \div n)
<1>3. j - i = n * d /\ d \in Int
  BY <1>1, <1>2
<1>4. CASE d <= 0
  BY <1>3, <1>4
<1>5. CASE d >= 1
  BY <1>3, <1>5
<1>6. QED BY <1>3, <1>4, <1>5

\* Counting on from a remainder.
LEMMA ModNext ==
  ASSUME NEW n \in Nat \ {0}, NEW i \in Nat
  PROVE  ((i % n) + 1) % n = (i + 1) % n
<1>1. i = n * (i \div n) + (i % n) /\ i \div n \in Int /\ i % n \in 0..(n - 1)
  OBVIOUS
<1>2. PICK q \in Int, r \in 0..(n - 1) : i = n * q + r /\ r = i % n
  BY <1>1
<1>3. CASE r + 1 < n
  <2>1. (r + 1) % n = r + 1
    BY <1>3
  <2>2. (n * q + (r + 1)) % n = r + 1
    BY <1>3
  <2>3. QED BY <1>2, <2>1, <2>2
<1>4. CASE r + 1 = n
  <2>1. (r + 1) % n = 0
    BY <1>4
  <2>2. i + 1 = n * (q + 1)
    <3>1. i = n * q + (n - 1)
      BY <1>2, <1>4
    <3>2. n * (q + 1) = n * q + n
      OBVIOUS
    <3>3. QED BY <3>1, <3>2
  <2>3. (n * (q + 1)) % n = 0
    OBVIOUS
  <2>4. QED BY <1>2, <2>1, <2>2, <2>3
<1>5. QED BY <1>3, <1>4

\* A whole turn changes nothing.
LEMMA ModAdd ==
  ASSUME NEW n \in Nat \ {0}, NEW i \in Nat
  PROVE  (i + n) % n = i % n
<1>1. i = n * (i \div n) + (i % n) /\ i \div n \in Int /\ i % n \in 0..(n - 1)
  OBVIOUS
<1>2. PICK q \in Int, r \in 0..(n - 1) : i = n * q + r /\ r = i % n
  BY <1>1
<1>3. i + n = n * (q + 1) + r
  <2>1. n * (q + 1) = n * q + n
    OBVIOUS
  <2>2. QED BY <1>2, <2>1
<1>4. (n * (q + 1) + r) % n = r
  OBVIOUS
<1>5. QED BY <1>2, <1>3, <1>4

\* The remainder is the part below n.
LEMMA ModIs ==
  ASSUME NEW n \in Nat \ {0}, NEW q \in Int, NEW r \in 0..(n - 1)
  PROVE  (n * q + r) % n = r
OBVIOUS

\* Counting on from a remainder, by any distance.
LEMMA ModShift ==
  ASSUME NEW n \in Nat \ {0}, NEW i \in Nat, NEW d \in Nat
  PROVE  ((i % n) + d) % n = (i + d) % n
<1>1. i = n * (i \div n) + (i % n) /\ i \div n \in Int /\ i % n \in 0..(n - 1)
  OBVIOUS
<1>2. PICK q \in Int, r \in 0..(n - 1) : i = n * q + r /\ r = i % n
  BY <1>1
<1>3. /\ r + d = n * ((r + d) \div n) + ((r + d) % n)
      /\ (r + d) \div n \in Int /\ (r + d) % n \in 0..(n - 1)
  OBVIOUS
<1>4. PICK k \in Int, e \in 0..(n - 1) : r + d = n * k + e /\ e = (r + d) % n
  BY <1>3
<1>5. i + d = n * (q + k) + e
  <2>1. n * (q + k) = n * q + n * k
    OBVIOUS
  <2>2. QED BY <1>2, <1>4, <2>1
<1>6. (n * (q + k) + e) % n = e
  BY ModIs
<1>7. QED BY <1>2, <1>4, <1>5, <1>6

\* The distance of two numbers is that of their remainders.
LEMMA ModBetween ==
  ASSUME NEW n \in Nat \ {0}, NEW i \in Nat, NEW j \in Nat, i <= j, j - i < n
  PROVE  ((j % n) - (i % n)) % n = j - i
<1>1. /\ i = n * (i \div n) + (i % n) /\ i \div n \in Int /\ i % n \in 0..(n - 1)
      /\ j = n * (j \div n) + (j % n) /\ j \div n \in Int /\ j % n \in 0..(n - 1)
  OBVIOUS
<1>2. PICK q \in Int, r \in 0..(n - 1) : i = n * q + r /\ r = i % n
  BY <1>1
<1>3. PICK p \in Int, s \in 0..(n - 1) : j = n * p + s /\ s = j % n
  BY <1>1
<1>4. s - r = n * (q - p) + (j - i)
  <2>1. n * (q - p) = n * q - n * p
    OBVIOUS
  <2>2. QED BY <1>2, <1>3, <2>1
<1>5. j - i \in 0..(n - 1) /\ q - p \in Int
  OBVIOUS
<1>6. (n * (q - p) + (j - i)) % n = j - i
  BY <1>5, ModIs
<1>7. QED BY <1>2, <1>3, <1>4, <1>6

-----------------------------------------------------------------------------
\* What holds of 0, and of the next number whenever of one, holds up to any number.
LEMMA UpTo ==
  ASSUME NEW n \in Nat, NEW S, 0 \in S, \A k \in 0..(n - 1) : k \in S => k + 1 \in S
  PROVE  \A k \in 0..n : k \in S
<1> DEFINE T == {k \in 0..n : k \notin S}
<1>1. SUFFICES ASSUME T # {} PROVE FALSE
  OBVIOUS
<1>2. T \in SUBSET Int /\ IsFiniteSet(T)
  <2>1. 0 \in Int /\ n \in Int /\ T \in SUBSET (0..n)
    OBVIOUS
  <2> HIDE DEF T
  <2>2. QED BY <2>1, PartOfInterval, Zenon
<1>3. PICK x \in T : \A y \in T : x <= y
  <2> HIDE DEF T
  <2>1. QED BY <1>1, <1>2, HasLeast
<1>4. x \in 0..n /\ x # 0 /\ x \notin S
  OBVIOUS
<1>5. x - 1 \in 0..(n - 1) /\ x - 1 \in 0..n /\ (x - 1) + 1 = x /\ ~(x <= x - 1)
  BY <1>4
<1>6. x - 1 \notin T
  <2> HIDE DEF T
  <2>1. QED BY <1>3, <1>5
<1>7. x - 1 \in S
  BY <1>5, <1>6
<1>8. QED BY <1>4, <1>5, <1>7

\* The sums of the first numbers of a list.
Adds(g, n, a) ==
  g \in [0..n -> Int] /\ g[0] = 0 /\ \A i \in 1..n : g[i] = g[i - 1] + a[i]

LEMMA AddsExist ==
  ASSUME NEW n \in Nat, NEW a \in [1..n -> Int] PROVE \E g : Adds(g, n, a)
<1> DEFINE S == {k \in 0..n : \E g : Adds(g, k, a)}
<1>1. 0 \in S
  <2>1. Adds([i \in 0..0 |-> 0], 0, a)
    BY DEF Adds
  <2>2. QED BY <2>1
<1>2. ASSUME NEW k \in 0..(n - 1), k \in S PROVE k + 1 \in S
  <2>1. PICK g : Adds(g, k, a)
    BY <1>2
  <2> DEFINE h == [i \in 0..(k + 1) |-> IF i = k + 1 THEN g[k] + a[k + 1] ELSE g[i]]
  <2>2. k \in 0..k /\ k + 1 \in 1..n /\ 0 \in 0..k
    OBVIOUS
  <2>3. /\ g \in [0..k -> Int] /\ g[0] = 0 /\ g[k] \in Int /\ a[k + 1] \in Int
        /\ \A i \in 1..k : g[i] = g[i - 1] + a[i]
    BY <2>1, <2>2 DEF Adds
  <2>4. h \in [0..(k + 1) -> Int]
    <3>1. ASSUME NEW i \in 0..(k + 1) PROVE h[i] \in Int
      <4>1. i = k + 1 \/ i \in 0..k
        OBVIOUS
      <4>2. QED BY <2>3, <4>1
    <3>2. QED BY <3>1
  <2>5. ASSUME NEW i \in 1..(k + 1) PROVE h[i] = h[i - 1] + a[i]
    <3>1. CASE i = k + 1
      <4>1. i - 1 = k /\ i - 1 # k + 1 /\ i - 1 \in 0..(k + 1)
        BY <3>1
      <4>2. QED BY <3>1, <4>1
    <3>2. CASE i # k + 1
      <4>1. i \in 1..k /\ i - 1 # k + 1 /\ i - 1 \in 0..(k + 1)
        BY <3>2
      <4>2. QED BY <2>3, <3>2, <4>1
    <3>3. QED BY <3>1, <3>2
  <2>6. h[0] = 0 /\ k + 1 \in 0..n
    BY <2>2, <2>3
  <2>7. Adds(h, k + 1, a)
    <3> HIDE DEF h
    <3>1. QED BY <2>4, <2>5, <2>6 DEF Adds
  <2>8. QED BY <2>6, <2>7
<1>3. n \in S
  <2> HIDE DEF S
  <2>1. \A k \in 0..n : k \in S
    BY <1>1, <1>2, UpTo
  <2>2. QED BY <2>1
<1>4. QED BY <1>3

\* Sums of sums.
LEMMA PlusBelow ==
  ASSUME NEW a \in Int, NEW b \in Int, NEW c \in Int, a + b <= c,
         NEW x \in Int, NEW y \in Int, NEW z \in Int, x + y <= z
  PROVE  (a + x) + (b + y) <= c + z
OBVIOUS

LEMMA PlusExactly ==
  ASSUME NEW a \in Int, NEW b \in Int, NEW c \in Int, a + b = c,
         NEW x \in Int, NEW y \in Int, NEW z \in Int, x + y = z
  PROVE  (a + x) + (b + y) = c + z
OBVIOUS

AddBelow(n, a, b, c, g, h, l) ==
  /\ n \in Nat /\ {a, b, c} \subseteq [1..n -> Int]
  /\ \A i \in 1..n : a[i] + b[i] <= c[i]
  /\ Adds(g, n, a) /\ Adds(h, n, b) /\ Adds(l, n, c)

LEMMA AddsBelow ==
  ASSUME NEW n, NEW a, NEW b, NEW c, NEW g, NEW h, NEW l, AddBelow(n, a, b, c, g, h, l)
  PROVE  g[n] + h[n] <= l[n]
<1>0. /\ n \in Nat /\ a \in [1..n -> Int] /\ b \in [1..n -> Int] /\ c \in [1..n -> Int]
      /\ \A i \in 1..n : a[i] + b[i] <= c[i]
      /\ Adds(g, n, a) /\ Adds(h, n, b) /\ Adds(l, n, c)
  BY DEF AddBelow
<1> DEFINE S == {k \in 0..n : g[k] + h[k] <= l[k]}
<1>1. /\ g \in [0..n -> Int] /\ h \in [0..n -> Int] /\ l \in [0..n -> Int]
      /\ g[0] = 0 /\ h[0] = 0 /\ l[0] = 0
  BY <1>0 DEF Adds
<1>2. 0 \in S
  BY <1>0, <1>1
<1>3. ASSUME NEW k \in 0..(n - 1), k \in S PROVE k + 1 \in S
  <2>1. k + 1 \in 1..n /\ k + 1 \in 0..n /\ (k + 1) - 1 = k /\ k \in 0..n
    BY <1>0
  <2>2. /\ g[k + 1] = g[k] + a[k + 1] /\ h[k + 1] = h[k] + b[k + 1]
        /\ l[k + 1] = l[k] + c[k + 1]
    BY <1>0, <2>1 DEF Adds
  <2>3. /\ g[k] \in Int /\ h[k] \in Int /\ l[k] \in Int /\ a[k + 1] \in Int
        /\ b[k + 1] \in Int /\ c[k + 1] \in Int
    BY <1>0, <1>1, <2>1
  <2>4. g[k] + h[k] <= l[k] /\ a[k + 1] + b[k + 1] <= c[k + 1]
    BY <1>0, <1>3, <2>1
  <2>5. (g[k] + a[k + 1]) + (h[k] + b[k + 1]) <= l[k] + c[k + 1]
    BY <2>3, <2>4, PlusBelow, Zenon
  <2>6. g[k + 1] + h[k + 1] <= l[k + 1]
    BY <2>2, <2>5, Zenon
  <2>7. QED BY <2>1, <2>6
<1>4. n \in S
  <2> HIDE DEF S
  <2>1. \A k \in 0..n : k \in S
    BY <1>0, <1>2, <1>3, UpTo
  <2>2. QED BY <1>0, <2>1
<1>5. QED BY <1>4

AddUp(n, a, b, c, g, h, l) ==
  /\ n \in Nat /\ {a, b, c} \subseteq [1..n -> Int]
  /\ \A i \in 1..n : a[i] + b[i] = c[i]
  /\ Adds(g, n, a) /\ Adds(h, n, b) /\ Adds(l, n, c)

LEMMA AddsExactly ==
  ASSUME NEW n, NEW a, NEW b, NEW c, NEW g, NEW h, NEW l, AddUp(n, a, b, c, g, h, l)
  PROVE  g[n] + h[n] = l[n]
<1>0. /\ n \in Nat /\ a \in [1..n -> Int] /\ b \in [1..n -> Int] /\ c \in [1..n -> Int]
      /\ \A i \in 1..n : a[i] + b[i] = c[i]
      /\ Adds(g, n, a) /\ Adds(h, n, b) /\ Adds(l, n, c)
  BY DEF AddUp
<1> DEFINE S == {k \in 0..n : g[k] + h[k] = l[k]}
<1>1. /\ g \in [0..n -> Int] /\ h \in [0..n -> Int] /\ l \in [0..n -> Int]
      /\ g[0] = 0 /\ h[0] = 0 /\ l[0] = 0
  BY <1>0 DEF Adds
<1>2. 0 \in S
  BY <1>0, <1>1
<1>3. ASSUME NEW k \in 0..(n - 1), k \in S PROVE k + 1 \in S
  <2>1. k + 1 \in 1..n /\ k + 1 \in 0..n /\ (k + 1) - 1 = k /\ k \in 0..n
    BY <1>0
  <2>2. /\ g[k + 1] = g[k] + a[k + 1] /\ h[k + 1] = h[k] + b[k + 1]
        /\ l[k + 1] = l[k] + c[k + 1]
    BY <1>0, <2>1 DEF Adds
  <2>3. /\ g[k] \in Int /\ h[k] \in Int /\ l[k] \in Int /\ a[k + 1] \in Int
        /\ b[k + 1] \in Int /\ c[k + 1] \in Int
    BY <1>0, <1>1, <2>1
  <2>4. g[k] + h[k] = l[k] /\ a[k + 1] + b[k + 1] = c[k + 1]
    BY <1>0, <1>3, <2>1
  <2>5. (g[k] + a[k + 1]) + (h[k] + b[k + 1]) = l[k] + c[k + 1]
    BY <2>3, <2>4, PlusExactly
  <2>6. g[k + 1] + h[k + 1] = l[k + 1]
    BY <2>2, <2>5, Zenon
  <2>7. QED BY <2>1, <2>6
<1>4. n \in S
  <2> HIDE DEF S
  <2>1. \A k \in 0..n : k \in S
    BY <1>0, <1>2, <1>3, UpTo
  <2>2. QED BY <1>0, <2>1
<1>5. QED BY <1>4

\* A list that differs in one place.
AddMore(n, a, x, d, b, g, h) ==
  /\ n \in Nat /\ a \in [1..n -> Int] /\ x \in 1..n /\ d \in Int
  /\ Adds(g, n, a) /\ Adds(h, n, b) /\ b = [a EXCEPT ![x] = a[x] + d]

LEMMA AddsAt ==
  ASSUME NEW n, NEW a, NEW x, NEW d, NEW b, NEW g, NEW h, AddMore(n, a, x, d, b, g, h)
  PROVE  h[n] = g[n] + d
<1>0. /\ n \in Nat /\ a \in [1..n -> Int] /\ x \in 1..n /\ d \in Int
      /\ Adds(g, n, a) /\ Adds(h, n, b) /\ b = [a EXCEPT ![x] = a[x] + d]
  BY Zenon DEF AddMore
<1> DEFINE S == {k \in 0..n : h[k] = g[k] + (IF k >= x THEN d ELSE 0)}
<1>1. g \in [0..n -> Int] /\ h \in [0..n -> Int] /\ g[0] = 0 /\ h[0] = 0
  BY <1>0 DEF Adds
<1>2. 0 \in S
  BY <1>0, <1>1
<1>3. ASSUME NEW k \in 0..(n - 1), k \in S PROVE k + 1 \in S
  <2>1. k + 1 \in 1..n /\ k + 1 \in 0..n /\ (k + 1) - 1 = k /\ k \in 0..n
    BY <1>0
  <2>2. g[k + 1] = g[k] + a[k + 1] /\ h[k + 1] = h[k] + b[k + 1]
    BY <1>0, <2>1 DEF Adds
  <2>3. /\ g[k] \in Int /\ h[k] \in Int /\ g[k + 1] \in Int /\ h[k + 1] \in Int
        /\ a[k + 1] \in Int
    BY <1>0, <1>1, <2>1
  <2>4. b[k + 1] = IF k + 1 = x THEN a[k + 1] + d ELSE a[k + 1]
    BY <1>0, <2>1
  <2>5. h[k] = g[k] + (IF k >= x THEN d ELSE 0)
    BY <1>3
  <2>6. h[k + 1] = g[k + 1] + (IF k + 1 >= x THEN d ELSE 0)
    <3> HIDE DEF S
    <3>1. PICK s \in Int, t \in Int, y \in Int :
            s = g[k] /\ t = h[k] /\ y = a[k + 1]
      BY <2>3
    <3>2. g[k + 1] = s + y /\ h[k + 1] = t + (IF k + 1 = x THEN y + d ELSE y)
      BY <2>2, <2>4, <3>1
    <3>3. t = s + (IF k >= x THEN d ELSE 0)
      BY <2>5, <3>1
    <3>3a. d \in Int /\ x \in Int /\ k \in Int
      BY <1>0
    <3>4. t + (IF k + 1 = x THEN y + d ELSE y) = (s + y) + (IF k + 1 >= x THEN d ELSE 0)
      BY <3>3, <3>3a
    <3>5. QED BY <3>2, <3>4
  <2>7. QED BY <2>1, <2>6
<1>4. n \in S
  <2> HIDE DEF S
  <2>1. \A k \in 0..n : k \in S
    BY <1>0, <1>2, <1>3, UpTo
  <2>2. QED BY <1>0, <2>1
<1>5. QED BY <1>0, <1>1, <1>4

LEMMA OneFurther ==
  ASSUME NEW f, NEW k \in Nat
  PROVE  {f[i] : i \in 1..(k + 1)} = {f[i] : i \in 1..k} \cup {f[k + 1]}
<1>1. 1..(k + 1) = (1..k) \cup {k + 1}
  OBVIOUS
<1>2. QED BY <1>1

\* The order of the numbers does not matter.
Reorder(n, w, f, g, h) ==
  /\ n \in Nat /\ w \in [1..n -> Int] /\ f \in [1..n -> 1..n]
  /\ \A i, k \in 1..n : f[i] = f[k] => i = k
  /\ Adds(g, n, [i \in 1..n |-> w[f[i]]]) /\ Adds(h, n, w)

LEMMA AddsReordered ==
  ASSUME NEW n, NEW w, NEW f, NEW g, NEW h, Reorder(n, w, f, g, h)
  PROVE  g[n] = h[n]
<1> SUFFICES ASSUME n \in Nat, w \in [1..n -> Int], f \in [1..n -> 1..n],
                    \A i, k \in 1..n : f[i] = f[k] => i = k,
                    Adds(g, n, [i \in 1..n |-> w[f[i]]]), Adds(h, n, w)
             PROVE  g[n] = h[n]
  BY Zenon DEF Reorder
<1> DEFINE Had(k) == {f[i] : i \in 1..k}
           Only(k) == [j \in 1..n |-> IF j \in Had(k) THEN w[j] ELSE 0]
           S == {k \in 0..n : \E e : Adds(e, n, Only(k)) /\ e[n] = g[k]}
<1>1. g \in [0..n -> Int] /\ g[0] = 0 /\ h \in [0..n -> Int]
  BY DEF Adds
<1>2. \A k \in 0..n : Only(k) \in [1..n -> Int]
  OBVIOUS
<1>3. 0 \in S
  <2>1. PICK e : Adds(e, n, Only(0))
    <3>1. Only(0) \in [1..n -> Int]
      OBVIOUS
    <3> HIDE DEF Only
    <3>2. QED BY <3>1, AddsExist
  <2>2. \A j \in 1..n : Only(0)[j] = 0
    OBVIOUS
  <2>3. e[n] + e[n] = e[n]
    <3>1. Only(0) \in [1..n -> Int] /\ \A j \in 1..n : Only(0)[j] + Only(0)[j] = Only(0)[j]
      BY <2>2
    <3>2. PICK z : z = Only(0)
      OBVIOUS
    <3> HIDE DEF Only
    <3>3. Adds(e, n, z)
      BY <2>1, <3>2
    <3>4. z \in [1..n -> Int] /\ AddUp(n, z, z, z, e, e, e)
      BY <3>1, <3>2, <3>3 DEF AddUp
    <3>5. QED BY <3>4, AddsExactly
  <2>4. e[n] \in Int
    BY <2>1 DEF Adds
  <2>5. e[n] = g[0]
    <3>1. PICK y \in Int : y = e[n]
      BY <2>4
    <3>2. y = 0
      BY <2>3, <3>1
    <3>3. QED BY <1>1, <3>1, <3>2
  <2> HIDE DEF Only
  <2>6. 0 \in 0..n
    OBVIOUS
  <2>7. QED BY <2>1, <2>5, <2>6
<1>4. ASSUME NEW k \in 0..(n - 1), k \in S PROVE k + 1 \in S
  <2>1. PICK e : Adds(e, n, Only(k)) /\ e[n] = g[k]
    BY <1>4
  <2>2. PICK x \in 1..n : x = f[k + 1]
    OBVIOUS
  <2>3. x \notin Had(k)
    <3>1. \A i \in 1..k : i \in 1..n /\ k + 1 \in 1..n /\ i # k + 1
      OBVIOUS
    <3>2. QED BY <2>2, <3>1
  <2>4. Had(k + 1) = Had(k) \cup {x}
    <3>1. k \in Nat
      OBVIOUS
    <3>2. QED BY <2>2, <3>1, OneFurther
  <2>5. Only(k + 1) = [Only(k) EXCEPT ![x] = Only(k)[x] + w[x]]
    <3>1. PICK y \in Int : y = w[x]
      OBVIOUS
    <3>2. Only(k)[x] = 0
      BY <2>3
    <3>2a. 0 + y = y
      OBVIOUS
    <3>2b. Only(k)[x] + w[x] = w[x]
      BY <3>1, <3>2, <3>2a, Zenon
    <3> HIDE DEF Had
    <3>3. \A j \in 1..n : Only(k + 1)[j] = IF j = x THEN w[x] ELSE Only(k)[j]
      BY <2>4
    <3>4. QED BY <3>2b, <3>3
  <2>6. PICK l : Adds(l, n, Only(k + 1))
    <3>1. Only(k + 1) \in [1..n -> Int]
      OBVIOUS
    <3> HIDE DEF Only
    <3>2. QED BY <3>1, AddsExist
  <2>7. l[n] = e[n] + w[x]
    <3>1. Only(k) \in [1..n -> Int] /\ w[x] \in Int
      OBVIOUS
    <3>2. PICK a : a = Only(k)
      OBVIOUS
    <3> HIDE DEF Only
    <3>3. PICK b : b = [a EXCEPT ![x] = a[x] + w[x]]
      OBVIOUS
    <3>4. AddMore(n, a, x, w[x], b, e, l)
      BY <2>1, <2>5, <2>6, <3>1, <3>2, <3>3, Zenon DEF AddMore
    <3>5. QED BY <3>4, AddsAt
  <2>8. g[k + 1] = g[k] + w[x]
    <3>1. k + 1 \in 1..n /\ (k + 1) - 1 = k
      OBVIOUS
    <3>2. QED BY <2>2, <3>1 DEF Adds
  <2>9. k + 1 \in 0..n /\ l[n] = g[k + 1]
    BY <2>1, <2>7, <2>8
  <2> HIDE DEF Only
  <2>10. QED BY <2>6, <2>9
<1>5. PICK e : Adds(e, n, Only(n)) /\ e[n] = g[n]
  <2>1. n \in S
    <3> HIDE DEF S
    <3>1. \A k \in 0..n : k \in S
      BY <1>3, <1>4, UpTo
    <3>2. QED BY <3>1
  <2>2. QED BY <2>1
<1>6. Only(n) = w
  <2>1. f \in Injection(1..n, 1..n)
    BY DEF Injection, IsInjective
  <2>2. IsFiniteSet(1..n)
    BY FS_Interval
  <2>3. f \in Surjection(1..n, 1..n)
    BY <2>1, <2>2, FS_Injection
  <2>4. \A j \in 1..n : j \in Had(n)
    BY <2>3 DEF Surjection
  <2> HIDE DEF Had
  <2>5. QED BY <2>4
<1>7. e[n] + 0 = h[n]
  <2> DEFINE z == [i \in 1..n |-> 0]
  <2>1. Adds([i \in 0..n |-> 0], n, z)
    BY DEF Adds
  <2>2. /\ z \in [1..n -> Int] /\ \A i \in 1..n : w[i] + z[i] = w[i]
        /\ [i \in 0..n |-> 0][n] = 0
    OBVIOUS
  <2>3. Adds(e, n, w)
    BY <1>5, <1>6
  <2>4. PICK o : o = [i \in 0..n |-> 0]
    OBVIOUS
  <2>5. Adds(o, n, z) /\ o[n] = 0
    BY <2>1, <2>2, <2>4
  <2>6. e[n] + o[n] = h[n]
    <3> HIDE DEF z
    <3>1. AddUp(n, w, z, w, e, o, h)
      BY <2>2, <2>3, <2>5 DEF AddUp
    <3>2. QED BY <3>1, AddsExactly
  <2>7. QED BY <2>5, <2>6
<1>8. e[n] \in Int
  BY <1>5 DEF Adds
<1>9. QED BY <1>5, <1>7, <1>8

\* Two ways c and f to give each row a column of its own, and potentials x of the
\* rows and y of the columns that are what a way over c costs, and at most what a
\* way over f costs.
Certified(n, x, y, c, f, r, s, g, h) ==
  /\ n \in Nat /\ x \in [1..n -> Int] /\ y \in [1..n -> Int]
  /\ c \in [1..n -> 1..n] /\ \A i, k \in 1..n : c[i] = c[k] => i = k
  /\ f \in [1..n -> 1..n] /\ \A i, k \in 1..n : f[i] = f[k] => i = k
  /\ r \in [1..n -> Int] /\ s \in [1..n -> Int]
  /\ \A i \in 1..n : x[i] + y[c[i]] = r[i]
  /\ \A i \in 1..n : x[i] + y[f[i]] <= s[i]
  /\ Adds(g, n, r) /\ Adds(h, n, s)

LEMMA CertifiedLeast ==
  ASSUME NEW n, NEW x, NEW y, NEW c, NEW f, NEW r, NEW s, NEW g, NEW h,
         Certified(n, x, y, c, f, r, s, g, h)
  PROVE  g[n] <= h[n]
<1>1. /\ n \in Nat /\ x \in [1..n -> Int] /\ y \in [1..n -> Int]
      /\ c \in [1..n -> 1..n] /\ \A i, k \in 1..n : c[i] = c[k] => i = k
      /\ f \in [1..n -> 1..n] /\ \A i, k \in 1..n : f[i] = f[k] => i = k
      /\ r \in [1..n -> Int] /\ s \in [1..n -> Int]
      /\ \A i \in 1..n : x[i] + y[c[i]] = r[i]
      /\ \A i \in 1..n : x[i] + y[f[i]] <= s[i]
      /\ Adds(g, n, r) /\ Adds(h, n, s)
  BY Zenon DEF Certified
<1>2. PICK e : e = [i \in 1..n |-> y[c[i]]]
  OBVIOUS
<1>3. PICK l : l = [i \in 1..n |-> y[f[i]]]
  OBVIOUS
<1>4. e \in [1..n -> Int] /\ l \in [1..n -> Int]
  BY <1>1, <1>2, <1>3
<1>5. PICK a : Adds(a, n, x)
  BY <1>1, AddsExist
<1>6. PICK b : Adds(b, n, y)
  BY <1>1, AddsExist
<1>7. PICK d : Adds(d, n, e)
  BY <1>1, <1>4, AddsExist
<1>8. PICK m : Adds(m, n, l)
  BY <1>1, <1>4, AddsExist
<1>9. d[n] = b[n]
  <2>1. Adds(d, n, [i \in 1..n |-> y[c[i]]])
    BY <1>2, <1>7, Zenon
  <2>2. Reorder(n, y, c, d, b)
    BY <1>1, <1>6, <2>1, Zenon DEF Reorder
  <2>3. QED BY <2>2, AddsReordered
<1>10. m[n] = b[n]
  <2>1. Adds(m, n, [i \in 1..n |-> y[f[i]]])
    BY <1>3, <1>8, Zenon
  <2>2. Reorder(n, y, f, m, b)
    BY <1>1, <1>6, <2>1, Zenon DEF Reorder
  <2>3. QED BY <2>2, AddsReordered
<1>11. a[n] + d[n] = g[n]
  <2>1. \A i \in 1..n : x[i] + e[i] = r[i]
    BY <1>1, <1>2
  <2>2. AddUp(n, x, e, r, a, d, g)
    BY <1>1, <1>4, <1>5, <1>7, <2>1 DEF AddUp
  <2>3. QED BY <2>2, AddsExactly
<1>12. a[n] + m[n] <= h[n]
  <2>1. \A i \in 1..n : x[i] + l[i] <= s[i]
    BY <1>1, <1>3
  <2>2. AddBelow(n, x, l, s, a, m, h)
    BY <1>1, <1>4, <1>5, <1>8, <2>1 DEF AddBelow
  <2>3. QED BY <2>2, AddsBelow
<1>13. QED BY <1>9, <1>10, <1>11, <1>12, Zenon

=============================================================================
