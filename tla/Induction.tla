------------------------------ MODULE Induction ------------------------------
(***************************************************************************)
(* Induction and recursion over the naturals, in a form that the proofs of *)
(* this project can use: about sets and functions rather than operators.   *)
(***************************************************************************)
EXTENDS Integers, FiniteSetsExt, FiniteSetTheorems, NaturalsInduction, WellFoundedInduction, TLAPS

\* A set of naturals that is not empty has a least element.
LEMMA LeastOf ==
  ASSUME NEW T \in SUBSET Nat, T # {}
  PROVE  \E m \in T : \A k \in T : m <= k
<1> DEFINE R == OpToRel(<, Nat)
<1>1. IsWellFoundedOn(R, Nat)
  BY NatLessThanWellFounded
<1>2. \A k, m \in Nat : <<k, m>> \in R <=> k < m
  BY DEF OpToRel
<1> HIDE DEF R
<1>3. PICK m \in T : \A k \in T : ~(<<k, m>> \in R)
  BY <1>1, WFMin
<1>4. ASSUME NEW k \in T PROVE m <= k
  <2>1. ~(k < m)
    BY <1>2, <1>3, Zenon
  <2> QED
    BY <2>1
<1> QED
  BY <1>4

\* A set that has a number whenever it has all those below has every number.
LEMMA AllBelow ==
  ASSUME NEW P, \A n \in Nat : (\A m \in 0..(n - 1) : m \in P) => n \in P
  PROVE  \A n \in Nat : n \in P
<1> SUFFICES ASSUME {n \in Nat : n \notin P} # {} PROVE FALSE
  OBVIOUS
<1>1. PICK m \in {n \in Nat : n \notin P} : \A k \in {n \in Nat : n \notin P} : m <= k
  BY LeastOf
<1>2. \A k \in 0..(m - 1) : k \in P
  BY <1>1
<1> QED
  BY <1>1, <1>2

\* A set that has 0 and the successor of each number in it has every number.
LEMMA Successors ==
  ASSUME NEW P, 0 \in P, \A n \in Nat : n \in P => n + 1 \in P
  PROVE  \A n \in Nat : n \in P
<1>1. ASSUME NEW n \in Nat, \A m \in 0..(n - 1) : m \in P PROVE n \in P
  <2>1. CASE n = 0
    BY <2>1
  <2>2. CASE n # 0
    <3>1. n - 1 \in Nat /\ n - 1 \in 0..(n - 1) /\ (n - 1) + 1 = n
      BY <2>2
    <3> QED
      BY <1>1, <3>1
  <2> QED
    BY <2>1, <2>2
<1> QED
  BY <1>1, AllBelow

\* What a function that is defined from smaller arguments has up to n.
Begins(f, n, S, c, next, G) ==
    /\ f \in [0..n -> S] /\ f[0] = c
    /\ \A i \in 1..n : f[i] = G[i][f[next[i]]]

LEMMA BeginsOne ==
  ASSUME NEW S, NEW c \in S, NEW next \in [Nat \ {0} -> Nat],
         \A i \in Nat \ {0} : next[i] < i,
         NEW G \in [Nat \ {0} -> [S -> S]],
         NEW n \in Nat
  PROVE  \E f : Begins(f, n, S, c, next, G)
<1> DEFINE P == {m \in Nat : \E f : Begins(f, m, S, c, next, G)}
<1>1. 0 \in P
  <2> DEFINE f == [i \in 0..0 |-> c]
  <2>1. f \in [0..0 -> S] /\ f[0] = c
    OBVIOUS
  <2>2. 1..0 = {}
    OBVIOUS
  <2>3. Begins(f, 0, S, c, next, G)
    BY <2>1, <2>2 DEF Begins
  <2> QED
    BY <2>3
<1>2. ASSUME NEW m \in Nat, m \in P PROVE m + 1 \in P
  <2>1. PICK f : Begins(f, m, S, c, next, G)
    BY <1>2
  <2>2. next[m + 1] \in 0..m
    <3>1. m + 1 \in Nat \ {0}
      OBVIOUS
    <3> QED
      BY <3>1
  <2> DEFINE new == G[m + 1][f[next[m + 1]]]
             g == [i \in 0..(m + 1) |-> IF i = m + 1 THEN new ELSE f[i]]
  <2>3. new \in S
    <3>1. f[next[m + 1]] \in S
      BY <2>1, <2>2 DEF Begins
    <3>2. m + 1 \in Nat \ {0}
      OBVIOUS
    <3> QED
      BY <3>1, <3>2
  <2>4. \A i \in 0..m : g[i] = f[i] /\ f[i] \in S
    BY <2>1 DEF Begins
  <2>5. g[m + 1] = new /\ g \in [0..(m + 1) -> S] /\ g[0] = c
    BY <2>1, <2>3, <2>4 DEF Begins
  <2>6. ASSUME NEW i \in 1..(m + 1) PROVE g[i] = G[i][g[next[i]]]
    <3>1. CASE i = m + 1
      <4>1. g[next[i]] = f[next[m + 1]]
        BY <2>2, <2>4, <3>1
      <4> QED
        BY <2>5, <3>1, <4>1
    <3>2. CASE i \in 1..m
      <4>1. next[i] \in 0..m
        <5>1. i \in Nat \ {0}
          OBVIOUS
        <5>2. next[i] \in Nat /\ next[i] < i
          BY <5>1
        <5> QED
          BY <3>2, <5>2
      <4>2. g[next[i]] = f[next[i]]
        BY <2>4, <4>1
      <4>3. g[i] = f[i]
        BY <2>4, <3>2
      <4> QED
        BY <2>1, <3>2, <4>2, <4>3 DEF Begins
    <3> QED
      BY <3>1, <3>2
  <2> HIDE DEF g
  <2>7. Begins(g, m + 1, S, c, next, G)
    BY <2>5, <2>6 DEF Begins
  <2> QED
    BY <2>7
<1> HIDE DEF P
<1>3. n \in P
  BY <1>1, <1>2, Successors
<1> QED
  BY <1>3 DEF P

\* Two of them agree.
LEMMA BeginsAlike ==
  ASSUME NEW S, NEW c, NEW next \in [Nat \ {0} -> Nat],
         \A i \in Nat \ {0} : next[i] < i, NEW G,
         NEW n \in Nat, NEW m \in Nat, NEW f, NEW g,
         Begins(f, n, S, c, next, G), Begins(g, m, S, c, next, G)
  PROVE  \A i \in Nat : i <= n /\ i <= m => f[i] = g[i]
<1> DEFINE P == {i \in Nat : i <= n /\ i <= m => f[i] = g[i]}
<1>1. ASSUME NEW i \in Nat, \A j \in 0..(i - 1) : j \in P PROVE i \in P
  <2> SUFFICES ASSUME i <= n, i <= m PROVE f[i] = g[i]
    OBVIOUS
  <2>1. CASE i = 0
    BY <2>1 DEF Begins
  <2>2. CASE i # 0
    <3>1. i \in Nat \ {0} /\ i \in 1..n /\ i \in 1..m
      BY <2>2
    <3>2. next[i] \in Nat /\ next[i] < i
      BY <3>1
    <3>3. next[i] \in 0..(i - 1) /\ next[i] <= n /\ next[i] <= m
      BY <3>2
    <3>4. f[next[i]] = g[next[i]]
      BY <1>1, <3>3
    <3> QED
      BY <3>1, <3>4 DEF Begins
  <2> QED
    BY <2>1, <2>2
<1> HIDE DEF P
<1>2. \A i \in Nat : i \in P
  BY <1>1, AllBelow
<1> QED
  BY <1>2 DEF P

\* The arguments a function is defined from are smaller.
Smaller(next) == next \in [Nat \ {0} -> Nat] /\ \A i \in Nat \ {0} : next[i] < i

Recurs(f, S, c, next, G) ==
    /\ f \in [Nat -> S] /\ f[0] = c
    /\ \A i \in Nat \ {0} : f[i] = G[i][f[next[i]]]

\* There is a function that is defined from smaller arguments.
LEMMA Recursion ==
  ASSUME NEW S, NEW c, NEW next, NEW G, c \in S, Smaller(next), G \in [Nat \ {0} -> [S -> S]]
  PROVE  \E f : Recurs(f, S, c, next, G)
<1>1. next \in [Nat \ {0} -> Nat] /\ \A i \in Nat \ {0} : next[i] < i
  BY DEF Smaller
<1> DEFINE F(n) == CHOOSE f : Begins(f, n, S, c, next, G)
           f == [n \in Nat |-> F(n)[n]]
<1>2. \A n \in Nat : Begins(F(n), n, S, c, next, G)
  BY <1>1, BeginsOne
<1> HIDE DEF F
<1>3. \A n \in Nat : f[n] = F(n)[n]
  OBVIOUS
<1>4. f \in [Nat -> S]
  <2>1. ASSUME NEW n \in Nat PROVE F(n)[n] \in S
    BY <1>2 DEF Begins
  <2> QED
    BY <2>1
<1> HIDE DEF f
<1>5. f[0] = c
  BY <1>2, <1>3 DEF Begins
<1>6. ASSUME NEW i \in Nat \ {0} PROVE f[i] = G[i][f[next[i]]]
  <2>1. next[i] \in Nat /\ next[i] < i /\ i \in Nat /\ i \in 1..i
    BY <1>1
  <2>2. F(i)[i] = G[i][F(i)[next[i]]]
    BY <1>2, <2>1 DEF Begins
  <2>3. F(i)[next[i]] = F(next[i])[next[i]]
    <3>1. Begins(F(i), i, S, c, next, G) /\ Begins(F(next[i]), next[i], S, c, next, G)
      BY <1>2, <2>1
    <3> DEFINE k == next[i]
               a == F(i)
               b == F(k)
    <3>2. k \in Nat /\ k <= i /\ k <= k
      BY <2>1
    <3>3. Begins(a, i, S, c, next, G) /\ Begins(b, k, S, c, next, G)
      BY <3>1
    <3> HIDE DEF k, a, b
    <3>4. \A j \in Nat : j <= i /\ j <= k => a[j] = b[j]
      BY <1>1, <2>1, <3>2, <3>3, BeginsAlike
    <3> QED
      BY <3>2, <3>4 DEF k, a, b
  <2> QED
    BY <1>3, <2>1, <2>2, <2>3
<1> QED
  BY <1>4, <1>5, <1>6 DEF Recurs

-----------------------------------------------------------------------------
(* Least and greatest elements.                                            *)

\* A set of naturals that is not empty has a least element, its Min.
LEMMA MinIs ==
  ASSUME NEW T \in SUBSET Nat, T # {}
  PROVE  Min(T) \in T /\ \A k \in T : Min(T) <= k
BY LeastOf DEF Min

\* A set of indices that is not empty has a greatest element, its Max.
LEMMA MaxIs ==
  ASSUME NEW n \in Nat, NEW T \in SUBSET (1..n), T # {}
  PROVE  Max(T) \in T /\ \A k \in T : k <= Max(T)
<1> DEFINE D == {n - k : k \in T}
<1>1. D \in SUBSET Nat /\ D # {}
  <2>1. \A k \in T : n - k \in Nat
    OBVIOUS
  <2> QED
    BY <2>1
<1>2. Min(D) \in D /\ \A e \in D : Min(D) <= e
  BY <1>1, MinIs
<1>3. PICK m \in T : Min(D) = n - m
  BY <1>2
<1>4. \A k \in T : n - m <= n - k
  BY <1>2, <1>3
<1>5. \A k \in T : m >= k
  BY <1>4
<1>6. Max(T) \in T /\ \A k \in T : Max(T) >= k
  BY <1>5 DEF Max
<1> QED
  BY <1>6

\* A finite set of naturals is bounded.
LEMMA BoundOf ==
  ASSUME NEW T \in SUBSET Nat, IsFiniteSet(T)
  PROVE  \E b \in Nat : \A k \in T : k <= b
<1> DEFINE n == Cardinality(T)
<1>1. n \in Nat /\ ExistsBijection(1..n, T)
  BY FS_CardinalityType
<1>2. PICK f \in [1..n -> T] : \A k \in T : \E i \in 1..n : f[i] = k
  BY <1>1 DEF ExistsBijection, Bijection, Injection, Surjection
<1> DEFINE P == {m \in Nat : m <= n => \E b \in Nat : \A i \in 1..m : f[i] <= b}
<1> HIDE DEF n
<1>3. 0 \in P
  OBVIOUS
<1>4. ASSUME NEW m \in Nat, m \in P PROVE m + 1 \in P
  <2> SUFFICES ASSUME m + 1 <= n PROVE \E b \in Nat : \A i \in 1..(m + 1) : f[i] <= b
    OBVIOUS
  <2>1. PICK b \in Nat : \A i \in 1..m : f[i] <= b
    BY <1>1, <1>4
  <2> DEFINE c == f[m + 1]
             d == IF b <= c THEN c ELSE b
  <2>2. c \in Nat
    <3>1. m + 1 \in 1..n
      BY <1>1
    <3> QED
      BY <1>2, <3>1
  <2>3. d \in Nat /\ b <= d /\ c <= d
    BY <2>2
  <2> HIDE DEF d, c
  <2>4. ASSUME NEW i \in 1..(m + 1) PROVE f[i] <= d
    <3>1. CASE i = m + 1
      BY <2>3, <3>1 DEF c
    <3>2. CASE i \in 1..m
      <4>1. i \in 1..n
        BY <1>1
      <4>2. f[i] \in Nat /\ f[i] <= b
        BY <1>2, <2>1, <3>2, <4>1
      <4> QED
        BY <2>3, <4>2
    <3> QED
      BY <3>1, <3>2
  <2> QED
    BY <2>3, <2>4
<1> HIDE DEF P
<1>5. n \in P
  BY <1>1, <1>3, <1>4, Successors
<1>6. PICK b \in Nat : \A i \in 1..n : f[i] <= b
  BY <1>1, <1>5 DEF P
<1> QED
  BY <1>2, <1>6

\* A finite set of naturals that is not empty has a greatest element, its Max.
LEMMA MaxOf ==
  ASSUME NEW T \in SUBSET Nat, IsFiniteSet(T), T # {}
  PROVE  Max(T) \in T /\ \A k \in T : k <= Max(T)
<1>1. PICK b \in Nat : \A k \in T : k <= b
  BY BoundOf
<1> DEFINE D == {b - k : k \in T}
<1>2. D \in SUBSET Nat /\ D # {}
  <2>1. \A k \in T : b - k \in Nat
    BY <1>1
  <2> QED
    BY <2>1
<1>3. Min(D) \in D /\ \A e \in D : Min(D) <= e
  BY <1>2, MinIs
<1>4. PICK m \in T : Min(D) = b - m
  BY <1>3
<1>5. \A k \in T : b - m <= b - k
  BY <1>3, <1>4
<1>6. \A k \in T : m >= k
  BY <1>5
<1>7. Max(T) \in T /\ \A k \in T : Max(T) >= k
  BY <1>6 DEF Max
<1> QED
  BY <1>7

\* A page: those of a set that have fewer than a limit before them. It has all before
\* its last, and is the whole set if it is not full.
LEMMA PagesAre ==
  ASSUME NEW T \in SUBSET Nat, IsFiniteSet(T), NEW limit \in Nat \ {0},
         NEW page, page = {k \in T : Cardinality({i \in T : i < k}) < limit}
  PROVE  /\ IsFiniteSet(page) /\ Cardinality(page) \in Nat
         /\ \A k \in page, i \in T : i < k => i \in page
         /\ Cardinality(page) < limit => page = T
<1> DEFINE Below(k) == {i \in T : i < k}
<1>1. page \subseteq T /\ \A k \in T : k \in page <=> Cardinality(Below(k)) < limit
  OBVIOUS
<1>2. \A k \in Nat : IsFiniteSet(Below(k)) /\ Cardinality(Below(k)) \in Nat
  <2> SUFFICES ASSUME NEW k \in Nat PROVE IsFiniteSet(Below(k)) /\ Cardinality(Below(k)) \in Nat
    OBVIOUS
  <2>1. Below(k) \in SUBSET T
    OBVIOUS
  <2> HIDE DEF Below
  <2> QED
    BY <2>1, FS_Subset, FS_CardinalityType
<1>3. IsFiniteSet(page) /\ Cardinality(page) \in Nat
  BY <1>1, FS_Subset, FS_CardinalityType
<1>4. ASSUME NEW k \in page, NEW i \in T, i < k PROVE i \in page
  <2>1. k \in Nat /\ i \in Nat
    BY <1>1
  <2>2. Below(i) \in SUBSET Below(k)
    <3>1. \A x \in T : x < i => x < k
      BY <1>4, <2>1
    <3> QED
      BY <3>1
  <2> HIDE DEF Below
  <2>3. Cardinality(Below(i)) <= Cardinality(Below(k))
    BY <1>2, <2>1, <2>2, FS_Subset
  <2> QED
    BY <1>1, <1>2, <2>1, <2>3
<1>5. ASSUME Cardinality(page) < limit PROVE page = T
  <2> SUFFICES ASSUME T \ page # {} PROVE FALSE
    BY <1>1
  <2>1. PICK m \in T \ page : \A k \in T \ page : m <= k
    BY LeastOf
  <2>2. Below(m) \in SUBSET page
    <3>1. \A x \in T : x < m => ~(m <= x)
      BY <2>1
    <3> QED
      BY <2>1, <3>1
  <2> HIDE DEF Below
  <2>3. Cardinality(Below(m)) <= Cardinality(page)
    BY <1>3, <2>2, FS_Subset
  <2>4. ~(Cardinality(Below(m)) < limit) /\ Cardinality(Below(m)) \in Nat
    BY <1>1, <1>2, <2>1
  <2> QED
    BY <1>3, <1>5, <2>3, <2>4
<1> QED
  BY <1>3, <1>4, <1>5

\* A page from the end.
LEMMA PagesDown ==
  ASSUME NEW T \in SUBSET Nat, IsFiniteSet(T), NEW limit \in Nat \ {0},
         NEW page, page = {k \in T : Cardinality({i \in T : i > k}) < limit}
  PROVE  /\ IsFiniteSet(page) /\ Cardinality(page) \in Nat
         /\ \A k \in page, i \in T : i > k => i \in page
         /\ Cardinality(page) < limit => page = T
<1> DEFINE Above(k) == {i \in T : i > k}
<1>1. page \subseteq T /\ \A k \in T : k \in page <=> Cardinality(Above(k)) < limit
  OBVIOUS
<1>2. \A k \in Nat : IsFiniteSet(Above(k)) /\ Cardinality(Above(k)) \in Nat
  <2> SUFFICES ASSUME NEW k \in Nat PROVE IsFiniteSet(Above(k)) /\ Cardinality(Above(k)) \in Nat
    OBVIOUS
  <2>1. Above(k) \in SUBSET T
    OBVIOUS
  <2> HIDE DEF Above
  <2> QED
    BY <2>1, FS_Subset, FS_CardinalityType
<1>3. IsFiniteSet(page) /\ Cardinality(page) \in Nat
  BY <1>1, FS_Subset, FS_CardinalityType
<1>4. ASSUME NEW k \in page, NEW i \in T, i > k PROVE i \in page
  <2>1. k \in Nat /\ i \in Nat
    BY <1>1
  <2>2. Above(i) \in SUBSET Above(k)
    <3>1. \A x \in T : x > i => x > k
      BY <1>4, <2>1
    <3> QED
      BY <3>1
  <2> HIDE DEF Above
  <2>3. Cardinality(Above(i)) <= Cardinality(Above(k))
    BY <1>2, <2>1, <2>2, FS_Subset
  <2> QED
    BY <1>1, <1>2, <2>1, <2>3
<1>5. ASSUME Cardinality(page) < limit PROVE page = T
  <2> SUFFICES ASSUME T \ page # {} PROVE FALSE
    BY <1>1
  <2>1. PICK m \in T \ page : \A k \in T \ page : k <= m
    <3>1. IsFiniteSet(T \ page)
      BY FS_Subset
    <3> QED
      BY <3>1, MaxOf
  <2>2. Above(m) \in SUBSET page
    <3>1. \A x \in T : x > m => ~(x <= m)
      BY <2>1
    <3> QED
      BY <2>1, <3>1
  <2> HIDE DEF Above
  <2>3. Cardinality(Above(m)) <= Cardinality(page)
    BY <1>3, <2>2, FS_Subset
  <2>4. ~(Cardinality(Above(m)) < limit) /\ Cardinality(Above(m)) \in Nat
    BY <1>1, <1>2, <2>1
  <2> QED
    BY <1>3, <1>5, <2>3, <2>4
<1> QED
  BY <1>3, <1>4, <1>5

\* A value that no block of a range changed is that of the last.
LEMMA NoneChanged ==
  ASSUME NEW f, NEW a \in Nat, NEW b \in Nat, \A k \in (a + 1)..b : f[k] = f[k - 1]
  PROVE  \A k \in a..b : f[k] = f[b]
<1> DEFINE P == {i \in Nat : a + i <= b => f[a + i] = f[a]}
<1>1. 0 \in P
  OBVIOUS
<1>2. \A i \in Nat : i \in P => i + 1 \in P
  <2> SUFFICES ASSUME NEW i \in Nat, i \in P, a + (i + 1) <= b PROVE f[a + (i + 1)] = f[a]
    OBVIOUS
  <2>1. a + (i + 1) \in (a + 1)..b /\ (a + (i + 1)) - 1 = a + i /\ a + i <= b
    OBVIOUS
  <2> QED
    BY <2>1
<1>3. \A i \in Nat : i \in P
  BY <1>1, <1>2, Successors
<1>4. ASSUME NEW k \in a..b PROVE f[k] = f[a]
  <2>1. k - a \in Nat /\ a + (k - a) = k /\ k <= b
    OBVIOUS
  <2>2. k - a \in P
    BY <1>3, <2>1
  <2> QED
    BY <2>1, <2>2
<1>5. a..b # {} => b \in a..b
  OBVIOUS
<1> QED
  BY <1>4, <1>5
=============================================================================
